------------------------------- MODULE Watcher -------------------------------
(***************************************************************************)
(* One run of the watcher (_run of __main__.py): it loads its              *)
(* configuration, looks for Crafty, and then runs the loops of PollLoop    *)
(* beside the reload watcher and the health server until a signal ends     *)
(* them or one of them fails and gather lets that through.                 *)
(***************************************************************************)
EXTENDS Config, PollLoop

CONSTANTS
    StartFiles,  \* what the configuration file may hold at first
    Edits        \* the files the operator writes over it, one after the other

\* Files as load_config finds them: what stands under servers, if anything
\* does, is a mapping, read as the sequence of its entries.
Files == StartFiles \cup {Edits[i] : i \in DOMAIN Edits}

ASSUME FilesAssumption ==
    /\ Edits \in Seq(Files)
    /\ \A f \in Files \ {Misshapen, Unreadable} :
         LET servers == Section(f, "servers")
         IN servers \notin {Absent, Misshapen} =>
              /\ servers \in Seq({servers[i] : i \in DOMAIN servers})
              /\ \A i \in DOMAIN servers : servers[i].name \in Names

VARIABLES
    stage,       \* loading, checking (check_health), listing (list_servers), running,
                 \* done, refused (sys.exit(1)), died of an exception
    file,        \* external: the configuration file, as load_config takes it
    edits,       \* external: how many edits there were
    cfg,         \* the settings the machines and the monitor go by
    controllers, \* the access settings of the AccessControllers
    hangup,      \* _reload_event
    first, last  \* history: the first and the last file that was accepted

settings == <<cfg, controllers, first, last>>
process  == <<stage, file, edits, settings, hangup>>
vars     == <<loopVars, process>>

Over      == stage \in {"done", "refused", "died"}
Signalled == stage \in {"checking", "listing", "running"}

TypeOK ==
    /\ LoopTypeOK
    /\ Signalled \/ Over \/ stage = "loading"
    /\ file.outcome \in {"good", "invalid", "broken"}
    /\ edits \in 0 .. Len(Edits)
    /\ (cfg = None) <=> (order = <<>>)
    /\ hangup \in BOOLEAN
    /\ stage = "running" => step # "unstarted"

Init ==
    /\ LoopInit
    /\ stage = "loading" /\ file \in {LoadConfig(f) : f \in StartFiles} /\ edits = 0
    /\ cfg = None /\ controllers = None /\ first = None /\ last = None
    /\ hangup = FALSE

(***************************************************************************)
(* Startup.                                                                *)
(***************************************************************************)

Controllers(c) == [n \in DOMAIN c.servers |-> c.servers[n].access]

Loads ==
    /\ stage = "loading" /\ file.outcome = "good"
    /\ stage' = "checking"
    /\ LET new == file.config
       IN /\ cfg' = new /\ controllers' = Controllers(new)
          /\ first' = new /\ last' = new
          /\ order' = new.order
          /\ java' = {n \in DOMAIN new.servers : new.servers[n].edition # "bedrock"}
    /\ UNCHANGED <<monitor, world, stopping, shutdown, caught, late, file, edits, hangup>>

LoadFails ==
    /\ stage = "loading" /\ file.outcome # "good"
    /\ stage' = IF file.outcome = "invalid" THEN "refused" ELSE "died"
    /\ UNCHANGED <<loopVars, file, edits, settings, hangup>>

\* check_health says yes, or no for whatever reason.
FindsCrafty ==
    /\ stage = "checking"
    /\ stage' \in {"listing", "refused"}
    /\ UNCHANGED <<loopVars, file, edits, settings, hangup>>

\* list_servers answers, and gather makes the first step of every task: the
\* reload watcher clears its event, the health server finds its port free.  A
\* server that is not listed is managed all the same.
Lists ==
    /\ stage = "listing"
    /\ stage' = "running"
    /\ PassBegins
    /\ hangup' = FALSE
    /\ UNCHANGED <<order, java, world, stopping, shutdown, caught, file, edits, settings>>

\* list_servers fails or the health server's port is taken: an exception that
\* nothing catches.
StartFails ==
    /\ stage = "listing"
    /\ stage' = "died"
    /\ UNCHANGED <<loopVars, file, edits, settings, hangup>>

(***************************************************************************)
(* Signals and reloads.                                                    *)
(***************************************************************************)

\* SIGTERM or SIGINT, once the handlers are in place.
Terminates ==
    /\ Signalled /\ ~shutdown
    /\ shutdown' = TRUE /\ caught' = (step # "asleep")
    /\ UNCHANGED <<order, java, monitor, world, stopping, late, process>>

\* SIGHUP.
HangsUp ==
    /\ Signalled /\ ~hangup
    /\ hangup' = TRUE
    /\ UNCHANGED <<loopVars, stage, file, edits, settings>>

\* external: the operator edits the file.
Edited ==
    /\ Signalled /\ edits < Len(Edits)
    /\ edits' = edits + 1 /\ file' = LoadConfig(Edits[edits'])
    /\ UNCHANGED <<loopVars, stage, settings, hangup>>

\* The reload watcher goes on, and is not told to end.
Reloading == stage = "running" /\ hangup /\ ~shutdown

\* What a reload takes over: timeouts and access of the servers the new file has
\* too, the cooldowns and the interval (and texts, which are not kept here).
Merged(new) ==
    [cfg EXCEPT
        !.servers = [n \in DOMAIN @ |->
            IF n \notin DOMAIN new.servers THEN @[n]
            ELSE [@[n] EXCEPT
                    !.idle_timeout_minutes = new.servers[n].idle_timeout_minutes,
                    !.start_timeout_seconds = new.servers[n].start_timeout_seconds,
                    !.access = new.servers[n].access]],
        !.cooldown = new.cooldown,
        !.interval = new.interval]

\* Mutant: reload_access() is left out.
ReloadsMachines ==
    /\ Reloading /\ file.outcome = "good"
    /\ last' = file.config /\ cfg' = Merged(last')
    /\ hangup' = FALSE
    /\ UNCHANGED <<loopVars, stage, file, edits, controllers, first>>

\* Mutant: a watcher without its loop.
ReloadsOnce ==
    /\ Reloading /\ file.outcome = "good" /\ last = first
    /\ last' = file.config /\ cfg' = Merged(last') /\ controllers' = Controllers(cfg')
    /\ hangup' = FALSE
    /\ UNCHANGED <<loopVars, stage, file, edits, first>>

Reloads ==
    /\ Reloading /\ file.outcome = "good"
    /\ last' = file.config /\ cfg' = Merged(last') /\ controllers' = Controllers(cfg')
    /\ hangup' = FALSE
    /\ UNCHANGED <<loopVars, stage, file, edits, first>>

\* A ConfigError keeps the old settings ...
ReloadRefused ==
    /\ Reloading /\ file.outcome = "invalid"
    /\ hangup' = FALSE
    /\ UNCHANGED <<loopVars, stage, file, edits, settings>>

\* ... any other exception ends the process.
ReloadDies ==
    /\ Reloading /\ file.outcome = "broken"
    /\ stage' = "died"
    /\ UNCHANGED <<loopVars, file, edits, settings, hangup>>

\* The loops are through, and with them gather: the reload watcher and the
\* health server have nothing to wait for but the shutdown.
Finishes ==
    /\ stage = "running" /\ LoopEnded
    /\ stage' = "done"
    /\ UNCHANGED <<loopVars, file, edits, settings, hangup>>

Runs == stage = "running" /\ LoopNext /\ UNCHANGED process

Next ==
    \/ Loads \/ LoadFails \/ FindsCrafty \/ Lists \/ StartFails
    \/ Terminates \/ HangsUp \/ Edited
    \/ Reloads \/ ReloadRefused \/ ReloadDies
    \/ Runs \/ Finishes

Spec == Init /\ [][Next]_vars

\* Calls, pauses, waits and tasks that are ready go on, with any outcome.
Fairness ==
    /\ WF_vars(\/ Loads \/ LoadFails \/ FindsCrafty \/ Lists \/ StartFails
               \/ Reloads \/ ReloadRefused \/ ReloadDies \/ Finishes)
    /\ WF_vars(stage = "running" /\ MonitorNext /\ UNCHANGED process)
    /\ WF_vars(stage = "running" /\ (CloserWakes \/ ClosesAll) /\ UNCHANGED process)

FairSpec == Spec /\ Fairness

(***************************************************************************)
(* Properties.                                                             *)
(***************************************************************************)

\* README.md, Config hot-reload, made exact.  After any reloads, cooldowns and
\* interval are those of the last file that was accepted, and so are timeouts
\* and access of every server that file has, with the controllers going by them.
\* Everything else is as it was read at the start: the servers there are, with
\* their ids, ports and editions, the notifications, the path of the event
\* receiver and the state file.  No file that was refused leaves a trace.
TakenOverOrKept ==
    cfg # None =>
        /\ cfg.cooldown = last.cooldown /\ cfg.interval = last.interval
        /\ cfg.order = first.order /\ DOMAIN cfg.servers = DOMAIN first.servers
        /\ cfg.webhook = first.webhook /\ cfg.path = first.path /\ cfg.state = first.state
        /\ \A n \in DOMAIN cfg.servers :
             LET s == cfg.servers[n] IN
             /\ s.crafty_server_id = first.servers[n].crafty_server_id
             /\ s.listen_port = first.servers[n].listen_port
             /\ s.edition = first.servers[n].edition
             /\ controllers[n] = s.access
             /\ n \in DOMAIN last.servers =>
                  /\ s.idle_timeout_minutes = last.servers[n].idle_timeout_minutes
                  /\ s.start_timeout_seconds = last.servers[n].start_timeout_seconds
                  /\ s.access = last.servers[n].access

\* What the loader is there to exclude (the ConfigErrors of config.py) holds
\* of the settings in use at any time: no two servers on a port, no whitelist
\* without names to let in, no notifications without an address.
RunningIsSound ==
    cfg # None =>
        /\ \A n, m \in DOMAIN cfg.servers :
             cfg.servers[n].listen_port = cfg.servers[m].listen_port => n = m
        /\ \A n \in DOMAIN cfg.servers :
             LET a == cfg.servers[n].access
             IN a.mode = "whitelist" => a.file # "" \/ a.players # <<>>
        /\ cfg.webhook.enabled => cfg.webhook.url # ""

\* A shutdown that finds the monitor between two passes leaves no listener.
\* (One inside a pass binds again what stop_all has closed.)
QuietShutdownCloses ==
    LoopEnded /\ ~caught /\ late = 0 => \A n \in Names : ~listening[n]

\* After a shutdown signal at most one more pass begins.
OneLatePass == late <= 1

\* A signal ends the process, whatever Crafty and the ports do.
ShutdownEnds == shutdown ~> Over

\* The server at each place is polled again and again, through outages, errors
\* and taken ports, unless one in front of it is answered 403 again and again:
\* such an answer ends the polls of the pass (so that a token without access to
\* one server starves those behind it), and of no more than the pass, although
\* idle_monitor.py:122 says that all calls are skipped until it is fixed.
PolledAgain ==
    \A i \in 1 .. Cardinality(Names) :
        \/ []<>(Over \/ shutdown \/ (stage = "running" => i > Len(order))
                \/ (step = "asking" /\ at = i))
        \/ []<><<Forbids /\ at < i>>_vars

\* A Java server that wants the proxy gets it once its port is free, even while
\* Crafty is out of reach or refuses the token.
ProxyComes ==
    \A n \in Names : []<>(\/ Over \/ shutdown \/ n \notin java
                        \/ listening[n] \/ ~sleeping[n] \/ taken[n])

\* config.py, load_config, and the reload's own message: a file that is not
\* valid leaves the watcher running on its old settings.  (What the code does
\* not do with a port that is no number.)
ReloadSurvives == [][stage = "running" => stage' # "died"]_vars

\* A SIGHUP makes the watcher take up the file, unless that is spoilt first.
ReloadTakes ==
    (Reloading /\ file.outcome = "good")
        ~> (Over \/ shutdown \/ file.outcome # "good" \/ last = file.config)
=============================================================================
