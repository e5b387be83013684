----------------------------- MODULE IdleMonitor -----------------------------
(***************************************************************************)
(* The idle countdown of one server, over any number of runs of the        *)
(* watcher: the clocks of ServerStateMachine (server_state.py), the polls  *)
(* and idle stops of IdleMonitor (idle_monitor.py) and the snapshot that   *)
(* outlives a run (state_store.py).  Time is a Tick, longer than any call; *)
(* a timestamp is its age in ticks, which stops growing at the bound the   *)
(* code compares it with: older makes no difference, and neither does a    *)
(* timestamp that was never set.  The port, and events that overtake one   *)
(* another, are PortHandover's: an event is handled as it happens here, or *)
(* never, as all of them are where crafty_events is off or the server is a *)
(* Bedrock one (not_managed).                                              *)
(***************************************************************************)
EXTENDS Lifecycle, Integers, Sequences, FiniteSets

CONSTANTS
    IdleTimeout,   \* idle_timeout_minutes
    StopCooldown,  \* stop_cooldown_minutes
    StartGrace,    \* start_grace_minutes
    StartTimeout,  \* start_timeout_seconds
    FlapWindow,    \* flap_window_minutes
    FlapCycles,    \* flap_max_cycles
    HistoryLen,    \* maxlen of start_stop_history (20)
    MaxAge,        \* MAX_SNAPSHOT_AGE_SECONDS
    Nothing,       \* where there is no snapshot
    Env            \* what the world may do beside playing: see Deeds

\* console: an operator starts and stops the server
\* hasty:   ... and starts it before the watcher has noticed that it is down
\* lossy:   what happens to the server may not be told: a poll may see it, or
\*          see the next thing
\* crash:   the server may crash
\* racing:  things happen while a call is awaited, and stop_server may fail
\*          after Crafty has acted on it
\* restart: the watcher is shut down and started again
\* kill:    ... in the middle of a call
\* behind:  the server is started and stopped while the watcher is not running,
\*          or before the first poll of a run
\* others:  other servers' transitions save this server's machine too
\* outage:  no poll succeeds for as long as a snapshot may be old
Deeds == {"console", "hasty", "lossy", "crash", "racing", "restart", "kill", "behind", "others", "outage"}

ASSUME IdleMonitorAssumption ==
    /\ IdleTimeout \in Nat \ {0} /\ MaxAge \in Nat
    /\ StopCooldown \in Nat /\ StartGrace \in Nat /\ StartTimeout \in Nat
    /\ FlapWindow \in Nat /\ FlapCycles \in Nat
    /\ HistoryLen \in Nat \ {0}
    /\ Env \subseteq Deeds

VARIABLES
    sm,        \* the machine: state, idle_since, last_stop_time, last_start_time, history
    pc,        \* off, waiting for the next poll, asking: in get_server_stats,
               \* stopping / stopCalled: in stop_server, before / after Crafty acted on it
    pending,   \* _pending_restore[name]
    file,      \* this server's entry in the state file
    fileAge,   \* the age of saved_at
    world,     \* external: the server process and its players
    quiet,     \* history: for how long it was not played, down or new, but for what
               \* a running watcher was not told and no poll saw
    before     \* history: the machine of the last run that had one

store   == <<pending, file, fileAge>>
history == <<quiet, before>>
vars    == <<sm, pc, store, world, history>>

Worlds  == {"down", "crashed", "booting", "empty", "played"}
Running == {"booting", "empty", "played"}

\* How old a start may have to be, for the grace and for the deadline.
StartBound == IF StartTimeout < StartGrace THEN StartGrace ELSE StartTimeout + 1

Machines ==
    [state   : States,
     idle    : 0 .. IdleTimeout,     \* meant in IDLE only: every entry renews it
     stopped : 0 .. StopCooldown,
     started : 0 .. StartBound,
     recent  : Seq(0 .. FlapWindow)]

ASSUME NothingAssumption == Nothing \notin Machines

TypeOK ==
    /\ sm \in Machines /\ Len(sm.recent) <= HistoryLen
    /\ pc \in {"off", "waiting", "asking", "stopping", "stopCalled"}
    /\ pending \in Machines \cup {Nothing}
    /\ file \in Machines \cup {Nothing}
    /\ before \in Machines \cup {Nothing}
    /\ fileAge \in 0 .. MaxAge + 1
    /\ world \in Worlds
    /\ quiet \in 0 .. IdleTimeout

\* A ServerStateMachine as __main__ makes it.
Fresh == [state |-> "UNKNOWN", idle |-> 0, stopped |-> StopCooldown,
          started |-> StartBound, recent |-> <<>>]

Init ==
    /\ sm = Fresh /\ pc = "waiting"
    /\ pending = Nothing /\ file = Nothing /\ fileAge = 0
    /\ world \in Worlds
    /\ quiet = 0 /\ before = Nothing

(***************************************************************************)
(* The machine and its snapshot.                                           *)
(***************************************************************************)

\* Mutant: a plain list.
PushUnbounded(h) == Append(h, 0)

\* start_stop_history.append(now), on a deque with a maxlen.
Push(h) == IF Len(h) >= HistoryLen THEN Append(Tail(h), 0) ELSE Append(h, 0)

\* Mutant: an entry into IDLE goes on with the old clock.
MovedOnOldClock(m, new) ==
    LET s == Transition(m.state, new) IN
    IF s = m.state THEN m
    ELSE [state   |-> s,
          idle    |-> m.idle,
          stopped |-> IF s = "STOPPED" THEN 0 ELSE m.stopped,
          started |-> IF s = "STARTING" THEN 0 ELSE m.started,
          recent  |-> IF s \in {"STOPPED", "STARTING"} THEN Push(m.recent) ELSE m.recent]

\* transition(): the machine m after it was asked to become new.
Moved(m, new) ==
    LET s == Transition(m.state, new) IN
    IF s = m.state THEN m
    ELSE [state   |-> s,
          idle    |-> 0,
          stopped |-> IF s = "STOPPED" THEN 0 ELSE m.stopped,
          started |-> IF s = "STARTING" THEN 0 ELSE m.started,
          recent  |-> IF s \in {"STOPPED", "STARTING"} THEN Push(m.recent) ELSE m.recent]

Save(m) == file' = m /\ fileAge' = 0

\* The machine goes from m to n by transitions; an accepted one is saved.
Become(m, n) ==
    /\ sm' = n
    /\ IF n.state # m.state THEN Save(n) ELSE UNCHANGED <<file, fileAge>>

Stopped(m) == m.state \in Down \cup {"UNKNOWN"}

\* Mutant: the first poll drops the snapshot.
AdoptedNever(running) == sm

\* restore(): a snapshot that the first poll agrees with is adopted.
Adopted(running) ==
    IF pending # Nothing /\ (running = ~Stopped(pending)) THEN pending ELSE sm

Older(age, bound) == IF age < bound THEN age + 1 ELSE age

Aged(m) ==
    IF m = Nothing THEN m
    ELSE [m EXCEPT !.idle = IF m.state = "IDLE" THEN Older(@, IdleTimeout) ELSE @,
                   !.stopped = Older(@, StopCooldown),
                   !.started = Older(@, StartBound),
                   !.recent = [i \in DOMAIN @ |-> Older(@[i], FlapWindow)]]

(***************************************************************************)
(* The poll.                                                               *)
(***************************************************************************)

\* external: the stats Crafty may give of a server that is doing w.
Reports(w) ==
    {r \in Stats :
        /\ r.running = (w \in Running)
        /\ r.crashed = (w = "crashed")
        /\ r.ping => w \in {"empty", "played"}
        /\ r.players = (w = "played")}

Overdue(m) == m.state = "STARTING" /\ m.started > StartTimeout

InGrace(m)    == m.started < StartGrace
InCooldown(m) == m.stopped < StopCooldown
Flapping(m)   ==
    Cardinality({i \in DOMAIN m.recent : m.recent[i] < FlapWindow}) >= FlapCycles * 2

\* _check_idle_shutdown gets as far as the stop request.
Due(m) == ~InGrace(m) /\ ~InCooldown(m) /\ ~Flapping(m) /\ m.idle >= IdleTimeout

Asks ==
    /\ pc = "waiting"
    /\ pc' = "asking"
    /\ UNCHANGED <<sm, store, world, history>>

PollFails ==
    /\ pc = "asking"
    /\ pc' = "waiting"
    /\ UNCHANGED <<sm, store, world, history>>

\* _poll_one.  The restored machine goes through the rules as if it had never
\* been interrupted; restore() itself saves nothing.
Polls ==
    /\ pc = "asking"
    /\ \E r \in Reports(world) :
         LET m    == Adopted(r.running /\ ~r.crashed)
             idle == ReachesIdleCheck(m.state, r)
             stop == idle /\ Due(m)
         IN /\ Become(m, Moved(m, IF stop THEN "STOPPING"
                                  ELSE IF idle THEN m.state
                                  ELSE PollTarget(m.state, r, Overdue(m))))
            /\ pc' = IF stop THEN "stopping" ELSE "waiting"
            /\ quiet' = IF r.running /\ ~r.players THEN quiet ELSE 0
    /\ pending' = Nothing /\ before' = Nothing
    /\ UNCHANGED world

\* stop_server is answered.
StopReturns ==
    /\ pc = "stopCalled"
    /\ pc' = "waiting"
    /\ UNCHANGED <<sm, store, world, history>>

\* The rollback: IDLE, and the idle time it was before the request.
StopFails ==
    /\ pc = "stopping" \/ (pc = "stopCalled" /\ "racing" \in Env)
    /\ pc' = "waiting"
    /\ sm' = [Moved(sm, "IDLE") EXCEPT !.idle = IdleTimeout]
    /\ Save(sm')
    /\ UNCHANGED <<pending, world, history>>

(***************************************************************************)
(* What else moves the machine.                                            *)
(***************************************************************************)

\* An event of the server reaches the machine, if the watcher runs ...
Hears(new) ==
    IF pc = "off" THEN UNCHANGED <<sm, file, fileAge>> ELSE Become(sm, Moved(sm, new))

\* ... or the receiver is off, does not manage the server, or is not reached.
Missed == "lossy" \in Env /\ pc # "off" /\ UNCHANGED <<sm, file, fileAge, quiet>>

\* release_for_start: not_stopped is all it says of a start it does not expect,
\* and an idle clock goes on.
StartHeard ==
    /\ IF sm.state \in Down THEN Hears("STARTING") ELSE UNCHANGED <<sm, file, fileAge>>
    /\ quiet' = IF sm.state = "IDLE" THEN quiet ELSE 0

\* reclaim_after_stop.
HaltHeard(new) ==
    /\ IF sm.state \notin Down THEN Hears(new) ELSE UNCHANGED <<sm, file, fileAge>>
    /\ quiet' = 0

\* Between calls, or while one is awaited; before the watcher has looked.
Free == /\ \/ pc \in {"off", "waiting"}
           \/ "racing" \in Env
        /\ (pc # "off" /\ pending = Nothing) \/ "behind" \in Env

\* A player wakes the server through the proxy (_handle_login), and the start
\* is asked of Crafty or fails.
LoginStarts ==
    /\ Free /\ pc # "off" /\ sm.state \in Down
    /\ world' = IF world \in Running THEN world ELSE "booting"
    /\ StartHeard
    /\ UNCHANGED <<pc, pending, before>>

LoginFails ==
    /\ Free /\ pc # "off" /\ sm.state \in Down
    /\ sm' = Moved(Moved(sm, "STARTING"), "STOPPED") /\ Save(sm')
    /\ UNCHANGED <<pc, pending, world, history>>

\* external: Crafty acts on stop_server.
CraftyStops ==
    /\ pc = "stopping"
    /\ pc' = "stopCalled"
    /\ IF world \in Running
       THEN world' = "down" /\ (HaltHeard("STOPPED") \/ Missed)
       ELSE UNCHANGED <<sm, file, fileAge, world, quiet>>
    /\ UNCHANGED <<pending, before>>

\* An operator in no hurry waits until the watcher knows that it is down.
ConsoleStarts ==
    /\ "console" \in Env /\ Free /\ world \in {"down", "crashed"}
    /\ Stopped(sm) \/ "hasty" \in Env
    /\ world' = "booting" /\ (StartHeard \/ Missed)
    /\ UNCHANGED <<pc, pending, before>>

ConsoleStops ==
    /\ "console" \in Env /\ Free /\ world \in Running
    /\ world' = "down" /\ (HaltHeard("STOPPED") \/ Missed)
    /\ UNCHANGED <<pc, pending, before>>

Crashes ==
    /\ "crash" \in Env /\ Free /\ world \in Running
    /\ world' = "crashed" /\ (HaltHeard("CRASHED") \/ Missed)
    /\ UNCHANGED <<pc, pending, before>>

\* external: the server is up; players come and go.
Plays ==
    /\ \/ world = "booting" /\ world' = "empty"
       \/ world = "empty"   /\ world' = "played"
       \/ world = "played"  /\ world' = "empty"
    /\ UNCHANGED <<sm, pc, store, history>>

(***************************************************************************)
(* Runs of the watcher.                                                    *)
(***************************************************************************)

\* The process ends: between polls at a SIGTERM, which run() and gather()
\* answer only there, or anywhere at a kill.
Ends ==
    /\ \/ pc = "waiting" /\ "restart" \in Env
       \/ pc # "off" /\ "kill" \in Env
    /\ pc' = "off" /\ sm' = Fresh /\ pending' = Nothing
    /\ before' = IF sm.state = "UNKNOWN" THEN before ELSE sm
    /\ UNCHANGED <<file, fileAge, world, quiet>>

\* load(), at the start of run().
Begins ==
    /\ pc = "off"
    /\ pc' = "waiting"
    /\ pending' = IF fileAge <= MaxAge THEN file ELSE Nothing
    /\ UNCHANGED <<sm, file, fileAge, world, history>>

\* save() writes every machine whenever one of them moves.
OtherSaves ==
    /\ "others" \in Env /\ pc # "off"
    /\ Save(sm)
    /\ UNCHANGED <<sm, pc, pending, world, history>>

Tick ==
    /\ pc \in {"off", "waiting"}
    /\ fileAge < MaxAge \/ sm.state \notin {"UNKNOWN", "IDLE"} \/ "outage" \in Env
    /\ sm' = Aged(sm) /\ pending' = Aged(pending) /\ file' = Aged(file)
    /\ fileAge' = Older(fileAge, MaxAge + 1)
    /\ quiet' = Older(quiet, IdleTimeout)
    /\ before' = Aged(before)
    /\ UNCHANGED <<pc, world>>

Next ==
    \/ Asks \/ Polls \/ PollFails \/ StopReturns \/ StopFails
    \/ LoginStarts \/ LoginFails \/ CraftyStops
    \/ ConsoleStarts \/ ConsoleStops \/ Crashes \/ Plays
    \/ Ends \/ Begins \/ OtherSaves \/ Tick

Spec == Init /\ [][Next]_vars

\* Time passes, polls keep coming and are not all failed or cut off, the stop
\* call is sometimes acted on, the watcher is started again, and a server
\* that boots comes up.
Fairness ==
    /\ SF_vars(Tick) /\ WF_vars(Begins) /\ WF_vars(StopReturns)
    /\ SF_vars(Asks) /\ SF_vars(Polls) /\ SF_vars(CraftyStops)
    /\ WF_vars(world = "booting" /\ Plays)

FairSpec == Spec /\ Fairness

(***************************************************************************)
(* Properties.                                                             *)
(***************************************************************************)

Requests == pc = "asking" /\ pc' = "stopping"

\* README.md, Idle shutdown: a stop is requested only of a server that has,
\* for the whole timeout, not been started, stopped or played, however often
\* the watcher was restarted meanwhile, as far as a running watcher could know:
\* that is, but for what it was not told of between two polls, and a start
\* that follows a stop it was not told of.  Without such losses it is so.
StopsOnlyIdle == [][Requests => quiet = IdleTimeout]_vars

\* README.md, State persistence: a restart of the watcher does not reset a
\* countdown in progress.  The first poll of a run finds the server as empty
\* as the last run left it, and goes on where that one was.
RestartKeepsClock ==
    [][Polls /\ before # Nothing /\ world = "empty" /\ quiet' = quiet
       => (before.state = "IDLE" /\ before.idle < IdleTimeout
           => sm'.state = "IDLE" /\ sm'.idle = before.idle)]_vars

\* An empty server is stopped in the end, though the watcher is restarted
\* again and again, calls fail (the reason state_store.py exists) and it is
\* told of nothing that happens, if the operator is not hasty: a start between
\* an idle stop nobody told of and the next poll leaves STOPPING for good.
EmptyStops == world = "empty" ~> world # "empty"
==============================================================================
