---------------------------- MODULE BedrockProxy ----------------------------
(***************************************************************************)
(* The UDP proxy of one hibernating Bedrock server (bedrock_proxy.py): the *)
(* manager that looks at the listener every few seconds, the tasks that    *)
(* wake the server, and the polls of idle_monitor.py that move its state.  *)
(* Crafty's events do nothing here: ProxyManager has the Java servers only *)
(* and answers not_managed.                                                *)
(***************************************************************************)
EXTENDS Lifecycle

CONSTANTS
    Wakes,  \* trigger_start tasks that may be alive at the same time
    Env     \* crash: the server may crash.  lost: start_server and stop_server may
            \* fail for the caller after Crafty acted.  stop: it is stopped elsewhere

ASSUME BedrockAssumption ==
    /\ Env \subseteq {"crash", "lost", "stop"}
    /\ "nobody" \notin Wakes /\ "manager" \notin Wakes

VARIABLES
    state,      \* ServerStateMachine.state
    overdue,    \* STARTING for more than start_timeout_seconds
    lockout,    \* name in _start_lockout
    transport,  \* _transports[name]: none; bound, inside create_datagram_endpoint;
                \* open, once that returned
    binder,     \* who is inside it: "manager" or one of Wakes, or "nobody"
    wake,       \* per trigger_start task, where it is suspended
    poll,       \* where the poll loop is suspended
    server      \* external: the server process

vars == <<state, overdue, lockout, transport, binder, wake, poll, server>>

Servers == {"down", "crashed", "booting", "up"}

\* pausing: the 5s sleep.  calling / called: start_server is in flight, before /
\* after Crafty acted on it.  recovering: in the rollback's _start_listener.
WakePcs == {"away", "pausing", "calling", "called", "recovering"}

\* asking: get_server_stats is in flight.  stopping / stopped: stop_server is,
\* before / after Crafty acted on it.
PollPcs == {"away", "asking", "stopping", "stopped"}

TypeOK ==
    /\ state \in States
    /\ overdue \in BOOLEAN
    /\ lockout \in BOOLEAN
    /\ transport \in {"none", "bound", "open"}
    /\ binder \in {"nobody", "manager"} \cup Wakes
    /\ (transport = "bound") = (binder # "nobody")
    /\ wake \in [Wakes -> WakePcs]
    /\ \A w \in Wakes : wake[w] = "recovering" => binder = w
    /\ poll \in PollPcs
    /\ server \in Servers

Init ==
    /\ state = "UNKNOWN" /\ overdue = FALSE
    /\ lockout = FALSE /\ transport = "none" /\ binder = "nobody"
    /\ wake = [w \in Wakes |-> "away"] /\ poll = "away"
    /\ server \in Servers /\ (server = "crashed" => "crash" \in Env)

MoveTo(new) ==
    /\ state' = Transition(state, new)
    /\ overdue' = (overdue /\ state = "STARTING" /\ state' = "STARTING")

PortFree == transport = "none" /\ server # "up"

\* Mutant: a second bind is let onto the port of one that has not returned.
StartListenerTwice(who) ==
    IF transport # "open" /\ server # "up"
    THEN transport' = "bound" /\ binder' = who
    ELSE UNCHANGED <<transport, binder>>

\* _start_listener, run by who: the socket is bound at once or never, its
\* registration waits for create_datagram_endpoint to return.
StartListener(who) ==
    IF PortFree THEN transport' = "bound" /\ binder' = who
                ELSE UNCHANGED <<transport, binder>>

\* _stop_listener: what is not registered yet is not closed.
StopListener ==
    /\ transport' = IF transport = "open" THEN "none" ELSE transport
    /\ UNCHANGED binder

Registers ==
    /\ transport = "bound"
    /\ transport' = "open" /\ binder' = "nobody"
    /\ wake' = [w \in Wakes |-> IF w = binder THEN "away" ELSE wake[w]]
    /\ UNCHANGED <<state, overdue, lockout, poll, server>>

\* Mutant: a lockout is for ever.
EnsuresLocked ==
    /\ binder # "manager"
    /\ IF lockout
       THEN UNCHANGED <<transport, binder>>
       ELSE IF state \in Down /\ transport # "open" THEN StartListener("manager")
            ELSE IF state \notin Down /\ transport = "open" THEN StopListener
            ELSE UNCHANGED <<transport, binder>>
    /\ UNCHANGED <<state, overdue, lockout, wake, poll, server>>

\* ensure_listeners, every 5 seconds.
Ensures ==
    /\ binder # "manager"
    /\ IF lockout /\ state \notin Down
       THEN UNCHANGED <<lockout, transport, binder>>
       ELSE /\ lockout' = FALSE
            /\ IF state \in Down /\ transport # "open" THEN StartListener("manager")
               ELSE IF state \notin Down /\ transport = "open" THEN StopListener
               ELSE UNCHANGED <<transport, binder>>
    /\ UNCHANGED <<state, overdue, wake, poll, server>>

\* Mutant: the port is locked out and not released.
DatagramKeepsPort(w) ==
    /\ transport = "open" /\ wake[w] = "away"
    /\ state \in Down /\ ~lockout
    /\ lockout' = TRUE
    /\ wake' = [wake EXCEPT ![w] = "pausing"]
    /\ UNCHANGED <<state, overdue, transport, binder, poll, server>>

\* datagram_received of an Open Connection Request 1, and trigger_start up to
\* its sleep: its task is next in line.
\* No datagram is read before the endpoint is registered.
Datagram(w) ==
    /\ transport = "open" /\ wake[w] = "away"
    /\ state \in Down /\ ~lockout
    /\ StopListener
    /\ lockout' = TRUE
    /\ wake' = [wake EXCEPT ![w] = "pausing"]
    /\ UNCHANGED <<state, overdue, poll, server>>

PauseEnds(w) ==
    /\ wake[w] = "pausing"
    /\ wake' = [wake EXCEPT ![w] = "calling"]
    /\ UNCHANGED <<state, overdue, lockout, transport, binder, poll, server>>

\* STARTING, after the call this time.
StartReturns(w) ==
    /\ wake[w] = "called"
    /\ MoveTo("STARTING")
    /\ wake' = [wake EXCEPT ![w] = "away"]
    /\ UNCHANGED <<lockout, transport, binder, poll, server>>

StartFails(w) ==
    /\ wake[w] = "calling" \/ (wake[w] = "called" /\ "lost" \in Env)
    /\ lockout' = FALSE
    /\ StartListener(w)
    /\ wake' = [wake EXCEPT ![w] = IF PortFree THEN "recovering" ELSE "away"]
    /\ UNCHANGED <<state, overdue, poll, server>>

\* external: the stats Crafty may give of the server.
Reports ==
    {r \in Stats :
        /\ r.running = (server \in {"booting", "up"})
        /\ r.crashed = (server = "crashed")
        /\ r.ping => server = "up"
        /\ r.players => server = "up"}

\* A wake is through within its pause and its call, well under a minute.
MinutesPass == \A w \in Wakes : wake[w] = "away"

\* _poll_one, and the idle stop that it may ask for after minutes
\* (_check_idle_shutdown); a poll that fails changes nothing.
Asks ==
    /\ poll = "away" /\ poll' = "asking"
    /\ UNCHANGED <<state, overdue, lockout, transport, binder, wake, server>>

Polls ==
    /\ poll = "asking" /\ poll' = "away"
    /\ \E r \in Reports : MoveTo(PollTarget(state, r, overdue))
    /\ UNCHANGED <<lockout, transport, binder, wake, server>>

PollFails ==
    /\ poll = "asking" /\ poll' = "away"
    /\ UNCHANGED <<state, overdue, lockout, transport, binder, wake, server>>

IdleStops ==
    /\ poll = "asking" /\ poll' = "stopping"
    /\ state = "IDLE" /\ server = "up" /\ MinutesPass
    /\ MoveTo("STOPPING")
    /\ UNCHANGED <<lockout, transport, binder, wake, server>>

StopReturns ==
    /\ poll = "stopped" /\ poll' = "away"
    /\ UNCHANGED <<state, overdue, lockout, transport, binder, wake, server>>

\* The rollback; the idle clock it restores is IdleMonitor's.
StopFails ==
    /\ poll = "stopping" \/ (poll = "stopped" /\ "lost" \in Env)
    /\ poll' = "away"
    /\ MoveTo("IDLE")
    /\ UNCHANGED <<lockout, transport, binder, wake, server>>

StartTimesOut ==
    /\ state = "STARTING" /\ ~overdue /\ MinutesPass
    /\ overdue' = TRUE
    /\ UNCHANGED <<state, lockout, transport, binder, wake, poll, server>>

\* external: Crafty acts on start_server.
CraftyStarts(w) ==
    /\ wake[w] = "calling"
    /\ server' = IF server \in {"down", "crashed"} THEN "booting" ELSE server
    /\ wake' = [wake EXCEPT ![w] = "called"]
    /\ UNCHANGED <<state, overdue, lockout, transport, binder, poll>>

\* external: Crafty acts on stop_server.
CraftyStops ==
    /\ poll = "stopping" /\ poll' = "stopped"
    /\ server' = IF server \in {"booting", "up"} THEN "down" ELSE server
    /\ UNCHANGED <<state, overdue, lockout, transport, binder, wake>>

\* external: the server finds its port free, or taken; it crashes or is stopped.
ServerBinds ==
    /\ server = "booting"
    /\ server' = IF transport = "none" THEN "up" ELSE "crashed"
    /\ UNCHANGED <<state, overdue, lockout, transport, binder, wake, poll>>

ServerEnds ==
    /\ server \in {"booting", "up"}
    /\ \/ "crash" \in Env /\ server' = "crashed"
       \/ "stop" \in Env /\ server' = "down"
    /\ UNCHANGED <<state, overdue, lockout, transport, binder, wake, poll>>

Task(w) == PauseEnds(w) \/ StartReturns(w) \/ StartFails(w)

Next ==
    \/ Registers \/ Ensures
    \/ \E w \in Wakes : Datagram(w) \/ Task(w) \/ CraftyStarts(w)
    \/ Asks \/ Polls \/ PollFails \/ IdleStops \/ StopReturns \/ StopFails
    \/ StartTimesOut \/ CraftyStops \/ ServerBinds \/ ServerEnds

Spec == Init /\ [][Next]_vars

\* The event loop runs its tasks, polls and calls go on, a booting server gets as far
\* as its port, a start grows old unless it ends.
Fairness ==
    /\ WF_vars(Registers) /\ WF_vars(Ensures) /\ WF_vars(Asks) /\ SF_vars(Polls) /\ SF_vars(StartTimesOut)
    /\ WF_vars(StopReturns \/ StopFails) /\ WF_vars(ServerBinds) /\ \A w \in Wakes : WF_vars(Task(w))

FairSpec == Spec /\ Fairness

(***************************************************************************)
(* Properties.                                                             *)
(***************************************************************************)

\* While the lockout stands the proxy is off the port, whichever of the wakes
\* set it and whatever the manager and the others did since.
LockoutFreesPort == lockout => transport = "none"

\* A player's datagram on a sleeping server's port is heard again, sooner or
\* later, after every wake that failed, every crash and every stop.
ProxyReturns ==
    server \in {"down", "crashed"} ~> (transport = "open" \/ server \notin {"down", "crashed"})

\* A server that stays up is not left behind a lockout or a state that says
\* it is down or starting.
UpIsNoticed == server = "up" ~> (state \in {"ONLINE", "IDLE"} \/ server # "up")
==============================================================================
