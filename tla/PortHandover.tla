---------------------------- MODULE PortHandover ----------------------------
(***************************************************************************)
(* One game port, handed back and forth between the watcher's TCP proxy    *)
(* and the server's JVM: ProxyManager (proxy_listener.py), the poll loop   *)
(* that drives it (idle_monitor.py) and the Crafty event receiver          *)
(* (health_server.py), as asyncio tasks of one event loop.  An action is   *)
(* the code a task runs between two awaits; the lifecycle is Lifecycle's.  *)
(* Everything the code keys by server name is independent per server, so   *)
(* this module follows one server.  The poll loop is shared: "away" is all *)
(* the time it spends asleep or busy with the other servers.               *)
(***************************************************************************)
EXTENDS Lifecycle, Integers

CONSTANTS
    Clients,       \* connection handlers that may be alive at the same time
    BindAttempts,  \* tries of one _start_listener loop (15 in the code)
    WaitClosed,    \* Server.wait_closed() waits for open connections (Python >= 3.12)
    Env            \* what the world may do beside start, run and stop: see Deeds

\* console:   an operator starts and stops the server behind the watcher's back
\* crash:     the JVM may crash
\* transient: Crafty may report crashed=true of a server that is booting
\* lost:      a call Crafty has acted on may still fail for the caller
\* lossy:     a Crafty event may never arrive (the receiver is off by default)
\* slow:      stats may be as old as their request, events later than the JVM
Deeds == {"console", "crash", "transient", "lost", "lossy", "slow"}

ASSUME HandoverAssumption ==
    /\ BindAttempts \in Nat \ {0}
    /\ WaitClosed \in BOOLEAN
    /\ Env \subseteq Deeds

VARIABLES
    state,       \* ServerStateMachine.state
    overdue,     \* STARTING for more than start_timeout_seconds
    lockout,     \* name in _start_lockout
    raced,       \* history: the latest claim was made with a bind in flight
    listener,    \* _listeners[name]: none, open, or closing inside wait_closed()
    binder,      \* the _start_listener loop: off, binding (before bind(2)), bound
                 \* (after it, before the registration), retry (asleep)
    attempt,     \* the loop's attempt
    rebinds,     \* a detached _start_listener is spawned and has not run yet
    client,      \* per connection handler, where it is suspended
    releasing,   \* release_for_start is suspended in _stop_listener
    pollPc,      \* where the poll loop is suspended
    asked,       \* what the JVM was doing when the stats request left
    jvm,         \* external: the server process
    event        \* external: the Crafty event being dispatched

machine == <<state, overdue>>
binding == <<binder, attempt>>
claim   == <<lockout, raced>>
proxy   == <<claim, listener, binding, rebinds>>
loop    == <<pollPc, asked>>
world   == <<jvm, event>>
vars    == <<machine, proxy, client, releasing, loop, world>>

JvmStates == {"down", "crashed", "booting", "up", "saving"}

\* away: no connection.  reading: connected, up to the login packet.
\* releasing: in _stop_listener.  pausing: the 5s sleep.  calling / called:
\* start_server is in flight, before / after Crafty acted on it.
\* recovering: in the rollback's _start_listener.
ClientPcs == {"away", "reading", "releasing", "pausing", "calling", "called", "recovering"}
MidStart  == {"pausing", "calling", "called"}

\* asking: get_server_stats.  stopping / stopCalled: stop_server, before /
\* after Crafty acted on it.  polled: ensure_listeners comes next.
\* binding / closing: inside it, in _start_listener / _stop_listener.
PollPcs == {"away", "asking", "stopping", "stopCalled", "polled", "binding", "closing"}

TypeOK ==
    /\ state \in States
    /\ overdue \in BOOLEAN
    /\ lockout \in BOOLEAN
    /\ raced \in BOOLEAN
    /\ listener \in {"none", "open", "closing"}
    /\ binder \in {"off", "binding", "bound", "retry"}
    /\ attempt \in 0 .. BindAttempts - 1
    /\ rebinds \in BOOLEAN
    /\ client \in [Clients -> ClientPcs]
    /\ releasing \in BOOLEAN
    /\ pollPc \in PollPcs
    /\ asked \in JvmStates
    /\ jvm \in JvmStates
    /\ event \in {"none", "start", "stop", "crash"}

(***************************************************************************)
(* Who has the socket.  A bound but not yet registered server listens      *)
(* already; close() gives the socket back before wait_closed() returns.    *)
(***************************************************************************)
WatcherHolds == listener = "open" \/ binder = "bound"
JvmHolds     == jvm \in {"up", "saving"}
PortFree     == ~WatcherHolds /\ ~JvmHolds

(***************************************************************************)
(* What is over within milliseconds when something else takes seconds.     *)
(***************************************************************************)

\* Crafty dispatches an event from inside the operation it announces, one at
\* a time, and the next poll or the end of a pause is seconds away.
Dispatched == event = "none" \/ "slow" \in Env

\* Crafty answers a call before the JVM it started has come as far as its port.
Settled == Dispatched /\ ((\A c \in Clients : client[c] # "called") \/ "slow" \in Env)

\* asyncio.start_server yields for a turn of the loop before bind(2) and for
\* another one after it.
BindInFlight == binder \in {"binding", "bound"}

\* A connection handler is through within its read timeouts, pause and call,
\* all well under a minute: what takes minutes finds none of them.
MinutesPass == \A c \in Clients : client[c] = "away"

Init ==
    /\ state = "UNKNOWN" /\ overdue = FALSE
    /\ lockout = FALSE /\ raced = FALSE /\ listener = "none" /\ rebinds = FALSE
    /\ binder = "off" /\ attempt = 0
    /\ client = [c \in Clients |-> "away"] /\ releasing = FALSE
    /\ pollPc = "away"
    /\ jvm \in JvmStates /\ (jvm = "crashed" => "crash" \in Env)
    /\ asked = jvm /\ event = "none"

(***************************************************************************)
(* Steps shared by several actions.                                        *)
(***************************************************************************)

\* sm.transition(new).  last_start_time is what overdue abstracts: it is
\* renewed by entering STARTING and read in STARTING only.
MoveTo(new) ==
    /\ state' = Transition(state, new)
    /\ overdue' = (overdue /\ state = "STARTING" /\ state' = "STARTING")

\* Mutant: the loop does not look at the lockout before its first attempt.
BindsUnasked(lk) == listener = "none" /\ binder = "off"

\* A call of _start_listener gets past its early returns and the lockout test.
Binds(lk) == listener = "none" /\ binder = "off" /\ ~lk

\* ... and runs to the first await.
StartListener(lk) ==
    IF Binds(lk) THEN binder' = "binding" /\ attempt' = 0 ELSE UNCHANGED binding

\* _stop_listener up to its await: the caller goes on at once, or is
\* suspended ("closing") while connections keep wait_closed() waiting.
AfterStop(clients) ==
    IF \/ listener = "closing"
       \/ listener = "open" /\ WaitClosed /\ \E c \in Clients : clients[c] = "reading"
    THEN "closing" ELSE "none"

\* Mutants: the claim is not locked in; the transition waits for the start call.
ClaimUnlocked == UNCHANGED claim /\ MoveTo("STARTING")
ClaimUnmarked == lockout' = TRUE /\ raced' = BindInFlight /\ UNCHANGED machine

\* The tail of _release_port_for_start: lock out, then STARTING.
ClaimForStart ==
    /\ lockout' = TRUE /\ raced' = BindInFlight
    /\ MoveTo("STARTING")

Unlock == lockout' = FALSE /\ raced' = FALSE

\* The task that ran the bind loop inline goes on.
BindAwaited ==
    /\ pollPc' = IF pollPc = "binding" THEN "away" ELSE pollPc
    /\ client' = [c \in Clients |-> IF client[c] = "recovering" THEN "away" ELSE client[c]]

(***************************************************************************)
(* The bind loop of _start_listener.                                       *)
(***************************************************************************)

\* start_server yields before bind(2) ...
BindSucceeds ==
    /\ binder = "binding" /\ PortFree
    /\ binder' = "bound"
    /\ UNCHANGED <<machine, claim, listener, attempt, rebinds, client, releasing, loop, world>>

\* ... and again after it, so that the registration is a step of its own.
BindRegisters ==
    /\ binder = "bound"
    /\ binder' = "off" /\ attempt' = 0 /\ listener' = "open"
    /\ BindAwaited
    /\ UNCHANGED <<machine, claim, rebinds, releasing, asked, world>>

\* Mutant: one attempt too many.
BindRefusedLate ==
    /\ binder = "binding" /\ ~PortFree
    /\ IF attempt < BindAttempts
       THEN binder' = "retry" /\ UNCHANGED <<attempt, pollPc, client>>
       ELSE binder' = "off" /\ attempt' = 0 /\ BindAwaited
    /\ UNCHANGED <<machine, claim, listener, rebinds, releasing, asked, world>>

BindRefused ==
    /\ binder = "binding" /\ ~PortFree
    /\ IF attempt < BindAttempts - 1
       THEN binder' = "retry" /\ UNCHANGED <<attempt, pollPc, client>>
       ELSE binder' = "off" /\ attempt' = 0 /\ BindAwaited
    /\ UNCHANGED <<machine, claim, listener, rebinds, releasing, asked, world>>

\* Mutant: the loop looks at the lockout only once, when it begins.
BindRetriesBlindly ==
    /\ binder = "retry"
    /\ binder' = "binding" /\ attempt' = attempt + 1
    /\ UNCHANGED <<machine, claim, listener, rebinds, client, releasing, loop, world>>

\* The sleep ends: the loop looks at the lockout again before it tries.
BindRetries ==
    /\ binder = "retry"
    /\ IF lockout
       THEN binder' = "off" /\ attempt' = 0 /\ BindAwaited
       ELSE binder' = "binding" /\ attempt' = attempt + 1 /\ UNCHANGED <<pollPc, client>>
    /\ UNCHANGED <<machine, claim, listener, rebinds, releasing, asked, world>>

\* The detached task of reclaim_after_stop takes its first step.
RebindRuns ==
    /\ rebinds
    /\ rebinds' = FALSE
    /\ StartListener(lockout)
    /\ UNCHANGED <<machine, claim, listener, client, releasing, loop, world>>

\* wait_closed() wakes everyone waiting on it in one turn of the event loop.
CloseFinishes ==
    /\ listener = "closing" /\ \A c \in Clients : client[c] # "reading"
    /\ listener' = "none"
    /\ IF releasing \/ \E c \in Clients : client[c] = "releasing"
       THEN ClaimForStart ELSE UNCHANGED <<machine, claim>>
    /\ client' = [c \in Clients |-> IF client[c] = "releasing" THEN "pausing" ELSE client[c]]
    /\ releasing' = FALSE
    /\ pollPc' = IF pollPc = "closing" THEN "away" ELSE pollPc
    /\ UNCHANGED <<binding, rebinds, asked, world>>

(***************************************************************************)
(* Connection handlers.                                                    *)
(***************************************************************************)
Connect(c) ==
    /\ client[c] = "away" /\ listener = "open"
    /\ client' = [client EXCEPT ![c] = "reading"]
    /\ UNCHANGED <<machine, proxy, releasing, loop, world>>

\* A status ping, a refused player, a bad packet, a timeout, a hang-up.
Leave(c) ==
    /\ client[c] = "reading"
    /\ client' = [client EXCEPT ![c] = "away"]
    /\ UNCHANGED <<machine, proxy, releasing, loop, world>>

\* _handle_login of an allowed player, from the kick on.  Its own connection
\* is closed before the state is looked at.
Login(c) ==
    /\ client[c] = "reading"
    /\ IF state \in Down
       THEN /\ listener' = AfterStop([client EXCEPT ![c] = "releasing"])
            /\ IF listener' = "closing"
               THEN /\ client' = [client EXCEPT ![c] = "releasing"]
                    /\ UNCHANGED <<machine, claim>>
               ELSE /\ client' = [client EXCEPT ![c] = "pausing"]
                    /\ ClaimForStart
       ELSE /\ client' = [client EXCEPT ![c] = "away"]
            /\ UNCHANGED <<machine, claim, listener>>
    /\ UNCHANGED <<binding, rebinds, releasing, loop, world>>

PauseEnds(c) ==
    /\ client[c] = "pausing" /\ ~BindInFlight /\ Dispatched
    /\ client' = [client EXCEPT ![c] = "calling"]
    /\ UNCHANGED <<machine, proxy, releasing, loop, world>>

StartReturns(c) ==
    /\ client[c] = "called"
    /\ client' = [client EXCEPT ![c] = "away"]
    /\ UNCHANGED <<machine, proxy, releasing, loop, world>>

\* The rollback of _handle_login.
StartFails(c) ==
    /\ client[c] = "calling" \/ (client[c] = "called" /\ "lost" \in Env /\ Dispatched)
    /\ MoveTo("STOPPED")
    /\ Unlock
    /\ StartListener(FALSE)
    /\ client' = [client EXCEPT ![c] = IF Binds(FALSE) THEN "recovering" ELSE "away"]
    /\ UNCHANGED <<listener, rebinds, releasing, loop, world>>

(***************************************************************************)
(* Crafty's events.                                                        *)
(***************************************************************************)

\* release_for_start
StartEvent ==
    /\ event = "start"
    /\ event' = "none"
    /\ IF lockout \/ state \notin Down
       THEN UNCHANGED <<machine, claim, listener, releasing>>
       ELSE /\ listener' = AfterStop(client)
            /\ IF listener' = "closing"
               THEN releasing' = TRUE /\ UNCHANGED <<machine, claim>>
               ELSE ClaimForStart /\ UNCHANGED releasing
    /\ UNCHANGED <<binding, rebinds, client, loop, jvm>>

\* reclaim_after_stop
StopEvent ==
    /\ event \in {"stop", "crash"}
    /\ event' = "none"
    /\ IF state \in Down
       THEN UNCHANGED <<machine, claim, rebinds>>
       ELSE /\ Unlock
            /\ MoveTo(IF event = "crash" THEN "CRASHED" ELSE "STOPPED")
            /\ rebinds' = TRUE
    /\ UNCHANGED <<listener, binding, client, releasing, loop, jvm>>

EventLost ==
    /\ "lossy" \in Env
    /\ event # "none" /\ event' = "none"
    /\ UNCHANGED <<machine, proxy, client, releasing, loop, jvm>>

(***************************************************************************)
(* The poll loop.                                                          *)
(***************************************************************************)
Asks ==
    /\ pollPc = "away" /\ Dispatched
    /\ pollPc' = "asking" /\ asked' = jvm
    /\ UNCHANGED <<machine, proxy, client, releasing, world>>

\* external: the stats Crafty may give of a server doing j.
Reports(j) ==
    {r \in Stats :
        /\ r.running = (j \in {"booting", "up", "saving"})
        /\ r.crashed => j = "crashed" \/ (j = "booting" /\ "transient" \in Env)
        /\ j = "crashed" => r.crashed
        /\ r.ping => j \in {"up", "saving"}
        /\ r.players => j = "up"}

\* _poll_one.  due: the idle checks all pass; the clocks are IdleMonitor's.
Polls ==
    /\ pollPc = "asking"
    /\ \E r \in Reports(jvm) \cup (IF "slow" \in Env THEN Reports(asked) ELSE {}),
          due \in {FALSE, MinutesPass} :
         IF ReachesIdleCheck(state, r)
         THEN IF due THEN MoveTo("STOPPING") /\ pollPc' = "stopping"
                     ELSE UNCHANGED machine /\ pollPc' = "polled"
         ELSE MoveTo(PollTarget(state, r, overdue)) /\ pollPc' = "polled"
    /\ UNCHANGED <<proxy, client, releasing, asked, world>>

\* An unreachable Crafty, an HTTP error: the pass goes on to ensure_listeners.
PollFails ==
    /\ pollPc = "asking"
    /\ pollPc' = "polled"
    /\ UNCHANGED <<machine, proxy, client, releasing, asked, world>>

StopReturns ==
    /\ pollPc = "stopCalled"
    /\ pollPc' = "polled"
    /\ UNCHANGED <<machine, proxy, client, releasing, asked, world>>

\* The rollback of _check_idle_shutdown.
StopFails ==
    /\ pollPc = "stopping" \/ (pollPc = "stopCalled" /\ "lost" \in Env /\ Dispatched)
    /\ MoveTo("IDLE")
    /\ pollPc' = "polled"
    /\ UNCHANGED <<proxy, client, releasing, asked, world>>

\* ensure_listeners, this server's turn.
Ensures ==
    /\ pollPc = "polled"
    /\ IF lockout /\ state \notin Down
       THEN pollPc' = "away" /\ UNCHANGED proxy
       ELSE /\ Unlock
            /\ IF state \in Down
               THEN /\ StartListener(FALSE)
                    /\ pollPc' = IF Binds(FALSE) THEN "binding" ELSE "away"
                    /\ UNCHANGED listener
               ELSE /\ listener' = AfterStop(client)
                    /\ pollPc' = IF listener' = "closing" THEN "closing" ELSE "away"
                    /\ UNCHANGED binding
            /\ UNCHANGED rebinds
    /\ UNCHANGED <<machine, client, releasing, asked, world>>

\* start_timeout_seconds go by, and any stats request with them; while the
\* listener is open a connection may be a recent one.
StartTimesOut ==
    /\ state = "STARTING" /\ ~overdue
    /\ pollPc # "asking" /\ (MinutesPass \/ listener = "open")
    /\ overdue' = TRUE
    /\ UNCHANGED <<state, proxy, client, releasing, loop, world>>

(***************************************************************************)
(* External: Crafty and the JVM, as the code meets them.                   *)
(***************************************************************************)

Spawns == jvm' = "booting" /\ event' = "start"
Halts  == jvm' = (IF jvm = "up" THEN "saving" ELSE "down") /\ event' = "stop"

CraftyStarts(c) ==
    /\ client[c] = "calling"
    /\ IF jvm \in {"down", "crashed"} THEN event = "none" /\ Spawns ELSE UNCHANGED world
    /\ client' = [client EXCEPT ![c] = "called"]
    /\ UNCHANGED <<machine, proxy, releasing, loop>>

CraftyStops ==
    /\ pollPc = "stopping"
    /\ IF jvm \in {"up", "booting"} THEN event = "none" /\ Halts ELSE UNCHANGED world
    /\ pollPc' = "stopCalled"
    /\ UNCHANGED <<machine, proxy, client, releasing, asked>>

ConsoleStarts ==
    /\ "console" \in Env /\ event = "none"
    /\ jvm \in {"down", "crashed"} /\ Spawns
    /\ UNCHANGED <<machine, proxy, client, releasing, loop>>

ConsoleStops ==
    /\ "console" \in Env /\ event = "none"
    /\ jvm \in {"up", "booting"} /\ Halts
    /\ UNCHANGED <<machine, proxy, client, releasing, loop>>

JvmBinds ==
    /\ jvm = "booting" /\ ~WatcherHolds /\ ~BindInFlight /\ Settled
    /\ jvm' = "up"
    /\ UNCHANGED <<machine, proxy, client, releasing, loop, event>>

\* FAILED TO BIND TO PORT
JvmCollides ==
    /\ jvm = "booting" /\ WatcherHolds /\ ~BindInFlight /\ Settled
    /\ jvm' = "crashed" /\ event' = IF event = "none" THEN "crash" ELSE event
    /\ UNCHANGED <<machine, proxy, client, releasing, loop>>

JvmCrashes ==
    /\ "crash" \in Env /\ jvm \in {"booting", "up"}
    /\ jvm' = "crashed" /\ event' = IF event = "none" THEN "crash" ELSE event
    /\ UNCHANGED <<machine, proxy, client, releasing, loop>>

JvmExits ==
    /\ jvm = "saving" /\ Dispatched
    /\ jvm' = "down"
    /\ UNCHANGED <<machine, proxy, client, releasing, loop, event>>

(***************************************************************************)
(* The specification.                                                      *)
(***************************************************************************)
BindStep  == BindSucceeds \/ BindRegisters \/ BindRefused \/ BindRetries
Handler(c) == Leave(c) \/ Login(c) \/ PauseEnds(c) \/ StartReturns(c) \/ StartFails(c)
PollStep  == Asks \/ Polls \/ PollFails \/ StopReturns \/ StopFails \/ Ensures
Crafty    == CraftyStops \/ \E c \in Clients : CraftyStarts(c)
Server    == JvmBinds \/ JvmCollides \/ JvmExits

Next ==
    \/ BindStep \/ RebindRuns \/ CloseFinishes
    \/ \E c \in Clients : Connect(c) \/ Handler(c)
    \/ StartEvent \/ StopEvent \/ EventLost
    \/ PollStep \/ StartTimesOut
    \/ Crafty \/ Server
    \/ ConsoleStarts \/ ConsoleStops \/ JvmCrashes

Spec == Init /\ [][Next]_vars

\* Tasks of the event loop are scheduled for ever, a connection ends within
\* its timeouts, Crafty answers or the call fails, a halted JVM exits.  Polls
\* may fail, but not all of them, and a start grows old unless it ends.
Fairness ==
    /\ WF_vars(BindStep) /\ WF_vars(RebindRuns) /\ WF_vars(CloseFinishes)
    /\ \A c \in Clients : WF_vars(Handler(c))
    /\ WF_vars(StartEvent \/ StopEvent)
    /\ WF_vars(PollStep) /\ SF_vars(Asks) /\ SF_vars(Polls) /\ SF_vars(StartTimesOut)
    /\ WF_vars(Server)

FairSpec == Spec /\ Fairness

(***************************************************************************)
(* The port as PortLease describes it.                                     *)
(***************************************************************************)
Holder == IF WatcherHolds THEN "watcher" ELSE IF JvmHolds THEN "server" ELSE "free"

Lease == INSTANCE PortLease WITH
    holder <- Holder, claimed <- lockout, raced <- raced, inFlight <- BindInFlight

(***************************************************************************)
(* Properties.                                                             *)
(***************************************************************************)

\* A machine that is STARTING is locked out of re-binding, whatever handler,
\* event or poll put it there and whichever rolled it back
\* (_release_port_for_start, reclaim_after_stop, the rollback of _handle_login).
StartingIsLocked == state = "STARTING" => lockout

\* While the lockout stands the proxy is off the port: every claim closes the
\* registered listener and no bind begins under it.  The one exception is a
\* bind that was already in flight when the claim was made.
LockoutFreesPort == lockout /\ ~raced => ~WatcherHolds

\* The proxy, its handlers, the events and the polls together do no more to
\* the port than the lease protocol allows: every bind is decided while there
\* is no claim, every claim closes what is registered.
ImplementsLease == Lease!LeaseSpec

\* Once Crafty's start event has been handled, a booting JVM never finds the
\* proxy on its port.
BootMeetsFreePort == jvm = "booting" /\ event # "start" => ~WatcherHolds

\* At most one login handler is between claiming the port and the answer to
\* its start_server call.
OneStartInFlight ==
    \A c, d \in Clients : client[c] \in MidStart /\ client[d] \in MidStart => c = d

\* The same two, for behaviours in which no claim ever races a bind.
UnracedBoot  == []~raced => []BootMeetsFreePort
UnracedStart == []~raced => []OneStartInFlight

\* A start always ends: in a running server, a crash or a timeout.
StartingEnds == state = "STARTING" ~> state # "STARTING"

\* When the JVM is gone the proxy takes the port again, or a JVM comes back.
ProxyReturns == jvm \in {"down", "crashed"} ~> (listener = "open" \/ jvm \notin {"down", "crashed"})

\* The watcher's own idle stop is not left pending for ever.
StoppingEnds == state = "STOPPING" ~> state # "STOPPING"

(***************************************************************************)
(* Properties the documentation states and the code does not have.         *)
(***************************************************************************)

\* proxy_listener.py:55-56: no listener comes up for a server locked out for a
\* start before it is back to STOPPED or CRASHED.
NeverRebind ==
    [][lockout /\ state \notin Down /\ listener = "none" => listener' # "open"]_vars
==============================================================================
