------------------------------ MODULE PollLoop ------------------------------
(***************************************************************************)
(* The loops over all servers of one run of the watcher: IdleMonitor.run   *)
(* (idle_monitor.py), which polls every server and then binds or closes    *)
(* every listener, one call at a time and in the order of the              *)
(* configuration, and ProxyManager.run (proxy_listener.py), which closes   *)
(* them all at a shutdown.  Of a machine only matters here whether it      *)
(* wants the proxy, and only polls move it: logins, events, the lockout    *)
(* and what happens to a port during one bind are PortHandover's.          *)
(***************************************************************************)
EXTENDS Naturals, Sequences

CONSTANTS
    Names,       \* names of servers
    BindTries    \* attempts of _start_listener (15)

ASSUME PollLoopAssumption == BindTries \in Nat \ {0}

VARIABLES
    order,      \* the servers, in the order of the configuration
    java,       \* those the proxy manager has
    step,       \* where the idle monitor is: unstarted, asking (in get_server_stats),
                \* pausing (after a failed connection), binding, retrying (between two
                \* attempts), closing, asleep between two passes, ended
    at,         \* ... and at which server, by its place in order
    tries,      \* attempts made at this bind
    sleeping,   \* is_proxy_needed of each machine
    listening,  \* _listeners
    taken,      \* external: another process has the port
    closer,     \* where the proxy manager is: waiting (for the shutdown), closing
    toClose,    \* the listeners stop_all has yet to close
    shutdown,   \* _shutdown_event
    caught,     \* history: the shutdown found the monitor inside a pass
    late        \* history: passes begun since then

monitor  == <<step, at, tries>>
world    == <<sleeping, listening, taken>>
stopping == <<closer, toClose>>
loopVars == <<order, java, monitor, world, stopping, shutdown, caught, late>>

Steps  == {"unstarted", "asking", "pausing", "binding", "retrying", "closing", "asleep", "ended"}
InPass == {"asking", "pausing", "binding", "retrying", "closing"}

LoopTypeOK ==
    /\ order \in Seq(Names) /\ java \subseteq Names
    /\ step \in Steps
    /\ at \in 0 .. Len(order) /\ (step \in InPass => at > 0)
    /\ tries \in 0 .. BindTries - 1
    /\ {sleeping, listening, taken} \subseteq [Names -> BOOLEAN]
    /\ \A n \in Names : ~(listening[n] /\ taken[n])
    /\ closer \in {"waiting", "closing"} /\ toClose \subseteq Names
    /\ shutdown \in BOOLEAN /\ caught \in BOOLEAN
    /\ late \in Nat

\* Every machine starts as UNKNOWN, which wants no proxy.
LoopInit ==
    /\ order = <<>> /\ java = {}
    /\ step = "unstarted" /\ at = 0 /\ tries = 0
    /\ sleeping = [n \in Names |-> FALSE] /\ listening = [n \in Names |-> FALSE]
    /\ taken \in [Names -> BOOLEAN]
    /\ closer = "waiting" /\ toClose = {}
    /\ shutdown = FALSE /\ caught = FALSE /\ late = 0

Here == order[at]

(***************************************************************************)
(* A pass.                                                                 *)
(***************************************************************************)

\* The monitor starts a pass: _poll_all at the first server.
PassBegins ==
    /\ step' = "asking" /\ at' = 1 /\ tries' = 0
    /\ late' = IF shutdown THEN late + 1 ELSE late

\* Mutant: the loop is left by its timed wait only.
RestsAlways == step' = "asleep" /\ at' = 0 /\ tries' = 0

\* The pass is over, and the loop looks whether to go on.
Rests ==
    /\ step' = IF shutdown THEN "ended" ELSE "asleep"
    /\ at' = 0 /\ tries' = 0

\* ensure_listeners goes on at server i: to the first whose listener is not
\* what its machine wants, with no await before it.
EnsuresFrom(i) ==
    LET todo == {j \in i .. Len(order) :
                    order[j] \in java /\ sleeping'[order[j]] # listening'[order[j]]}
    IN IF todo = {} THEN Rests
       ELSE LET j == CHOOSE j \in todo : \A k \in todo : j <= k
            IN /\ at' = j /\ tries' = 0
               /\ step' = IF sleeping'[order[j]] THEN "binding" ELSE "closing"

\* _poll_all goes on to the next server, or is done.
PollsNext ==
    IF at < Len(order) THEN step' = "asking" /\ at' = at + 1 /\ UNCHANGED tries
    ELSE EnsuresFrom(1)

\* Stats arrive, and the machine is what they make it.
GetsStats ==
    /\ step = "asking"
    /\ \E wants \in BOOLEAN : sleeping' = [sleeping EXCEPT ![Here] = wants]
    /\ UNCHANGED <<listening, taken>>
    /\ PollsNext
    /\ UNCHANGED <<order, java, stopping, shutdown, caught, late>>

\* Crafty answers with an error other than 403, or with nonsense.
PollFails ==
    /\ step = "asking"
    /\ UNCHANGED world
    /\ PollsNext
    /\ UNCHANGED <<order, java, stopping, shutdown, caught, late>>

Unreachable ==
    /\ step = "asking"
    /\ step' = "pausing"
    /\ UNCHANGED <<order, java, at, tries, world, stopping, shutdown, caught, late>>

PauseEnds ==
    /\ step = "pausing"
    /\ UNCHANGED world
    /\ PollsNext
    /\ UNCHANGED <<order, java, stopping, shutdown, caught, late>>

\* Mutant: what the log says.
ForbidsForGood ==
    /\ step = "asking"
    /\ step' = "ended" /\ at' = 0 /\ tries' = 0
    /\ UNCHANGED <<order, java, world, stopping, shutdown, caught, late>>

\* A 403 ends the polls of this pass, and nothing else.
Forbids ==
    /\ step = "asking"
    /\ UNCHANGED world
    /\ EnsuresFrom(1)
    /\ UNCHANGED <<order, java, stopping, shutdown, caught, late>>

\* _start_listener, one attempt.
Binds ==
    /\ step = "binding" /\ ~taken[Here]
    /\ listening' = [listening EXCEPT ![Here] = TRUE]
    /\ UNCHANGED <<sleeping, taken>>
    /\ EnsuresFrom(at + 1)
    /\ UNCHANGED <<order, java, stopping, shutdown, caught, late>>

\* Mutant: one attempt too many.
BindRetriesLonger ==
    /\ step = "binding" /\ taken[Here] /\ tries < BindTries
    /\ step' = "retrying" /\ tries' = tries + 1
    /\ UNCHANGED <<order, java, at, world, stopping, shutdown, caught, late>>

\* Mutant: the attempts are not counted.
BindRetriesForEver ==
    /\ step = "binding" /\ taken[Here] /\ tries < BindTries - 1
    /\ step' = "retrying"
    /\ UNCHANGED <<order, java, at, tries, world, stopping, shutdown, caught, late>>

BindRetries ==
    /\ step = "binding" /\ taken[Here] /\ tries < BindTries - 1
    /\ step' = "retrying" /\ tries' = tries + 1
    /\ UNCHANGED <<order, java, at, world, stopping, shutdown, caught, late>>

RetryEnds ==
    /\ step = "retrying"
    /\ step' = "binding"
    /\ UNCHANGED <<order, java, at, tries, world, stopping, shutdown, caught, late>>

\* Mutant: a port that stays taken ends the pass.
BindGivesUpAll ==
    /\ step = "binding" /\ taken[Here] /\ tries = BindTries - 1
    /\ UNCHANGED world
    /\ Rests
    /\ UNCHANGED <<order, java, stopping, shutdown, caught, late>>

BindGivesUp ==
    /\ step = "binding" /\ taken[Here] /\ tries = BindTries - 1
    /\ UNCHANGED world
    /\ EnsuresFrom(at + 1)
    /\ UNCHANGED <<order, java, stopping, shutdown, caught, late>>

\* _stop_listener.
Closes ==
    /\ step = "closing"
    /\ listening' = [listening EXCEPT ![Here] = FALSE]
    /\ UNCHANGED <<sleeping, taken>>
    /\ EnsuresFrom(at + 1)
    /\ UNCHANGED <<order, java, stopping, shutdown, caught, late>>

\* The wait between passes times out, perhaps just as the shutdown comes ...
Wakes ==
    /\ step = "asleep"
    /\ PassBegins
    /\ UNCHANGED <<order, java, world, stopping, shutdown, caught>>

\* ... or is cut short by it.
MonitorEnds ==
    /\ step = "asleep" /\ shutdown
    /\ step' = "ended" /\ at' = 0
    /\ UNCHANGED <<order, java, tries, world, stopping, shutdown, caught, late>>

(***************************************************************************)
(* Shutdown.                                                               *)
(***************************************************************************)

\* ProxyManager.run goes on to stop_all, with the listeners there are now.
CloserWakes ==
    /\ closer = "waiting" /\ shutdown /\ step # "unstarted"
    /\ closer' = "closing" /\ toClose' = {n \in Names : listening[n]}
    /\ UNCHANGED <<order, java, monitor, world, shutdown, caught, late>>

\* Mutant: one listener is forgotten.
ClosesAllButOne ==
    /\ \E n \in toClose :
         /\ toClose' = toClose \ {n}
         /\ listening' = IF toClose' = {} THEN listening ELSE [listening EXCEPT ![n] = FALSE]
    /\ UNCHANGED <<order, java, monitor, sleeping, taken, closer, shutdown, caught, late>>

\* stop_all, one listener.
ClosesAll ==
    /\ \E n \in toClose :
         toClose' = toClose \ {n} /\ listening' = [listening EXCEPT ![n] = FALSE]
    /\ UNCHANGED <<order, java, monitor, sleeping, taken, closer, shutdown, caught, late>>

\* external: another process takes a port that is free, or leaves it.
Others(n) ==
    /\ ~listening[n]
    /\ taken' = [taken EXCEPT ![n] = ~@]
    /\ UNCHANGED <<order, java, monitor, sleeping, listening, stopping, shutdown, caught, late>>

MonitorNext ==
    \/ GetsStats \/ PollFails \/ Unreachable \/ PauseEnds \/ Forbids
    \/ Binds \/ BindRetries \/ RetryEnds \/ BindGivesUp \/ Closes
    \/ Wakes \/ MonitorEnds

LoopNext ==
    \/ MonitorNext
    \/ CloserWakes \/ ClosesAll
    \/ \E n \in Names : Others(n)

LoopEnded == step = "ended" /\ closer = "closing" /\ toClose = {}
=============================================================================
