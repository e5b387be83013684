------------------------------ MODULE Lifecycle ------------------------------
(***************************************************************************)
(* The lifecycle graph of one managed server (server_state.py) and what    *)
(* one Crafty poll asks of it (idle_monitor.py).  Pure operators: every    *)
(* other module moves its state through Transition, so a transition the    *)
(* graph does not list is ignored here exactly as the code ignores it.     *)
(***************************************************************************)

\* State, the enum of server_state.py.
States == {"UNKNOWN", "ONLINE", "IDLE", "STOPPING", "STOPPED", "STARTING", "CRASHED"}

\* The states in which the proxy, and nobody else, should hold the port
\* (is_proxy_needed), and from which a player may wake the server.
Down == {"STOPPED", "CRASHED"}

\* Mutant: the dead ends README.md says were there once.
TransitionsWithDeadEnds ==
    ({"UNKNOWN"} \X {"ONLINE", "IDLE", "STOPPED", "CRASHED"}) \cup
    ({"ONLINE"} \X {"IDLE", "STOPPED", "CRASHED"}) \cup
    ({"IDLE"} \X {"ONLINE", "STOPPING", "STOPPED", "CRASHED"}) \cup
    ({"STOPPING"} \X {"STOPPED", "CRASHED"}) \cup
    ({"STOPPED"} \X {"STARTING", "ONLINE"}) \cup
    ({"STARTING"} \X {"ONLINE", "STOPPED", "CRASHED"}) \cup
    ({"CRASHED"} \X {"STOPPED", "ONLINE", "STARTING"})

\* _VALID_TRANSITIONS, as a relation.
ValidTransitions ==
    ({"UNKNOWN"} \X {"ONLINE", "IDLE", "STOPPED", "CRASHED"}) \cup
    ({"ONLINE"} \X {"IDLE", "STOPPED", "CRASHED"}) \cup
    ({"IDLE"} \X {"ONLINE", "STOPPING", "STOPPED", "CRASHED"}) \cup
    ({"STOPPING"} \X {"STOPPED", "CRASHED", "ONLINE", "IDLE"}) \cup
    ({"STOPPED"} \X {"STARTING", "ONLINE", "IDLE"}) \cup
    ({"STARTING"} \X {"ONLINE", "IDLE", "STOPPED", "CRASHED"}) \cup
    ({"CRASHED"} \X {"STOPPED", "ONLINE", "IDLE", "STARTING"})

\* ServerStateMachine.transition: a target the graph does not list is ignored.
Transition(old, new) == IF <<old, new>> \in ValidTransitions THEN new ELSE old

(***************************************************************************)
(* What Crafty's stats say of a server: the four keys _poll_one reads      *)
(* (online > 0 is players, int_ping_results = "True" is ping).             *)
(***************************************************************************)
Stats == [running : BOOLEAN, crashed : BOOLEAN, ping : BOOLEAN, players : BOOLEAN]

Occupied(stats) == IF stats.players THEN "ONLINE" ELSE "IDLE"

\* Mutants: a start has no deadline while the server is down, while it runs.
HaltedForEver(state, overdue) == IF state \in Down \cup {"STARTING"} THEN state ELSE "STOPPED"

RunningForEver(state, stats, overdue) ==
    IF state = "STOPPING" \/ (state = "STARTING" /\ ~stats.ping) THEN state
    ELSE IF state = "STARTING" THEN "ONLINE" ELSE Occupied(stats)

\* _poll_one asks for one of these states, or for the present one where it
\* returns early.  overdue: STARTING for more than start_timeout_seconds.
TargetWhenHalted(state, overdue) ==
    IF state \in Down \/ (state = "STARTING" /\ ~overdue) THEN state ELSE "STOPPED"

TargetWhenRunning(state, stats, overdue) ==
    IF state = "STOPPING" \/ (state = "STARTING" /\ ~stats.ping /\ ~overdue) THEN state
    ELSE IF state = "STARTING" /\ stats.ping THEN "ONLINE" ELSE Occupied(stats)

PollTarget(state, stats, overdue) ==
    IF stats.crashed THEN "CRASHED"
    ELSE IF stats.running THEN TargetWhenRunning(state, stats, overdue)
                          ELSE TargetWhenHalted(state, overdue)

\* The branch of _poll_one that reaches _check_idle_shutdown.
ReachesIdleCheck(state, stats) ==
    state = "IDLE" /\ stats.running /\ ~stats.crashed /\ ~stats.players
==============================================================================
