---------------------------- MODULE BedrockProofs ----------------------------
(***************************************************************************)
(* BedrockProxy, for any number of wakes and any environment: its type     *)
(* invariant, and that its lockout keeps the proxy off the port while it   *)
(* stands, although it does not stand for as long as the code says.        *)
(***************************************************************************)
EXTENDS BedrockProxy, TLAPS

\* A transition, accepted or ignored, stays within the lifecycle.
LEMMA MoveStays ==
    ASSUME NEW new, state \in States, overdue \in BOOLEAN, MoveTo(new)
    PROVE  state' \in States /\ overdue' \in BOOLEAN
  BY DEF MoveTo, Transition, ValidTransitions, States

\* Whoever begins to bind is the only one inside create_datagram_endpoint.
LEMMA BindStays ==
    ASSUME NEW who \in {"manager"} \cup Wakes, TypeOK, StartListener(who)
    PROVE  /\ transport' \in {"none", "bound", "open"}
           /\ binder' \in {"nobody", "manager"} \cup Wakes
           /\ (transport' = "bound") = (binder' # "nobody")
           /\ PortFree => binder' = who /\ \A w \in Wakes : wake[w] # "recovering"
           /\ ~PortFree => binder' = binder
  <1>1. CASE PortFree
    <2>1. binder = "nobody" /\ transport' = "bound" /\ binder' = who
      BY <1>1 DEF PortFree, TypeOK, StartListener
    <2>2. who # "nobody"
      BY BedrockAssumption
    <2>3. \A w \in Wakes : wake[w] # "recovering"
      BY <2>1, BedrockAssumption DEF TypeOK
    <2> QED
      BY <1>1, <2>1, <2>2, <2>3
  <1>2. CASE ~PortFree
    BY <1>2 DEF TypeOK, StartListener
  <1> QED
    BY <1>1, <1>2

LEMMA StopStays ==
    ASSUME TypeOK, StopListener
    PROVE  /\ transport' \in {"none", "bound", "open"}
           /\ binder' = binder
           /\ (transport' = "bound") = (binder' # "nobody")
  BY DEF TypeOK, StopListener

LEMMA InitEstablishes == Init => TypeOK /\ LockoutFreesPort
  BY DEF Init, TypeOK, LockoutFreesPort, States, WakePcs, PollPcs, Servers

LEMMA StepKeepsType == TypeOK /\ [Next]_vars => TypeOK'
<1> SUFFICES ASSUME TypeOK, [Next]_vars PROVE TypeOK'
  OBVIOUS
<1> USE DEF TypeOK
<1>1. CASE Registers
  BY <1>1 DEF Registers, WakePcs
<1>2. CASE Ensures
  <2>1. CASE binder' = binder /\ transport' = transport
    BY <1>2, <2>1 DEF Ensures
  <2>2. CASE StartListener("manager")
    BY <1>2, <2>2, BindStays DEF Ensures
  <2>3. CASE StopListener
    BY <1>2, <2>3, StopStays DEF Ensures
  <2> QED
    BY <1>2, <2>1, <2>2, <2>3 DEF Ensures
<1>3. ASSUME NEW w \in Wakes, Datagram(w) PROVE TypeOK'
  BY <1>3, StopStays DEF Datagram, WakePcs
<1>4. ASSUME NEW w \in Wakes, PauseEnds(w) PROVE TypeOK'
  BY <1>4 DEF PauseEnds, WakePcs
<1>5. ASSUME NEW w \in Wakes, StartReturns(w) PROVE TypeOK'
  BY <1>5, MoveStays DEF StartReturns, WakePcs
<1>6. ASSUME NEW w \in Wakes, StartFails(w) PROVE TypeOK'
  BY <1>6, BindStays DEF StartFails, WakePcs
<1>7. ASSUME NEW w \in Wakes, CraftyStarts(w) PROVE TypeOK'
  BY <1>7 DEF CraftyStarts, WakePcs, Servers
<1>8. CASE Asks \/ PollFails \/ StopReturns
  BY <1>8 DEF Asks, PollFails, StopReturns, PollPcs
<1>9. CASE Polls
  BY <1>9, MoveStays DEF Polls, PollPcs
<1>10. CASE IdleStops \/ StopFails
  BY <1>10, MoveStays DEF IdleStops, StopFails, PollPcs
<1>11. CASE StartTimesOut
  BY <1>11 DEF StartTimesOut
<1>12. CASE CraftyStops \/ ServerBinds \/ ServerEnds
  BY <1>12 DEF CraftyStops, ServerBinds, ServerEnds, PollPcs, Servers
<1>13. CASE UNCHANGED vars
  BY <1>13 DEF vars
<1> QED
  BY <1>1, <1>2, <1>3, <1>4, <1>5, <1>6, <1>7, <1>8, <1>9, <1>10, <1>11, <1>12, <1>13
     DEF Next, Task

\* Every variable keeps its type; in particular a bound socket has exactly one
\* task that is about to register it, and a recovering wake is that task.
THEOREM TypeCorrect == Spec => []TypeOK
  BY InitEstablishes, StepKeepsType, PTL DEF Spec

LEMMA StepKeepsLockout == TypeOK /\ LockoutFreesPort /\ [Next]_vars => LockoutFreesPort'
<1> SUFFICES ASSUME TypeOK, LockoutFreesPort, [Next]_vars PROVE LockoutFreesPort'
  OBVIOUS
<1> USE DEF LockoutFreesPort
\* Nothing but a bind puts the listener up, and both binds lift the lockout.
<1>1. CASE Registers
  BY <1>1 DEF Registers
<1>2. CASE Ensures
  BY <1>2, Zenon DEF Ensures
<1>3. ASSUME NEW w \in Wakes, Datagram(w) PROVE LockoutFreesPort'
  BY <1>3 DEF Datagram, StopListener
<1>4. ASSUME NEW w \in Wakes, Task(w) \/ CraftyStarts(w) PROVE LockoutFreesPort'
  BY <1>4 DEF Task, PauseEnds, StartReturns, StartFails, CraftyStarts
<1>5. CASE Asks \/ Polls \/ PollFails \/ IdleStops \/ StopReturns \/ StopFails \/ StartTimesOut
  BY <1>5 DEF Asks, Polls, PollFails, IdleStops, StopReturns, StopFails, StartTimesOut
<1>6. CASE CraftyStops \/ ServerBinds \/ ServerEnds \/ UNCHANGED vars
  BY <1>6 DEF CraftyStops, ServerBinds, ServerEnds, vars
<1> QED
  BY <1>1, <1>2, <1>3, <1>4, <1>5, <1>6 DEF Next

\* While the lockout stands the proxy is off the port, for any number of wakes.
THEOREM LockoutKeepsPortFree == Spec => []LockoutFreesPort
<1>1. Init => TypeOK /\ LockoutFreesPort
  BY InitEstablishes
<1>2. (TypeOK /\ LockoutFreesPort) /\ [Next]_vars => (TypeOK /\ LockoutFreesPort)'
  BY StepKeepsType, StepKeepsLockout
<1> QED
  BY <1>1, <1>2, PTL DEF Spec
==============================================================================
