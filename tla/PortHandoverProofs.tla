------------------------- MODULE PortHandoverProofs -------------------------
(***************************************************************************)
(* PortHandover, for every number of connection handlers and bind attempts,*)
(* both behaviours of wait_closed() and every environment: its type        *)
(* invariant, the lockout of a starting server, and that it implements     *)
(* PortLease, hence keeps every claim that raced no bind.  Where nobody else*)
(* has a hand on the server, what such a claim is for: a JVM that boots onto*)
(* a free port, for one handler at a time.                                 *)
(***************************************************************************)
EXTENDS PortHandover, TLAPS

(***************************************************************************)
(* The lifecycle graph.                                                    *)
(***************************************************************************)

\* A transition, accepted or ignored, stays within the lifecycle.
LEMMA TransitionInStates ==
    ASSUME NEW old \in States, NEW new
    PROVE  Transition(old, new) \in States
  BY DEF Transition, ValidTransitions, States

\* Only asking for STARTING enters STARTING.
LEMMA OnlyAskedStarts ==
    ASSUME NEW old, NEW new, Transition(old, new) = "STARTING", new # "STARTING"
    PROVE  old = "STARTING"
  BY DEF Transition

\* The rollback and the stop event cannot be ignored where it would matter:
\* every state, STARTING in particular, has an edge to STOPPED.
LEMMA StoppedIsReachable ==
    ASSUME NEW old \in States
    PROVE  Transition(old, "STOPPED") # "STARTING"
  BY DEF Transition, ValidTransitions, States

LEMMA CrashedIsReachable ==
    ASSUME NEW old \in States
    PROVE  Transition(old, "CRASHED") # "STARTING"
  BY DEF Transition, ValidTransitions, States

\* A poll never starts anything by itself.
LEMMA PollNeverStarts ==
    ASSUME NEW old \in States, NEW r \in Stats, NEW late, PollTarget(old, r, late) = "STARTING"
    PROVE  old = "STARTING"
  BY DEF PollTarget, TargetWhenHalted, TargetWhenRunning, Occupied, Stats, States, Down

(***************************************************************************)
(* The inductive invariant.                                                *)
(***************************************************************************)

\* A bind loop runs only while nothing is registered, and sleeps only when an
\* attempt is left; the watcher and the JVM are never both on the port; without
\* a lockout there is nothing raced.
PortInv ==
    /\ binder = "retry" => attempt < BindAttempts - 1
    /\ binder # "off" => listener = "none"
    /\ WatcherHolds => ~JvmHolds
    /\ raced => lockout

IInv == TypeOK /\ PortInv /\ StartingIsLocked

LEMMA InitEstablishes == Init => IInv
<1> SUFFICES ASSUME Init PROVE IInv
  OBVIOUS
<1>1. attempt \in 0 .. BindAttempts - 1
  BY HandoverAssumption DEF Init
<1>2. TypeOK
  BY <1>1 DEF Init, TypeOK, States, JvmStates, ClientPcs, PollPcs
<1>3. PortInv
  BY HandoverAssumption DEF Init, PortInv, WatcherHolds, JvmHolds
<1>4. StartingIsLocked
  BY DEF Init, StartingIsLocked
<1> QED
  BY <1>2, <1>3, <1>4 DEF IInv

(***************************************************************************)
(* Type correctness, action by action.                                     *)
(***************************************************************************)

LEMMA MoveToType ==
    ASSUME TypeOK, NEW new, MoveTo(new)
    PROVE  state' \in States /\ overdue' \in BOOLEAN
  BY TransitionInStates DEF MoveTo, TypeOK

LEMMA StartListenerType ==
    ASSUME TypeOK, NEW lk, StartListener(lk)
    PROVE  /\ binder' \in {"off", "binding", "bound", "retry"}
           /\ attempt' \in 0 .. BindAttempts - 1
<1>1. 0 \in 0 .. BindAttempts - 1
  BY HandoverAssumption
<1> QED
  BY <1>1 DEF StartListener, binding, TypeOK

LEMMA ClaimForStartType ==
    ASSUME TypeOK, ClaimForStart
    PROVE  /\ state' \in States /\ overdue' \in BOOLEAN
           /\ lockout' \in BOOLEAN /\ raced' \in BOOLEAN
  BY MoveToType DEF ClaimForStart, BindInFlight

LEMMA BindAwaitedType ==
    ASSUME TypeOK, BindAwaited
    PROVE  pollPc' \in PollPcs /\ client' \in [Clients -> ClientPcs]
  BY DEF BindAwaited, TypeOK, PollPcs, ClientPcs

LEMMA BindStepType == ASSUME TypeOK, PortInv, BindStep PROVE TypeOK'
<1> USE DEF machine, claim, world, loop
<1>0. 0 \in 0 .. BindAttempts - 1
  BY HandoverAssumption
<1>1. CASE BindSucceeds
  BY <1>1 DEF BindSucceeds, TypeOK
<1>2. CASE BindRegisters
  BY <1>0, <1>2, BindAwaitedType DEF BindRegisters, TypeOK
<1>3. CASE BindRefused
  <2>1. binder' \in {"off", "retry"} /\ attempt' \in 0 .. BindAttempts - 1
    BY <1>0, <1>3 DEF BindRefused, TypeOK
  <2>2. pollPc' \in PollPcs /\ client' \in [Clients -> ClientPcs]
    BY <1>3, BindAwaitedType DEF BindRefused, TypeOK
  <2> QED
    BY <1>3, <2>1, <2>2 DEF BindRefused, TypeOK
<1>4. CASE BindRetries
  <2>1. attempt + 1 \in 0 .. BindAttempts - 1
    BY <1>4, HandoverAssumption DEF BindRetries, PortInv, TypeOK
  <2>2. binder' \in {"off", "binding"} /\ attempt' \in 0 .. BindAttempts - 1
    BY <1>0, <1>4, <2>1 DEF BindRetries
  <2>3. pollPc' \in PollPcs /\ client' \in [Clients -> ClientPcs]
    BY <1>4, BindAwaitedType DEF BindRetries, TypeOK
  <2> QED
    BY <1>4, <2>2, <2>3 DEF BindRetries, TypeOK
<1> QED
  BY <1>1, <1>2, <1>3, <1>4 DEF BindStep

LEMMA RebindRunsType == ASSUME TypeOK, RebindRuns PROVE TypeOK'
  BY StartListenerType DEF RebindRuns, TypeOK, machine, claim, loop, world

LEMMA CloseFinishesType == ASSUME TypeOK, CloseFinishes PROVE TypeOK'
<1>1. /\ state' \in States /\ overdue' \in BOOLEAN
      /\ lockout' \in BOOLEAN /\ raced' \in BOOLEAN
  BY ClaimForStartType DEF CloseFinishes, TypeOK, machine, claim
<1>2. client' \in [Clients -> ClientPcs] /\ pollPc' \in PollPcs
  BY DEF CloseFinishes, TypeOK, ClientPcs, PollPcs
<1> QED
  BY <1>1, <1>2 DEF CloseFinishes, TypeOK, binding, world

LEMMA HandlerType ==
    ASSUME TypeOK, NEW c \in Clients, Connect(c) \/ Handler(c)
    PROVE  TypeOK'
<1> USE DEF machine, claim, binding, proxy, loop, world, ClientPcs
<1>1. CASE Connect(c)
  BY <1>1 DEF Connect, TypeOK
<1>2. CASE Leave(c)
  BY <1>2 DEF Leave, TypeOK
<1>3. CASE Login(c)
  <2>1. /\ state' \in States /\ overdue' \in BOOLEAN
        /\ lockout' \in BOOLEAN /\ raced' \in BOOLEAN
    BY <1>3, ClaimForStartType DEF Login, TypeOK
  <2>2. client' \in [Clients -> ClientPcs] /\ listener' \in {"none", "open", "closing"}
    BY <1>3 DEF Login, AfterStop, TypeOK
  <2> QED
    BY <1>3, <2>1, <2>2 DEF Login, TypeOK
<1>4. CASE PauseEnds(c)
  BY <1>4 DEF PauseEnds, TypeOK
<1>5. CASE StartReturns(c)
  BY <1>5 DEF StartReturns, TypeOK
<1>6. CASE StartFails(c)
  <2>1. /\ state' \in States /\ overdue' \in BOOLEAN
        /\ lockout' \in BOOLEAN /\ raced' \in BOOLEAN
    BY <1>6, MoveToType DEF StartFails, Unlock
  <2>2. /\ binder' \in {"off", "binding", "bound", "retry"}
        /\ attempt' \in 0 .. BindAttempts - 1
    BY <1>6, StartListenerType DEF StartFails
  <2>3. client' \in [Clients -> ClientPcs]
    BY <1>6 DEF StartFails, TypeOK
  <2> QED
    BY <1>6, <2>1, <2>2, <2>3 DEF StartFails, TypeOK
<1> QED
  BY <1>1, <1>2, <1>3, <1>4, <1>5, <1>6 DEF Handler

LEMMA EventType ==
    ASSUME TypeOK, StartEvent \/ StopEvent \/ EventLost
    PROVE  TypeOK'
<1> USE DEF machine, claim, binding, proxy, loop
<1>1. CASE StartEvent
  <2>1. /\ state' \in States /\ overdue' \in BOOLEAN
        /\ lockout' \in BOOLEAN /\ raced' \in BOOLEAN
    BY <1>1, ClaimForStartType DEF StartEvent, TypeOK
  <2>2. listener' \in {"none", "open", "closing"} /\ releasing' \in BOOLEAN
    BY <1>1 DEF StartEvent, AfterStop, TypeOK
  <2> QED
    BY <1>1, <2>1, <2>2 DEF StartEvent, TypeOK
<1>2. CASE StopEvent
  <2>1. /\ state' \in States /\ overdue' \in BOOLEAN
        /\ lockout' \in BOOLEAN /\ raced' \in BOOLEAN /\ rebinds' \in BOOLEAN
    BY <1>2, MoveToType DEF StopEvent, Unlock, TypeOK
  <2> QED
    BY <1>2, <2>1 DEF StopEvent, TypeOK
<1>3. CASE EventLost
  BY <1>3 DEF EventLost, TypeOK
<1> QED
  BY <1>1, <1>2, <1>3

LEMMA PollStepType == ASSUME TypeOK, PollStep PROVE TypeOK'
<1> USE DEF machine, claim, binding, proxy, world, PollPcs
<1>1. CASE Asks
  BY <1>1 DEF Asks, TypeOK
<1>2. CASE Polls
  <2>1. state' \in States /\ overdue' \in BOOLEAN /\ pollPc' \in PollPcs
    <3>1. PICK r \in Stats, due \in BOOLEAN :
             IF ReachesIdleCheck(state, r)
             THEN IF due THEN MoveTo("STOPPING") /\ pollPc' = "stopping"
                         ELSE UNCHANGED machine /\ pollPc' = "polled"
             ELSE MoveTo(PollTarget(state, r, overdue)) /\ pollPc' = "polled"
      BY <1>2 DEF Polls, Reports, MinutesPass
    <3> QED
      BY <3>1, MoveToType DEF TypeOK
  <2> QED
    BY <1>2, <2>1 DEF Polls, TypeOK
<1>3. CASE PollFails
  BY <1>3 DEF PollFails, TypeOK
<1>4. CASE StopReturns
  BY <1>4 DEF StopReturns, TypeOK
<1>5. CASE StopFails
  BY <1>5, MoveToType DEF StopFails, TypeOK
<1>6. CASE Ensures
  <2>1. /\ binder' \in {"off", "binding", "bound", "retry"}
        /\ attempt' \in 0 .. BindAttempts - 1
    BY <1>6, StartListenerType DEF Ensures, TypeOK
  <2>2. /\ lockout' \in BOOLEAN /\ raced' \in BOOLEAN
        /\ listener' \in {"none", "open", "closing"}
        /\ rebinds' \in BOOLEAN /\ pollPc' \in PollPcs
    BY <1>6 DEF Ensures, Unlock, AfterStop, TypeOK
  <2> QED
    BY <1>6, <2>1, <2>2 DEF Ensures, TypeOK
<1> QED
  BY <1>1, <1>2, <1>3, <1>4, <1>5, <1>6 DEF PollStep

LEMMA StartTimesOutType == ASSUME TypeOK, StartTimesOut PROVE TypeOK'
  BY DEF StartTimesOut, TypeOK, claim, binding, proxy, loop, world

World == Crafty \/ Server \/ ConsoleStarts \/ ConsoleStops \/ JvmCrashes

LEMMA WorldType == ASSUME TypeOK, World PROVE TypeOK'
<1> USE DEF machine, claim, binding, proxy, loop, world, JvmStates, Spawns, Halts
<1>1. CASE CraftyStops
  BY <1>1 DEF CraftyStops, TypeOK, PollPcs
<1>2. ASSUME NEW c \in Clients, CraftyStarts(c) PROVE TypeOK'
  BY <1>2 DEF CraftyStarts, TypeOK, ClientPcs
<1>3. CASE Server
  BY <1>3 DEF Server, JvmBinds, JvmCollides, JvmExits, TypeOK
<1>4. CASE ConsoleStarts \/ ConsoleStops
  BY <1>4 DEF ConsoleStarts, ConsoleStops, TypeOK
<1>5. CASE JvmCrashes
  BY <1>5 DEF JvmCrashes, TypeOK
<1> QED
  BY <1>1, <1>2, <1>3, <1>4, <1>5 DEF World, Crafty

LEMMA StutterType == ASSUME TypeOK, UNCHANGED vars PROVE TypeOK'
  BY DEF vars, machine, claim, binding, proxy, loop, world, TypeOK

(***************************************************************************)
(* The lockout of a STARTING server.                                       *)
(***************************************************************************)

LEMMA ClaimKeepsLocked == ASSUME ClaimForStart PROVE StartingIsLocked'
  BY DEF ClaimForStart, StartingIsLocked

\* Whatever moves the state without unlocking, other than into STARTING.
LEMMA MoveKeepsLocked ==
    ASSUME TypeOK, StartingIsLocked, NEW new, MoveTo(new), new # "STARTING" \/ state = "STARTING",
           UNCHANGED lockout
    PROVE  StartingIsLocked'
  BY OnlyAskedStarts DEF MoveTo, StartingIsLocked, Transition

LEMMA StepKeepsLocked == ASSUME TypeOK, StartingIsLocked, [Next]_vars PROVE StartingIsLocked'
<1> USE DEF machine, claim, binding, proxy, loop, world
<1>1. CASE BindStep \/ RebindRuns \/ StartTimesOut \/ EventLost \/ UNCHANGED vars
  BY <1>1 DEF BindStep, BindSucceeds, BindRegisters, BindRefused, BindRetries, RebindRuns,
              StartTimesOut, EventLost, vars, StartingIsLocked
<1>2. CASE CloseFinishes
  BY <1>2, ClaimKeepsLocked DEF CloseFinishes, StartingIsLocked
<1>3. ASSUME NEW c \in Clients, Connect(c) \/ Leave(c) \/ PauseEnds(c) \/ StartReturns(c)
      PROVE  StartingIsLocked'
  BY <1>3 DEF Connect, Leave, PauseEnds, StartReturns, StartingIsLocked
<1>4. ASSUME NEW c \in Clients, Login(c) PROVE StartingIsLocked'
  BY <1>4, ClaimKeepsLocked DEF Login, StartingIsLocked
<1>5. ASSUME NEW c \in Clients, StartFails(c) PROVE StartingIsLocked'
  BY <1>5, StoppedIsReachable DEF StartFails, MoveTo, StartingIsLocked, TypeOK
<1>6. CASE StartEvent
  BY <1>6, ClaimKeepsLocked DEF StartEvent, StartingIsLocked
<1>7. CASE StopEvent
  BY <1>7, StoppedIsReachable, CrashedIsReachable
     DEF StopEvent, MoveTo, StartingIsLocked, TypeOK
<1>8. CASE Asks \/ PollFails \/ StopReturns
  BY <1>8 DEF Asks, PollFails, StopReturns, StartingIsLocked
<1>9. CASE Polls
  <2>1. PICK r \in Stats, due \in BOOLEAN :
           IF ReachesIdleCheck(state, r)
           THEN IF due THEN MoveTo("STOPPING") /\ pollPc' = "stopping"
                       ELSE UNCHANGED machine /\ pollPc' = "polled"
           ELSE MoveTo(PollTarget(state, r, overdue)) /\ pollPc' = "polled"
    BY <1>9 DEF Polls, Reports, MinutesPass
  <2>2. UNCHANGED lockout
    BY <1>9 DEF Polls
  <2>3. PollTarget(state, r, overdue) # "STARTING" \/ state = "STARTING"
    BY PollNeverStarts DEF TypeOK
  <2> QED
    BY <2>1, <2>2, <2>3, MoveKeepsLocked DEF StartingIsLocked
<1>10. CASE StopFails
  BY <1>10, MoveKeepsLocked DEF StopFails
<1>11. CASE Ensures
  BY <1>11 DEF Ensures, Unlock, Down, StartingIsLocked, TypeOK
<1>12. CASE World
  BY <1>12 DEF World, Crafty, CraftyStops, CraftyStarts, Server, JvmBinds, JvmCollides, JvmExits,
               ConsoleStarts, ConsoleStops, JvmCrashes, StartingIsLocked
<1> QED
  BY <1>1, <1>2, <1>3, <1>4, <1>5, <1>6, <1>7, <1>8, <1>9, <1>10, <1>11, <1>12
     DEF Next, Handler, PollStep, World

(***************************************************************************)
(* The port: listener, bind loop, JVM and claim together.                  *)
(***************************************************************************)

LEMMA BindKeepsPort == ASSUME TypeOK, PortInv, BindStep PROVE PortInv'
<1> USE DEF claim, world, WatcherHolds, JvmHolds, PortFree
<1>1. CASE BindSucceeds
  BY <1>1 DEF BindSucceeds, PortInv
<1>2. CASE BindRegisters
  BY <1>2 DEF BindRegisters, PortInv
<1>3. CASE BindRefused
  BY <1>3 DEF BindRefused, PortInv
<1>4. CASE BindRetries
  BY <1>4 DEF BindRetries, PortInv
<1> QED
  BY <1>1, <1>2, <1>3, <1>4 DEF BindStep

\* A call of _start_listener changes nothing of this but the loop it starts.
LEMMA StartListenerKeepsPort ==
    ASSUME TypeOK, PortInv, NEW lk, StartListener(lk), UNCHANGED <<listener, jvm>>,
           raced' => lockout'
    PROVE  PortInv'
  BY DEF StartListener, Binds, PortInv, WatcherHolds, JvmHolds, binding

\* Closing the listener, claiming or not.
LEMMA CloseKeepsPort ==
    ASSUME TypeOK, PortInv, NEW cl, listener' = AfterStop(cl), UNCHANGED <<binding, jvm>>,
           raced' => lockout'
    PROVE  PortInv'
  BY DEF AfterStop, PortInv, WatcherHolds, JvmHolds, binding

LEMMA StepKeepsPort == ASSUME TypeOK, PortInv, [Next]_vars PROVE PortInv'
<1> USE DEF machine, claim, proxy, loop, world
<1>1. CASE BindStep
  BY <1>1, BindKeepsPort
<1>2. CASE RebindRuns
  BY <1>2, StartListenerKeepsPort DEF RebindRuns, PortInv
<1>3. CASE CloseFinishes
  BY <1>3 DEF CloseFinishes, ClaimForStart, PortInv, WatcherHolds, JvmHolds, binding
<1>4. ASSUME NEW c \in Clients, Connect(c) \/ Leave(c) \/ PauseEnds(c) \/ StartReturns(c)
      PROVE  PortInv'
  BY <1>4 DEF Connect, Leave, PauseEnds, StartReturns, PortInv, WatcherHolds, JvmHolds, binding
<1>5. ASSUME NEW c \in Clients, Login(c) PROVE PortInv'
  <2>1. raced' => lockout'
    BY <1>5 DEF Login, ClaimForStart, PortInv
  <2>2. CASE state \in Down
    BY <1>5, <2>1, <2>2, CloseKeepsPort DEF Login
  <2>3. CASE state \notin Down
    BY <1>5, <2>3 DEF Login, PortInv, WatcherHolds, JvmHolds, binding
  <2> QED
    BY <2>2, <2>3
<1>6. ASSUME NEW c \in Clients, StartFails(c) PROVE PortInv'
  BY <1>6, StartListenerKeepsPort DEF StartFails, Unlock
<1>7. CASE StartEvent
  <2>1. raced' => lockout'
    BY <1>7 DEF StartEvent, ClaimForStart, PortInv
  <2>2. CASE listener' = AfterStop(client)
    BY <1>7, <2>1, <2>2, CloseKeepsPort DEF StartEvent
  <2>3. CASE UNCHANGED listener
    BY <1>7, <2>1, <2>3 DEF StartEvent, PortInv, WatcherHolds, JvmHolds, binding
  <2> QED
    BY <1>7, <2>2, <2>3 DEF StartEvent
<1>8. CASE StopEvent
  BY <1>8 DEF StopEvent, Unlock, PortInv, WatcherHolds, JvmHolds, binding
<1>9. CASE Ensures
  <2>1. raced' => lockout'
    BY <1>9 DEF Ensures, Unlock, PortInv
  <2>2. CASE StartListener(FALSE) /\ UNCHANGED listener
    BY <1>9, <2>1, <2>2, StartListenerKeepsPort DEF Ensures
  <2>3. CASE listener' = AfterStop(client) /\ UNCHANGED binding
    BY <1>9, <2>1, <2>3, CloseKeepsPort DEF Ensures
  <2>4. CASE UNCHANGED proxy
    BY <1>9, <2>4 DEF Ensures, PortInv, WatcherHolds, JvmHolds, binding
  <2> QED
    BY <1>9, <2>2, <2>3, <2>4 DEF Ensures
<1>10. CASE EventLost \/ Asks \/ Polls \/ PollFails \/ StopReturns \/ StopFails \/ StartTimesOut
            \/ UNCHANGED vars
  BY <1>10 DEF EventLost, Asks, Polls, PollFails, StopReturns, StopFails, StartTimesOut, vars,
               PortInv, WatcherHolds, JvmHolds, binding
<1>11. CASE World
  BY <1>11 DEF World, Crafty, CraftyStops, CraftyStarts, Spawns, Halts, Server, JvmBinds,
               JvmCollides, JvmExits, ConsoleStarts, ConsoleStops, JvmCrashes, PortInv,
               WatcherHolds, JvmHolds, binding
<1> QED
  BY <1>1, <1>2, <1>3, <1>4, <1>5, <1>6, <1>7, <1>8, <1>9, <1>10, <1>11
     DEF Next, Handler, PollStep, World

(***************************************************************************)
(* The invariants of the specification.                                    *)
(***************************************************************************)

LEMMA StepKeepsType == ASSUME TypeOK, PortInv, [Next]_vars PROVE TypeOK'
  BY BindStepType, RebindRunsType, CloseFinishesType, HandlerType, EventType, PollStepType,
     StartTimesOutType, WorldType, StutterType
     DEF Next, World

LEMMA Invariance == Spec => []IInv
<1>1. IInv /\ [Next]_vars => IInv'
  BY StepKeepsType, StepKeepsPort, StepKeepsLocked DEF IInv
<1> QED
  BY InitEstablishes, <1>1, PTL DEF Spec

\* Every variable keeps its type.
THEOREM TypeCorrect == Spec => []TypeOK
<1>1. IInv => TypeOK
  BY DEF IInv
<1> QED
  BY <1>1, Invariance, PTL

\* In every environment and on every Python, a STARTING server is locked out
\* of re-binding.
THEOREM StartingStaysLocked == Spec => []StartingIsLocked
<1>1. IInv => StartingIsLocked
  BY DEF IInv
<1> QED
  BY <1>1, Invariance, PTL

(***************************************************************************)
(* Refinement: what each action does to the lease.                         *)
(***************************************************************************)
LEMMA InitIsLeased == Init => Lease!LeaseInit
  BY DEF Init, Lease!LeaseInit, Holder, WatcherHolds, JvmHolds, BindInFlight

\* Where nothing of the lease changes, the lease stutters.
LEMMA LeaseStutters ==
    ASSUME UNCHANGED <<lockout, raced, listener, binder, jvm>>
    PROVE  UNCHANGED Lease!leaseVars
  BY DEF Lease!leaseVars, Holder, WatcherHolds, JvmHolds, BindInFlight

\* A bind that is begun with the lockout off, or taken off in the same step, is
\* a decision; a call that begins none only unlocks.
LEMMA StartListenerIsLeased ==
    ASSUME TypeOK, PortInv, NEW lk, StartListener(lk), UNCHANGED <<listener, jvm>>,
           lockout' = FALSE, raced' = FALSE
    PROVE  Lease!Decide \/ Lease!Unclaim
<1> USE DEF Holder, WatcherHolds, JvmHolds, BindInFlight
<1>1. CASE Binds(lk)
  BY <1>1 DEF StartListener, Binds, Lease!Decide
<1>2. CASE ~Binds(lk)
  BY <1>2 DEF StartListener, binding, Lease!Unclaim
<1> QED
  BY <1>1, <1>2

\* Closing the listener without a claim.
LEMMA CloseIsLeased ==
    ASSUME TypeOK, PortInv, NEW cl, listener' = AfterStop(cl),
           UNCHANGED <<lockout, raced, binder, jvm>>
    PROVE  Lease!GiveBack \/ UNCHANGED Lease!leaseVars
<1> USE DEF Holder, WatcherHolds, JvmHolds, BindInFlight
<1>1. CASE listener = "open"
  BY <1>1 DEF AfterStop, PortInv, Lease!GiveBack
<1>2. CASE listener # "open"
  BY <1>2 DEF AfterStop, TypeOK, Lease!leaseVars
<1> QED
  BY <1>1, <1>2

\* Closing it, or having it closed already, and claiming.
LEMMA ClaimIsLeased ==
    ASSUME TypeOK, PortInv, listener' = "none", UNCHANGED <<binder, jvm>>, ClaimForStart
    PROVE  Lease!Claim
  BY DEF Holder, WatcherHolds, JvmHolds, BindInFlight, ClaimForStart, PortInv, TypeOK, Lease!Claim

LEMMA BindIsLeased == ASSUME TypeOK, PortInv, BindStep PROVE [Lease!LeaseNext]_(Lease!leaseVars)
<1> USE DEF Holder, WatcherHolds, JvmHolds, BindInFlight, claim, world, PortFree
<1>1. CASE BindSucceeds
  BY <1>1 DEF BindSucceeds, Lease!Acquire, Lease!LeaseNext
<1>2. CASE BindRegisters
  BY <1>2 DEF BindRegisters, Lease!Finish, Lease!LeaseNext
<1>3. CASE BindRefused
  BY <1>3 DEF BindRefused, Lease!Finish, Lease!LeaseNext
<1>4. CASE BindRetries
  <2>1. CASE lockout
    BY <1>4, <2>1 DEF BindRetries, Lease!leaseVars
  <2>2. CASE ~lockout
    BY <1>4, <2>2 DEF BindRetries, PortInv, TypeOK, Lease!Decide, Lease!LeaseNext
  <2> QED
    BY <2>1, <2>2
<1> QED
  BY <1>1, <1>2, <1>3, <1>4 DEF BindStep

\* The server's side: it takes a free port, leaves it, or does not touch it.
LEMMA WorldIsLeased == ASSUME TypeOK, World PROVE [Lease!LeaseNext]_(Lease!leaseVars)
<1> USE DEF claim, proxy, binding, Spawns, Halts
<1>1. UNCHANGED <<lockout, raced, listener, binder>>
  BY DEF World, Crafty, CraftyStops, CraftyStarts, Server, JvmBinds, JvmCollides, JvmExits,
         ConsoleStarts, ConsoleStops, JvmCrashes
<1>2. \/ JvmHolds' = JvmHolds
      \/ ~WatcherHolds /\ ~JvmHolds /\ JvmHolds'
      \/ JvmHolds /\ ~JvmHolds'
  BY DEF World, Crafty, CraftyStops, CraftyStarts, Server, JvmBinds, JvmCollides, JvmExits,
         ConsoleStarts, ConsoleStops, JvmCrashes, JvmHolds, world, TypeOK, JvmStates
<1>3. UNCHANGED WatcherHolds /\ UNCHANGED BindInFlight
  BY <1>1 DEF WatcherHolds, BindInFlight
<1>4. CASE JvmHolds' = JvmHolds \/ WatcherHolds
  BY <1>1, <1>3, <1>4 DEF Holder, Lease!leaseVars
<1>5. CASE ~WatcherHolds /\ ~JvmHolds /\ JvmHolds'
  BY <1>1, <1>3, <1>5 DEF Holder, Lease!ServerTakes, Lease!LeaseNext
<1>6. CASE ~WatcherHolds /\ JvmHolds /\ ~JvmHolds'
  BY <1>1, <1>3, <1>6 DEF Holder, Lease!ServerLeaves, Lease!LeaseNext
<1> QED
  BY <1>2, <1>4, <1>5, <1>6

LEMMA StepIsLeased ==
    ASSUME TypeOK, PortInv, StartingIsLocked, [Next]_vars
    PROVE  [Lease!LeaseNext]_(Lease!leaseVars)
<1> USE DEF claim, proxy, binding, world
<1>1. CASE BindStep
  BY <1>1, BindIsLeased
<1>2. CASE RebindRuns
  <2>1. CASE lockout
    BY <1>2, <2>1, LeaseStutters DEF RebindRuns, StartListener, Binds
  <2>2. CASE ~lockout
    BY <1>2, <2>2, StartListenerIsLeased DEF RebindRuns, PortInv, TypeOK, Lease!LeaseNext
  <2> QED
    BY <2>1, <2>2
<1>3. CASE CloseFinishes
  <2>1. CASE ClaimForStart
    BY <1>3, <2>1, ClaimIsLeased DEF CloseFinishes, Lease!LeaseNext
  <2>2. CASE UNCHANGED claim
    BY <1>3, <2>2 DEF CloseFinishes, Holder, WatcherHolds, JvmHolds, BindInFlight, Lease!leaseVars
  <2> QED
    BY <1>3, <2>1, <2>2 DEF CloseFinishes
<1>4. ASSUME NEW c \in Clients, Connect(c) \/ Leave(c) \/ PauseEnds(c) \/ StartReturns(c)
      PROVE  UNCHANGED Lease!leaseVars
  BY <1>4, LeaseStutters DEF Connect, Leave, PauseEnds, StartReturns
<1>5. ASSUME NEW c \in Clients, Login(c) PROVE [Lease!LeaseNext]_(Lease!leaseVars)
  <2>1. CASE state \in Down /\ listener' = "closing"
    BY <1>5, <2>1, CloseIsLeased DEF Login, Lease!LeaseNext
  <2>2. CASE state \in Down /\ listener' # "closing"
    BY <1>5, <2>2, ClaimIsLeased DEF Login, AfterStop, Lease!LeaseNext
  <2>3. CASE state \notin Down
    BY <1>5, <2>3, LeaseStutters DEF Login
  <2> QED
    BY <2>1, <2>2, <2>3
<1>6. ASSUME NEW c \in Clients, StartFails(c) PROVE Lease!Decide \/ Lease!Unclaim
  BY <1>6, StartListenerIsLeased DEF StartFails, Unlock
<1>7. CASE StartEvent
  <2>1. CASE lockout \/ state \notin Down
    BY <1>7, <2>1, LeaseStutters DEF StartEvent
  <2>2. CASE ~(lockout \/ state \notin Down) /\ listener' = "closing"
    BY <1>7, <2>2, CloseIsLeased DEF StartEvent, Lease!LeaseNext
  <2>3. CASE ~(lockout \/ state \notin Down) /\ listener' # "closing"
    BY <1>7, <2>3, ClaimIsLeased DEF StartEvent, AfterStop, Lease!LeaseNext
  <2> QED
    BY <2>1, <2>2, <2>3
<1>8. CASE StopEvent
  <2>1. CASE state \in Down
    BY <1>8, <2>1, LeaseStutters DEF StopEvent
  <2>2. CASE state \notin Down
    BY <1>8, <2>2 DEF StopEvent, Unlock, Holder, WatcherHolds, JvmHolds, BindInFlight,
                      Lease!Unclaim, Lease!LeaseNext
  <2> QED
    BY <2>1, <2>2
<1>9. CASE Ensures
  <2>1. CASE lockout /\ state \notin Down
    BY <1>9, <2>1, LeaseStutters DEF Ensures
  <2>2. CASE state \in Down
    BY <1>9, <2>2, StartListenerIsLeased DEF Ensures, Unlock, Lease!LeaseNext
  <2>3. CASE ~lockout /\ state \notin Down
    BY <1>9, <2>3, CloseIsLeased DEF Ensures, Unlock, PortInv, TypeOK, Lease!LeaseNext
  <2> QED
    BY <2>1, <2>2, <2>3
<1>10. CASE EventLost \/ Asks \/ Polls \/ PollFails \/ StopReturns \/ StopFails \/ StartTimesOut
            \/ UNCHANGED vars
  BY <1>10, LeaseStutters DEF EventLost, Asks, Polls, PollFails, StopReturns, StopFails,
                              StartTimesOut, vars
<1>11. CASE World
  BY <1>11, WorldIsLeased
<1> QED
  BY <1>1, <1>2, <1>3, <1>4, <1>5, <1>6, <1>7, <1>8, <1>9, <1>10, <1>11
     DEF Next, Handler, PollStep, World, Lease!LeaseNext

\* The proxy implements the lease protocol.
THEOREM HandoverImplementsLease == Spec => ImplementsLease
<1>1. IInv /\ [Next]_vars => [Lease!LeaseNext]_(Lease!leaseVars)
  BY StepIsLeased DEF IInv
<1> QED
  BY InitIsLeased, <1>1, Invariance, PTL DEF Spec, ImplementsLease, Lease!LeaseSpec

\* Hence every claim that raced no bind keeps the proxy off the port for as
\* long as it stands.
THEOREM LockoutKeepsPortFree == Spec => []LockoutFreesPort
<1>1. Lease!LeaseSpec => []Lease!ClaimIsKept
  BY Lease!LeaseKeepsClaims
<1>2. Lease!ClaimIsKept => LockoutFreesPort
  BY DEF Lease!ClaimIsKept, LockoutFreesPort, Holder
<1> QED
  BY <1>1, <1>2, HandoverImplementsLease, PTL DEF ImplementsLease

(***************************************************************************)
(* Starts that race no bind.  The environments in which a clean claim is   *)
(* enough are the ones with no other hand on the server and no answer that *)
(* comes late; and wait_closed() must not wait, because a handler that is  *)
(* suspended in it claims long after it has looked at the state.  TLC      *)
(* breaks both properties in every other environment.                      *)
(***************************************************************************)
Steady == WaitClosed = FALSE /\ Env \subseteq {"lossy"}

\* No bind is under way or about to be, and no connection is alive.
Quiet == listener = "none" /\ binder = "off" /\ ~rebinds /\ MinutesPass

\* Every close is over at once.
NobodyWaits ==
    /\ listener # "closing" /\ ~releasing /\ pollPc # "closing"
    /\ \A c \in Clients : client[c] # "releasing"

\* A clean claim leaves nothing of the proxy on the port or on its way to it.
ClaimIsClean == lockout => ~BindInFlight /\ listener # "open"

\* An event is about what the JVM is still doing; a stop is the watcher's own.
EventsAreFresh ==
    /\ jvm # "crashed" /\ event # "crash"
    /\ event = "start" => jvm = "booting"
    /\ event = "stop" => /\ state = "STOPPING" /\ jvm \in {"saving", "down"}
                         /\ pollPc \notin {"asking", "stopping"}

\* The watcher stops a server nobody is connected to.
StopsAreLonely ==
    /\ pollPc = "stopping" => state = "STOPPING" /\ (jvm \in {"booting", "up"} => MinutesPass)
    /\ jvm = "saving" => \A c \in Clients : client[c] # "reading"

\* A JVM runs only in a state that says so, and boots either locked in or
\* with the proxy wholly at rest.
BootsAreSeen ==
    /\ jvm \in {"booting", "up"} => state \notin Down
    /\ jvm = "booting" /\ ~lockout => Quiet

\* A handler in its start holds the claim, and knows what the JVM is doing.
StartsAreOwned ==
    \A c \in Clients : client[c] \in MidStart =>
        /\ state = "STARTING" /\ lockout /\ ~overdue
        /\ jvm = IF client[c] = "called" THEN "booting" ELSE "down"

Orderly ==
    /\ NobodyWaits /\ ClaimIsClean /\ EventsAreFresh
    /\ StopsAreLonely /\ BootsAreSeen /\ StartsAreOwned /\ OneStartInFlight

\* What the graph answers to the moves below.
LEMMA DownStarts ==
    ASSUME NEW old \in Down PROVE Transition(old, "STARTING") = "STARTING"
  BY DEF Transition, ValidTransitions, Down

LEMMA StoppingEndsAsAsked ==
    ASSUME NEW new \in {"STOPPED", "IDLE"} PROVE Transition("STOPPING", new) = new
  BY DEF Transition, ValidTransitions

LEMMA StartingRollsBack == Transition("STARTING", "STOPPED") = "STOPPED"
  BY DEF Transition, ValidTransitions

LEMMA IdleStops == Transition("IDLE", "STOPPING") = "STOPPING"
  BY DEF Transition, ValidTransitions

\* A transition is to where it asks, or is ignored.
LEMMA TransitionOrStay ==
    ASSUME NEW old, NEW new PROVE Transition(old, new) \in {old, new}
  BY DEF Transition

\* Whatever the JVM was doing when the watcher came up.
LEMMA InitIsOrderly == ASSUME Steady, Init PROVE Orderly
  BY DEF Init, Steady, Orderly, NobodyWaits, ClaimIsClean, EventsAreFresh, StopsAreLonely,
         BootsAreSeen, StartsAreOwned, OneStartInFlight, BindInFlight, MidStart, JvmStates,
         MinutesPass, Quiet, Down

\* A bind under way means there is no claim, so no JVM is booting.
LEMMA BindIsOrderly ==
    ASSUME TypeOK, PortInv, Steady, ~raced, ~raced', Orderly, BindStep \/ RebindRuns
    PROVE  Orderly'
<1> USE DEF Orderly, NobodyWaits, ClaimIsClean, EventsAreFresh, StopsAreLonely, BootsAreSeen,
            StartsAreOwned, OneStartInFlight, BindInFlight, MidStart, MinutesPass, Quiet,
            machine, claim, binding, proxy, loop, world, BindAwaited
<1>1. CASE BindSucceeds
  BY <1>1 DEF BindSucceeds, PortInv
<1>2. CASE BindRegisters
  BY <1>2 DEF BindRegisters, TypeOK
<1>3. CASE BindRefused
  BY <1>3 DEF BindRefused, TypeOK
<1>4. CASE BindRetries
  BY <1>4 DEF BindRetries, TypeOK
<1>5. CASE RebindRuns
  BY <1>5 DEF RebindRuns, StartListener, Binds
<1> QED
  BY <1>1, <1>2, <1>3, <1>4, <1>5 DEF BindStep

\* Nothing of a close is left over for later.
LEMMA NothingFinishes == ASSUME NobodyWaits PROVE ~CloseFinishes
  BY DEF NobodyWaits, CloseFinishes

\* Without wait_closed() a close leaves nothing behind.
LEMMA ClosesAtOnce ==
    ASSUME Steady, TypeOK, NobodyWaits, NEW cl PROVE AfterStop(cl) = "none"
  BY DEF Steady, NobodyWaits, AfterStop

\* A login claims from STOPPED or CRASHED only, where no start is under way.
LEMMA HandlerIsOrderly ==
    ASSUME TypeOK, PortInv, Steady, ~raced, ~raced', Orderly,
           NEW c \in Clients, Connect(c) \/ Handler(c)
    PROVE  Orderly'
<1> USE DEF Orderly, NobodyWaits, ClaimIsClean, EventsAreFresh, StopsAreLonely, BootsAreSeen,
            StartsAreOwned, OneStartInFlight, BindInFlight, MidStart, MinutesPass, Quiet,
            machine, claim, binding, proxy, loop, world
<1>0. \A d \in Clients : d # c => client'[d] = client[d]
  BY DEF Connect, Handler, Leave, Login, PauseEnds, StartReturns, StartFails, TypeOK
<1>1. CASE Connect(c)
  <2>1. jvm # "booting" /\ jvm # "saving" /\ ~lockout
    BY <1>1 DEF Connect, PortInv, WatcherHolds, JvmHolds
  <2>2. client'[c] = "reading" /\ \A d \in Clients : client[d] \notin MidStart
    BY <1>1, <2>1 DEF Connect, TypeOK
  <2>3. UNCHANGED <<machine, proxy, releasing, loop, world>> /\ client[c] = "away"
    BY <1>1 DEF Connect
  <2>4. pollPc = "stopping" => jvm = "down"
    BY <1>1, <2>1 DEF Connect, PortInv, WatcherHolds, JvmHolds, TypeOK, JvmStates
  <2> QED
    BY <1>0, <2>1, <2>2, <2>3, <2>4
<1>2. CASE Leave(c)
  BY <1>2 DEF Leave, TypeOK
<1>3. CASE Login(c)
  <2>1. CASE state \in Down
    <3>1. listener' = "none"
      BY <1>3, <2>1, ClosesAtOnce DEF Login
    <3>2. client'[c] = "pausing" /\ ClaimForStart
      BY <1>3, <2>1, <3>1 DEF Login, TypeOK
    <3>3. state' = "STARTING" /\ ~overdue' /\ lockout' /\ ~BindInFlight
      BY <2>1, <3>2, DownStarts DEF ClaimForStart, MoveTo, Down
    <3>4. jvm = "down"
      BY <1>3, <2>1 DEF Login, TypeOK, JvmStates
    <3>5. \A d \in Clients : client[d] \notin MidStart
      BY <2>1 DEF Down
    <3>6. UNCHANGED <<binding, rebinds, releasing, loop, world>>
      BY <1>3 DEF Login
    <3>7. event = "none" /\ pollPc # "stopping"
      BY <2>1, <3>4 DEF Down, TypeOK
    <3> QED
      BY <1>0, <3>1, <3>2, <3>3, <3>4, <3>5, <3>6, <3>7 DEF Down
  <2>2. CASE state \notin Down
    BY <1>3, <2>2 DEF Login, TypeOK
  <2> QED
    BY <2>1, <2>2
<1>4. CASE PauseEnds(c)
  BY <1>4 DEF PauseEnds, TypeOK
<1>5. CASE StartReturns(c)
  BY <1>5 DEF StartReturns, TypeOK
<1>6. CASE StartFails(c)
  <2>1. client[c] = "calling" /\ state = "STARTING" /\ jvm = "down" /\ lockout
    BY <1>6 DEF StartFails, Steady
  <2>2. state' = "STOPPED" /\ ~lockout'
    BY <1>6, <2>1, StartingRollsBack DEF StartFails, MoveTo, Unlock
  <2>3. \A d \in Clients : d # c => client[d] \notin MidStart
    BY <2>1
  <2>4. client'[c] \in {"recovering", "away"}
    BY <1>6 DEF StartFails, TypeOK
  <2>5. UNCHANGED <<listener, rebinds, releasing, loop, world>>
    BY <1>6 DEF StartFails
  <2>6. event = "none" /\ pollPc # "stopping"
    BY <2>1 DEF TypeOK
  <2> QED
    BY <1>0, <2>1, <2>2, <2>3, <2>4, <2>5, <2>6
<1> QED
  BY <1>1, <1>2, <1>3, <1>4, <1>5, <1>6 DEF Handler

\* A start event finds the server STARTING, a stop event STOPPING.
LEMMA EventIsOrderly ==
    ASSUME TypeOK, PortInv, Steady, ~raced, ~raced', Orderly,
           StartEvent \/ StopEvent \/ EventLost
    PROVE  Orderly'
<1> USE DEF Orderly, NobodyWaits, ClaimIsClean, EventsAreFresh, StopsAreLonely, BootsAreSeen,
            StartsAreOwned, OneStartInFlight, BindInFlight, MidStart, MinutesPass, Quiet,
            machine, claim, binding, proxy, loop, world
<1>1. CASE StartEvent
  <2>1. jvm = "booting" /\ state \notin Down
    BY <1>1 DEF StartEvent
  <2> QED
    BY <1>1, <2>1 DEF StartEvent
<1>2. CASE StopEvent
  <2>1. event = "stop" /\ state = "STOPPING" /\ jvm \in {"saving", "down"}
    BY <1>2 DEF StopEvent
  <2>2. state' = "STOPPED" /\ ~lockout'
    BY <1>2, <2>1, StoppingEndsAsAsked DEF StopEvent, MoveTo, Unlock, Down
  <2> QED
    BY <1>2, <2>1, <2>2 DEF StopEvent
<1>3. CASE EventLost
  BY <1>3 DEF EventLost
<1> QED
  BY <1>1, <1>2, <1>3

\* Honest and fresh stats take no start away from its handler.
LEMMA PollIsOrderly ==
    ASSUME TypeOK, PortInv, Steady, ~raced, ~raced', Orderly,
           PollStep \/ StartTimesOut
    PROVE  Orderly'
<1> USE DEF Orderly, NobodyWaits, ClaimIsClean, EventsAreFresh, StopsAreLonely, BootsAreSeen,
            StartsAreOwned, OneStartInFlight, BindInFlight, MidStart, MinutesPass, Quiet,
            machine, claim, binding, proxy, loop, world
<1>1. CASE Asks
  BY <1>1 DEF Asks, Dispatched, Steady
<1>2. CASE Polls
  <2>0. UNCHANGED <<proxy, client, releasing, asked, world>> /\ event # "stop" /\ pollPc = "asking"
    BY <1>2 DEF Polls
  <2>1. PICK r \in Reports(jvm), due \in {FALSE, MinutesPass} :
           IF ReachesIdleCheck(state, r)
           THEN IF due THEN MoveTo("STOPPING") /\ pollPc' = "stopping"
                       ELSE UNCHANGED machine /\ pollPc' = "polled"
           ELSE MoveTo(PollTarget(state, r, overdue)) /\ pollPc' = "polled"
    BY <1>2 DEF Polls, Steady
  <2>2. /\ ~r.crashed /\ r.running = (jvm \in {"booting", "up", "saving"})
        /\ r.ping => jvm \in {"up", "saving"}
    BY DEF Reports, Steady, Stats
  <2>3. CASE ReachesIdleCheck(state, r) /\ due
    <3>1. state = "IDLE" /\ MinutesPass /\ state' = "STOPPING"
      BY <2>1, <2>3, IdleStops DEF ReachesIdleCheck, MoveTo
    <3> QED
      BY <2>0, <2>1, <2>3, <3>1 DEF Down
  <2>4. CASE ReachesIdleCheck(state, r) /\ ~due
    BY <2>0, <2>1, <2>4
  <2>5. CASE ~ReachesIdleCheck(state, r)
    <3>1. pollPc' = "polled" /\ MoveTo(PollTarget(state, r, overdue))
      BY <2>1, <2>5
    <3>2. jvm \in {"booting", "up"} => state' \notin Down
      <4>1. jvm \in {"booting", "up"} => PollTarget(state, r, overdue) \notin Down
        BY <2>2 DEF PollTarget, TargetWhenRunning, Occupied, Down
      <4> QED
        BY <3>1, <4>1, TransitionOrStay DEF MoveTo
    <3>3. state = "STARTING" /\ ~overdue /\ jvm \in {"booting", "down"}
          => state' = "STARTING" /\ ~overdue'
      <4>1. state = "STARTING" /\ ~overdue /\ jvm \in {"booting", "down"}
            => PollTarget(state, r, overdue) = "STARTING"
        BY <2>2 DEF PollTarget, TargetWhenRunning, TargetWhenHalted
      <4> QED
        BY <3>1, <4>1, TransitionOrStay DEF MoveTo
    <3> QED
      BY <2>0, <3>1, <3>2, <3>3
  <2> QED
    BY <2>3, <2>4, <2>5
<1>3. CASE PollFails \/ StopReturns
  BY <1>3 DEF PollFails, StopReturns
<1>4. CASE StopFails
  <2>1. pollPc = "stopping" /\ state = "STOPPING"
    BY <1>4 DEF StopFails, Steady
  <2>2. state' = "IDLE"
    BY <1>4, <2>1, StoppingEndsAsAsked DEF StopFails, MoveTo
  <2> QED
    BY <1>4, <2>1, <2>2 DEF StopFails, Down
<1>5. CASE Ensures
  <2>1. CASE lockout /\ state \notin Down
    BY <1>5, <2>1 DEF Ensures
  <2>2. CASE state \in Down
    BY <1>5, <2>2 DEF Ensures, Unlock, StartListener, Binds, Down
  <2>3. CASE ~lockout /\ state \notin Down
    BY <1>5, <2>3, ClosesAtOnce DEF Ensures, Unlock
  <2> QED
    BY <2>1, <2>2, <2>3
<1>6. CASE StartTimesOut
  BY <1>6 DEF StartTimesOut
<1> QED
  BY <1>1, <1>2, <1>3, <1>4, <1>5, <1>6 DEF PollStep

\* The JVM collides with nothing, and Crafty starts only a server that is down.
LEMMA WorldIsOrderly ==
    ASSUME TypeOK, PortInv, Steady, ~raced, ~raced', Orderly, World
    PROVE  Orderly'
<1> USE DEF Orderly, NobodyWaits, ClaimIsClean, EventsAreFresh, StopsAreLonely, BootsAreSeen,
            StartsAreOwned, OneStartInFlight, BindInFlight, MidStart, MinutesPass, Quiet,
            machine, claim, binding, proxy, loop, world, Spawns, Halts
<1>1. CASE CraftyStops
  BY <1>1 DEF CraftyStops
<1>2. ASSUME NEW c \in Clients, CraftyStarts(c) PROVE Orderly'
  <2>1. client[c] = "calling" /\ jvm = "down" /\ state = "STARTING" /\ lockout /\ ~overdue
    BY <1>2 DEF CraftyStarts
  <2>2. jvm' = "booting" /\ event' = "start" /\ client'[c] = "called"
    BY <1>2, <2>1 DEF CraftyStarts, TypeOK
  <2>3. \A d \in Clients : d # c => client'[d] = client[d] /\ client[d] \notin MidStart
    BY <1>2, <2>1 DEF CraftyStarts, TypeOK
  <2>4. UNCHANGED <<machine, proxy, releasing, loop>>
    BY <1>2 DEF CraftyStarts
  <2> QED
    BY <2>1, <2>2, <2>3, <2>4 DEF Down
<1>3. CASE JvmBinds
  BY <1>3 DEF JvmBinds, Settled, Dispatched, Steady
<1>4. CASE JvmCollides
  BY <1>4 DEF JvmCollides, WatcherHolds
<1>5. CASE JvmExits
  BY <1>5 DEF JvmExits
<1>6. CASE ConsoleStarts \/ ConsoleStops \/ JvmCrashes
  BY <1>6 DEF ConsoleStarts, ConsoleStops, JvmCrashes, Steady
<1> QED
  BY <1>1, <1>2, <1>3, <1>4, <1>5, <1>6 DEF World, Crafty, Server

\* Every step that leaves no raced claim.
LEMMA StepIsOrderly ==
    ASSUME TypeOK, PortInv, Steady, ~raced, ~raced', Orderly, [Next]_vars
    PROVE  Orderly'
<1>1. CASE UNCHANGED vars
  BY <1>1 DEF Orderly, NobodyWaits, ClaimIsClean, EventsAreFresh, StopsAreLonely,
              BootsAreSeen, StartsAreOwned, OneStartInFlight, BindInFlight, MidStart, MinutesPass,
              Quiet, machine, claim, binding, proxy, loop, world, vars
<1> QED
  BY <1>1, BindIsOrderly, NothingFinishes, HandlerIsOrderly, EventIsOrderly, PollIsOrderly,
     WorldIsOrderly
     DEF Next, World, Orderly

LEMMA OrderlyInvariance == ASSUME Steady PROVE Spec /\ []~raced => []Orderly
<1>1. Init => Orderly
  BY InitIsOrderly
<1>2. IInv /\ ~raced /\ (~raced)' /\ Orderly /\ [Next]_vars => Orderly'
  BY StepIsOrderly DEF IInv
<1> QED
  BY <1>1, <1>2, Invariance, PTL DEF Spec

\* Steady, and as long as no claim races a bind: once its start event has been
\* handled or lost, a booting JVM never finds the proxy on its port.
THEOREM CleanBoots == ASSUME Steady PROVE Spec => UnracedBoot
<1>1. IInv /\ ~raced /\ Orderly => BootMeetsFreePort
  BY DEF Orderly, ClaimIsClean, BootsAreSeen, Quiet, BootMeetsFreePort, WatcherHolds, BindInFlight
<1> QED
  BY <1>1, OrderlyInvariance, Invariance, PTL DEF UnracedBoot

\* In the same behaviours at most one login handler is between its claim and
\* the answer to its start_server call.
THEOREM CleanStarts == ASSUME Steady PROVE Spec => UnracedStart
<1>1. Orderly => OneStartInFlight
  BY DEF Orderly
<1> QED
  BY <1>1, OrderlyInvariance, PTL DEF UnracedStart
=============================================================================
