----------------------------- MODULE IdleProofs -----------------------------
(***************************************************************************)
(* For any timeouts, cooldowns, history and maximal age, and any number of *)
(* runs of the watcher: the clocks of IdleMonitor keep their types, a stop *)
(* is asked only of a server that was idle for the whole timeout as far as *)
(* a running watcher could know, and in truth where it is told of all that *)
(* happens, and a restart goes on with the countdown of the last run.      *)
(***************************************************************************)
EXTENDS IdleMonitor, SequenceTheorems, TLAPS

(***************************************************************************)
(* The invariants.                                                         *)
(***************************************************************************)

\* A machine whose history fits the deque.
Kept(m) == m \in Machines /\ Len(m.recent) <= HistoryLen

TypeInv ==
    /\ TypeOK
    /\ \A m \in {pending, file, before} : m = Nothing \/ Kept(m)

\* Where a snapshot waits, or no watcher runs, the machine is as it was made,
\* and no stop is under way of such a one.
RunInv ==
    /\ pc = "off" \/ pending # Nothing => sm.state = "UNKNOWN"
    /\ pc \in {"stopping", "stopCalled"} => sm.state # "UNKNOWN"

\* The file is what the machine is, or what waits for it, or it was written by
\* another server's transition before this one's first poll; or it was too old
\* to wait.
FileInv ==
    file # Nothing =>
        /\ sm.state # "UNKNOWN" => file.state \in {sm.state, "UNKNOWN"}
        /\ pending # Nothing => file.state \in {pending.state, "UNKNOWN"}
        /\ sm.state = "UNKNOWN" /\ pc # "off" /\ pending = Nothing =>
             file.state = "UNKNOWN" \/ fileAge = MaxAge + 1

\* An idle clock is no older than the idleness the watcher may know of, in the
\* machine, in what waits for it and in a file that is young enough to wait.
True(m) == m.state = "IDLE" => m.idle <= quiet

QuietInv ==
    /\ True(sm)
    /\ pending # Nothing => True(pending)
    /\ file # Nothing /\ fileAge <= MaxAge => True(file)
    /\ pc = "stopping" => quiet = IdleTimeout

\* m is the countdown of n, recent enough to be taken up.
Carries(m, n) ==
    /\ m # Nothing /\ m.state = "IDLE" /\ m.idle = n.idle
    /\ fileAge <= MaxAge

ClockInv ==
    /\ sm.state = "IDLE" => Carries(file, sm)
    /\ pending # Nothing => pending = file /\ fileAge <= MaxAge
    /\ before # Nothing /\ before.state = "IDLE" =>
        /\ sm.state = "UNKNOWN"
        /\ Carries(file, before)
        /\ pc # "off" => Carries(pending, before)

(***************************************************************************)
(* What the operators return.                                              *)
(***************************************************************************)

LEMMA StartBoundType == StartBound \in Nat /\ StartTimeout < StartBound + 1 /\ StartGrace <= StartBound
  BY IdleMonitorAssumption DEF StartBound

LEMMA TransitionChoice ==
    ASSUME NEW old, NEW new PROVE Transition(old, new) \in {old, new}
  BY DEF Transition

LEMMA PollTargetType ==
    ASSUME NEW s \in States, NEW r, NEW overdue PROVE PollTarget(s, r, overdue) \in States
  BY DEF PollTarget, TargetWhenRunning, TargetWhenHalted, Occupied, States

LEMMA OlderType ==
    ASSUME NEW bound \in Nat, NEW age \in 0 .. bound PROVE Older(age, bound) \in 0 .. bound
  BY DEF Older

LEMMA PushKept ==
    ASSUME NEW h \in Seq(0 .. FlapWindow), Len(h) <= HistoryLen
    PROVE  Push(h) \in Seq(0 .. FlapWindow) /\ Len(Push(h)) <= HistoryLen
<1> USE IdleMonitorAssumption
<1>1. CASE Len(h) >= HistoryLen
  <2>1. h # <<>> /\ Len(h) \in Nat
    BY <1>1
  <2>2. Tail(h) \in Seq(0 .. FlapWindow) /\ Len(Tail(h)) = Len(h) - 1
    BY <2>1, HeadTailProperties
  <2> QED
    BY <1>1, <2>1, <2>2, AppendProperties DEF Push
<1>2. CASE ~(Len(h) >= HistoryLen)
  BY <1>2, AppendProperties, LenProperties DEF Push
<1> QED
  BY <1>1, <1>2

LEMMA FreshKept == Kept(Fresh)
  BY IdleMonitorAssumption, StartBoundType, EmptySeq DEF Kept, Fresh, Machines, States

LEMMA MovedKept ==
    ASSUME NEW m, Kept(m), NEW new \in States
    PROVE  Kept(Moved(m, new)) /\ Moved(m, new).state = Transition(m.state, new)
<1> DEFINE s == Transition(m.state, new)
<1>1. s \in States
  BY TransitionChoice DEF Kept, Machines
<1>2. CASE s = m.state
  BY <1>2 DEF Moved
<1>3. CASE s # m.state
  <2> DEFINE h == IF s \in {"STOPPED", "STARTING"} THEN Push(m.recent) ELSE m.recent
  <2>1. h \in Seq(0 .. FlapWindow) /\ Len(h) <= HistoryLen
    BY PushKept DEF Kept, Machines
  <2>2. Moved(m, new) = [state |-> s, idle |-> 0,
                         stopped |-> IF s = "STOPPED" THEN 0 ELSE m.stopped,
                         started |-> IF s = "STARTING" THEN 0 ELSE m.started,
                         recent |-> h]
    BY <1>3 DEF Moved
  <2> HIDE DEF s, h
  <2>3. Moved(m, new) \in Machines
    BY <1>1, <2>1, <2>2, IdleMonitorAssumption, StartBoundType DEF Kept, Machines
  <2> QED
    BY <2>1, <2>2, <2>3 DEF Kept, s
<1> QED
  BY <1>2, <1>3

LEMMA AgedKept ==
    ASSUME NEW m, Kept(m), m # Nothing
    PROVE  /\ Kept(Aged(m)) /\ Aged(m).state = m.state
           /\ Aged(m).idle = IF m.state = "IDLE" THEN Older(m.idle, IdleTimeout) ELSE m.idle
<1> DEFINE idle == IF m.state = "IDLE" THEN Older(m.idle, IdleTimeout) ELSE m.idle
           h == [i \in DOMAIN m.recent |-> Older(m.recent[i], FlapWindow)]
<1>1. m \in Machines /\ Len(m.recent) <= HistoryLen
  BY DEF Kept
<1>2. h \in Seq(0 .. FlapWindow) /\ Len(h) = Len(m.recent)
  <2>1. m.recent \in Seq(0 .. FlapWindow)
    BY <1>1 DEF Machines
  <2>2. DOMAIN m.recent = 1 .. Len(m.recent) /\ Len(m.recent) \in Nat
    BY <2>1, LenProperties
  <2>3. \A i \in 1 .. Len(m.recent) : Older(m.recent[i], FlapWindow) \in 0 .. FlapWindow
    BY <2>1, IdleMonitorAssumption, OlderType, ElementOfSeq
  <2> QED
    BY <2>2, <2>3, IsASeq, LenProperties
<1>3. Aged(m) = [m EXCEPT !.idle = idle, !.stopped = Older(@, StopCooldown),
                          !.started = Older(@, StartBound), !.recent = h]
  BY DEF Aged
<1>4. /\ idle \in 0 .. IdleTimeout
      /\ Older(m.stopped, StopCooldown) \in 0 .. StopCooldown
      /\ Older(m.started, StartBound) \in 0 .. StartBound
  BY <1>1, IdleMonitorAssumption, StartBoundType, OlderType DEF Machines
<1> HIDE DEF idle, h
<1>5. /\ Aged(m) \in Machines /\ Aged(m).recent = h /\ Aged(m).idle = idle /\ Aged(m).state = m.state
  BY <1>1, <1>2, <1>3, <1>4 DEF Machines
<1> QED
  BY <1>1, <1>2, <1>5 DEF Kept, idle

(***************************************************************************)
(* Types.                                                                  *)
(***************************************************************************)

LEMMA InitTypes == Init => TypeInv
  BY FreshKept, IdleMonitorAssumption DEF Init, TypeInv, TypeOK, Kept, Worlds

\* A move, saved or not.
LEMMA BecomeKept ==
    ASSUME TypeInv, NEW m, NEW n, Kept(n), Become(m, n)
    PROVE  Kept(sm') /\ (file' = Nothing \/ Kept(file')) /\ fileAge' \in 0 .. MaxAge + 1
  BY IdleMonitorAssumption DEF TypeInv, TypeOK, Become, Save

LEMMA HearsKept ==
    ASSUME TypeInv, NEW new \in States, Hears(new)
    PROVE  Kept(sm') /\ (file' = Nothing \/ Kept(file')) /\ fileAge' \in 0 .. MaxAge + 1
<1>1. Kept(sm)
  BY DEF TypeInv, TypeOK, Kept
<1>2. CASE pc = "off"
  BY <1>1, <1>2 DEF Hears, TypeInv, TypeOK
<1>3. CASE pc # "off"
  <2>1. Become(sm, Moved(sm, new))
    BY <1>3 DEF Hears
  <2> QED
    BY <1>1, <2>1, MovedKept, BecomeKept
<1> QED
  BY <1>2, <1>3

LEMMA PollsTypes == ASSUME TypeInv, Polls PROVE TypeInv'
<1> PICK r \in Reports(world) :
        LET m    == Adopted(r.running /\ ~r.crashed)
            idle == ReachesIdleCheck(m.state, r)
            stop == idle /\ Due(m)
        IN /\ Become(m, Moved(m, IF stop THEN "STOPPING"
                                 ELSE IF idle THEN m.state
                                 ELSE PollTarget(m.state, r, Overdue(m))))
           /\ pc' = IF stop THEN "stopping" ELSE "waiting"
           /\ quiet' = IF r.running /\ ~r.players THEN quiet ELSE 0
  BY DEF Polls
<1> DEFINE m    == Adopted(r.running /\ ~r.crashed)
           idle == ReachesIdleCheck(m.state, r)
           stop == idle /\ Due(m)
           new  == IF stop THEN "STOPPING" ELSE IF idle THEN m.state
                   ELSE PollTarget(m.state, r, Overdue(m))
<1>1. Kept(m)
  BY DEF Adopted, TypeInv, TypeOK, Kept
<1>2. new \in States
  BY <1>1, PollTargetType DEF Kept, Machines, States
<1>3. Become(m, Moved(m, new)) /\ pc' \in {"stopping", "waiting"} /\ quiet' \in {quiet, 0}
  OBVIOUS
<1> HIDE DEF new, m
<1>4. Kept(sm') /\ (file' = Nothing \/ Kept(file')) /\ fileAge' \in 0 .. MaxAge + 1
  BY <1>1, <1>2, <1>3, MovedKept, BecomeKept
<1>5. pending' = Nothing /\ before' = Nothing /\ world' = world
  BY DEF Polls
<1> QED
  BY <1>3, <1>4, <1>5, IdleMonitorAssumption DEF TypeInv, TypeOK, Kept

LEMMA StopFailsTypes == ASSUME TypeInv, StopFails PROVE TypeInv'
<1>1. Kept(sm)
  BY DEF TypeInv, TypeOK, Kept
<1>2. Kept(Moved(sm, "IDLE"))
  BY <1>1, MovedKept DEF States
<1>3. Kept([Moved(sm, "IDLE") EXCEPT !.idle = IdleTimeout])
  BY <1>2, IdleMonitorAssumption DEF Kept, Machines
<1>4. Kept(sm') /\ file' = sm' /\ fileAge' = 0 /\ pc' = "waiting" /\ UNCHANGED <<pending, world, quiet, before>>
  BY <1>3 DEF StopFails, Save, history
<1> QED
  BY <1>4, IdleMonitorAssumption DEF TypeInv, TypeOK, Kept

\* What happens to the server, and what the watcher hears of it.
LEMMA WorldTypes ==
    ASSUME TypeInv,
           LoginStarts \/ CraftyStops \/ ConsoleStarts \/ ConsoleStops \/ Crashes \/ Plays
    PROVE  TypeInv'
<1>0. Kept(sm)
  BY DEF TypeInv, TypeOK, Kept
<1>1. Kept(sm') /\ (file' = Nothing \/ Kept(file')) /\ fileAge' \in 0 .. MaxAge + 1
  <2>1. ASSUME NEW new \in {"STARTING", "STOPPED", "CRASHED"}, Hears(new)
        PROVE  Kept(sm') /\ (file' = Nothing \/ Kept(file')) /\ fileAge' \in 0 .. MaxAge + 1
    BY <2>1, HearsKept DEF States
  <2>2. \/ UNCHANGED <<sm, file, fileAge>>
        \/ \E new \in {"STARTING", "STOPPED", "CRASHED"} : Hears(new)
    BY DEF LoginStarts, CraftyStops, ConsoleStarts, ConsoleStops, Crashes, Plays, StartHeard, HaltHeard, Missed, store
  <2> QED
    BY <1>0, <2>1, <2>2 DEF TypeInv, TypeOK
<1>2. /\ pc' \in {pc, "stopCalled"} /\ world' \in Worlds /\ quiet' \in {quiet, 0}
      /\ UNCHANGED <<pending, before>>
  BY DEF TypeInv, TypeOK, LoginStarts, CraftyStops, ConsoleStarts, ConsoleStops, Crashes, Plays, StartHeard, HaltHeard, Missed,
         store, history, Worlds
<1> QED
  BY <1>1, <1>2, IdleMonitorAssumption DEF TypeInv, TypeOK, Kept

LEMMA LoginFailsTypes == ASSUME TypeInv, LoginFails PROVE TypeInv'
<1>1. Kept(sm)
  BY DEF TypeInv, TypeOK, Kept
<1>2. Kept(Moved(Moved(sm, "STARTING"), "STOPPED"))
  BY <1>1, MovedKept DEF States
<1>3. Kept(sm') /\ file' = sm' /\ fileAge' = 0 /\ UNCHANGED <<pc, pending, world, quiet, before>>
  BY <1>2 DEF LoginFails, Save, history
<1> QED
  BY <1>3, IdleMonitorAssumption DEF TypeInv, TypeOK, Kept

LEMMA TickTypes == ASSUME TypeInv, Tick PROVE TypeInv'
<1>1. \A m \in {sm, pending, file, before} : Aged(m) = Nothing \/ Kept(Aged(m))
  BY AgedKept DEF TypeInv, TypeOK, Kept, Aged
<1>2. fileAge' \in 0 .. MaxAge + 1 /\ quiet' \in 0 .. IdleTimeout
  BY OlderType, IdleMonitorAssumption DEF Tick, TypeInv, TypeOK
<1>3. /\ sm' = Aged(sm) /\ pending' = Aged(pending) /\ file' = Aged(file) /\ before' = Aged(before)
      /\ UNCHANGED <<pc, world>>
  BY DEF Tick
<1>4. Kept(sm')
  BY <1>1, <1>3, AgedKept DEF TypeInv, TypeOK, Kept, Aged
<1> QED
  BY <1>1, <1>2, <1>3, <1>4 DEF TypeInv, TypeOK, Kept

LEMMA StepTypes == TypeInv /\ [Next]_vars => TypeInv'
<1> SUFFICES ASSUME TypeInv, [Next]_vars PROVE TypeInv'
  OBVIOUS
<1>1. CASE Asks \/ PollFails \/ StopReturns \/ UNCHANGED vars
  BY <1>1 DEF Asks, PollFails, StopReturns, TypeInv, TypeOK, Kept, vars, store, history
<1>2. CASE Ends \/ Begins \/ OtherSaves
  BY <1>2, FreshKept, IdleMonitorAssumption
  DEF Ends, Begins, OtherSaves, Save, TypeInv, TypeOK, Kept, store, history
<1>3. CASE LoginStarts \/ CraftyStops \/ ConsoleStarts \/ ConsoleStops \/ Crashes \/ Plays
  BY <1>3, WorldTypes
<1> QED
  BY <1>1, <1>2, <1>3, PollsTypes, StopFailsTypes, LoginFailsTypes, TickTypes DEF Next

LEMMA TypesHold == Spec => []TypeInv
  BY InitTypes, StepTypes, PTL DEF Spec

\* Every clock, history and snapshot stays in its range over any number of runs
\* of the watcher, in every environment (ServerStateMachine, state_store.py).
THEOREM TypeCorrect == Spec => []TypeOK
<1>1. TypeInv => TypeOK
  BY DEF TypeInv
<1> QED
  BY <1>1, TypesHold, PTL

(***************************************************************************)
(* What a move and a poll come to.                                         *)
(***************************************************************************)

LEMMA MovedState ==
    ASSUME NEW m, NEW new
    PROVE  /\ Moved(m, new).state = Transition(m.state, new)
           /\ Transition(m.state, new) = m.state => Moved(m, new) = m
           /\ Transition(m.state, new) # m.state => Moved(m, new).idle = 0
  BY DEF Moved

\* A move leaves machine and file alone, or enters a state and is saved.
Enters(new) ==
    /\ sm'.state = new /\ sm'.idle = 0
    /\ file' = sm' /\ fileAge' = 0

LEMMA HearsMoves ==
    ASSUME NEW new, Hears(new)
    PROVE  UNCHANGED <<sm, file, fileAge>> \/ (pc # "off" /\ Enters(new))
<1>1. CASE pc = "off"
  BY <1>1 DEF Hears
<1>2. CASE pc # "off"
  <2>1. Become(sm, Moved(sm, new))
    BY <1>2 DEF Hears
  <2>2. CASE Transition(sm.state, new) = sm.state
    BY <2>1, <2>2, MovedState DEF Become
  <2>3. CASE Transition(sm.state, new) # sm.state
    <3>1. Transition(sm.state, new) = new
      BY <2>3, TransitionChoice
    <3> QED
      BY <1>2, <2>1, <2>3, <3>1, MovedState DEF Become, Save, Enters
  <2> QED
    BY <2>2, <2>3
<1> QED
  BY <1>1, <1>2

\* A poll with report r of the machine m, which asks for new.
Polled(r, m, new) ==
    /\ m = Adopted(r.running /\ ~r.crashed)
    /\ Become(m, Moved(m, new))
    /\ quiet' = IF r.running /\ ~r.players THEN quiet ELSE 0
    /\ IF ReachesIdleCheck(m.state, r)
       THEN IF Due(m) THEN new = "STOPPING" /\ pc' = "stopping"
                      ELSE new = m.state /\ pc' = "waiting"
       ELSE new = PollTarget(m.state, r, Overdue(m)) /\ pc' = "waiting"
    /\ pending' = Nothing /\ before' = Nothing /\ world' = world

LEMMA PollsPolled ==
    ASSUME Polls PROVE \E r \in Reports(world) : \E m, new : Polled(r, m, new)
<1> PICK r \in Reports(world) :
        LET m    == Adopted(r.running /\ ~r.crashed)
            idle == ReachesIdleCheck(m.state, r)
            stop == idle /\ Due(m)
        IN /\ Become(m, Moved(m, IF stop THEN "STOPPING"
                                 ELSE IF idle THEN m.state
                                 ELSE PollTarget(m.state, r, Overdue(m))))
           /\ pc' = IF stop THEN "stopping" ELSE "waiting"
           /\ quiet' = IF r.running /\ ~r.players THEN quiet ELSE 0
  BY DEF Polls
<1> DEFINE m    == Adopted(r.running /\ ~r.crashed)
           new  == IF ReachesIdleCheck(m.state, r) /\ Due(m) THEN "STOPPING"
                   ELSE IF ReachesIdleCheck(m.state, r) THEN m.state
                   ELSE PollTarget(m.state, r, Overdue(m))
<1>1. Polled(r, m, new)
  BY DEF Polls, Polled
<1> QED
  BY <1>1

\* After a poll the file is the machine that moved, or what it was where
\* nothing moved.
LEMMA PolledFile ==
    ASSUME NEW r, NEW m, NEW new, Polled(r, m, new)
    PROVE  \/ sm' = m /\ UNCHANGED <<file, fileAge>> /\ Transition(m.state, new) = m.state
           \/ Enters(new) /\ Transition(m.state, new) = new
<1>1. CASE Transition(m.state, new) = m.state
  BY <1>1, MovedState DEF Polled, Become
<1>2. CASE Transition(m.state, new) # m.state
  <2>1. Transition(m.state, new) = new
    BY <1>2, TransitionChoice
  <2> QED
    BY <1>2, <2>1, MovedState DEF Polled, Become, Save, Enters
<1> QED
  BY <1>1, <1>2

\* No poll leaves a machine in UNKNOWN.
LEMMA PollKnows ==
    ASSUME NEW s \in States, NEW r, NEW overdue
    PROVE  Transition(s, PollTarget(s, r, overdue)) # "UNKNOWN"
  BY DEF Transition, ValidTransitions, PollTarget, TargetWhenRunning, TargetWhenHalted, Occupied, Down, States

LEMMA PolledKnows ==
    ASSUME NEW r, NEW m, NEW new, m.state \in States, Polled(r, m, new)
    PROVE  sm'.state # "UNKNOWN"
<1>1. sm'.state = Transition(m.state, new)
  BY MovedState DEF Polled, Become
<1>2. CASE ReachesIdleCheck(m.state, r)
  BY <1>1, <1>2, TransitionChoice DEF Polled, ReachesIdleCheck
<1>3. CASE ~ReachesIdleCheck(m.state, r)
  BY <1>1, <1>3, PollKnows DEF Polled
<1> QED
  BY <1>2, <1>3

\* A poll that finds the server down, crashed or played leaves no machine in
\* IDLE.
LEMMA PollEndsIdle ==
    ASSUME NEW s \in States, NEW r \in Stats, NEW overdue, ~r.running \/ r.crashed \/ r.players
    PROVE  Transition(s, PollTarget(s, r, overdue)) # "IDLE"
  BY DEF Transition, ValidTransitions, PollTarget, TargetWhenRunning, TargetWhenHalted, Occupied, Down, States, Stats

(***************************************************************************)
(* Machine, file and what waits.                                           *)
(***************************************************************************)

Inv == TypeInv /\ RunInv /\ FileInv

LEMMA InitInv == Init => Inv
  BY InitTypes DEF Init, Inv, RunInv, FileInv, Fresh

\* Where nothing happens behind the watcher's back, the machine hears of it, or
\* nothing at all.
LEMMA WorldHeard ==
    ASSUME Inv, "behind" \notin Env,
           LoginStarts \/ CraftyStops \/ ConsoleStarts \/ ConsoleStops \/ Crashes
    PROVE  /\ pc # "off" /\ pending = Nothing /\ pending' = Nothing
           /\ pc' \in {pc, "stopCalled"} /\ (pc' # pc => pc = "stopping")
           /\ \/ UNCHANGED <<sm, file, fileAge>>
              \/ \E new \in {"STARTING", "STOPPED", "CRASHED"} : Enters(new)
<1>1. pc # "off" /\ pending = Nothing /\ pending' = pending /\ pc' \in {pc, "stopCalled"} /\ (pc' # pc => pc = "stopping")
  BY DEF Inv, RunInv, LoginStarts, CraftyStops, ConsoleStarts, ConsoleStops, Crashes, Free
<1>2. \/ UNCHANGED <<sm, file, fileAge>>
      \/ \E new \in {"STARTING", "STOPPED", "CRASHED"} : Hears(new)
  BY DEF LoginStarts, CraftyStops, ConsoleStarts, ConsoleStops, Crashes, StartHeard, HaltHeard, Missed
<1> QED
  BY <1>1, <1>2, HearsMoves

LEMMA WorldKeeps ==
    ASSUME Inv, "behind" \notin Env,
           LoginStarts \/ CraftyStops \/ ConsoleStarts \/ ConsoleStops \/ Crashes
    PROVE  RunInv' /\ FileInv'
  BY WorldHeard DEF Inv, RunInv, FileInv, Enters

LEMMA LoginFailsEnters ==
    ASSUME TypeInv, LoginFails
    PROVE  /\ sm'.state \in {sm.state, "STOPPED"} \ {"IDLE"}
           /\ sm' = sm \/ sm'.idle = 0
           /\ sm.state # "UNKNOWN" /\ sm'.state # "UNKNOWN" /\ sm'.state # "IDLE"
           /\ file' = sm' /\ fileAge' = 0
           /\ pc # "off" /\ UNCHANGED <<pc, pending, world, history>>
<1>1. sm.state \in Down /\ sm' = Moved(Moved(sm, "STARTING"), "STOPPED") /\ Save(sm')
      /\ pc # "off" /\ UNCHANGED <<pc, pending, world, history>>
  BY DEF LoginFails
<1>2. /\ \A s \in Down : Transition(s, "STARTING") = "STARTING"
      /\ Transition("STARTING", "STOPPED") = "STOPPED"
  BY DEF Transition, ValidTransitions, Down
<1>3. Moved(sm, "STARTING").state = "STARTING"
  BY <1>1, <1>2, MovedState
<1>4. sm'.state = "STOPPED" /\ sm'.idle = 0
  BY <1>1, <1>2, <1>3, MovedState
<1> QED
  BY <1>1, <1>4 DEF Save, Down

LEMMA StopFailsEnters ==
    ASSUME StopFails
    PROVE  /\ sm'.state \in {sm.state, "IDLE"} /\ sm'.idle = IdleTimeout
           /\ file' = sm' /\ fileAge' = 0 /\ pc' = "waiting"
           /\ UNCHANGED <<pending, world, history>>
<1>1. /\ sm' = [Moved(sm, "IDLE") EXCEPT !.idle = IdleTimeout]
      /\ file' = sm' /\ fileAge' = 0 /\ pc' = "waiting" /\ UNCHANGED <<pending, world, history>>
  BY DEF StopFails, Save
<1>2. sm'.state \in {sm.state, "IDLE"} /\ sm'.idle = IdleTimeout
  BY <1>1, MovedState, TransitionChoice DEF Moved
<1> QED
  BY <1>1, <1>2

\* A poll adopts what waits, or moves the machine it was made.
LEMMA PollsKeep == ASSUME Inv, Polls PROVE RunInv' /\ FileInv'
<1> PICK r \in Reports(world) : \E m, new : Polled(r, m, new)
  BY PollsPolled
<1> PICK m, new : Polled(r, m, new)
  OBVIOUS
<1>1. m.state \in States /\ (m = sm \/ (pending # Nothing /\ m = pending))
  BY DEF Polled, Adopted, Inv, TypeInv, TypeOK, Machines, Kept
<1>2. sm'.state # "UNKNOWN"
  BY <1>1, PolledKnows
<1>3. pending' = Nothing /\ pc' \in {"waiting", "stopping"}
  BY DEF Polled
<1>4. CASE sm' = m /\ UNCHANGED file
  BY <1>1, <1>2, <1>3, <1>4 DEF Inv, RunInv, FileInv
<1>5. CASE file' = sm'
  BY <1>2, <1>3, <1>5 DEF RunInv, FileInv
<1> QED
  BY <1>4, <1>5, PolledFile DEF Enters

LEMMA TickStates ==
    ASSUME TypeInv, Tick
    PROVE  /\ sm'.state = sm.state /\ (fileAge = MaxAge + 1 => fileAge' = fileAge)
           /\ (pending' = Nothing => pending = Nothing)
           /\ (pending = Nothing => pending' = Nothing) /\ (file = Nothing => file' = Nothing)
           /\ pending # Nothing => pending'.state = pending.state
           /\ file # Nothing => file'.state = file.state
<1>1. \A m : (m = Nothing => Aged(m) = Nothing) /\ (Kept(m) => Aged(m).state = m.state)
  BY AgedKept DEF Aged
<1>2. pending # Nothing => pending' # Nothing
  BY AgedKept, NothingAssumption DEF Tick, TypeInv, Kept
<1>3. fileAge = MaxAge + 1 => fileAge' = fileAge
  BY IdleMonitorAssumption DEF Tick, Older
<1> QED
  BY <1>1, <1>2, <1>3 DEF Tick, TypeInv, TypeOK, Kept

LEMMA StepInv == "behind" \notin Env => (Inv /\ [Next]_vars => Inv')
<1> SUFFICES ASSUME "behind" \notin Env, Inv, [Next]_vars PROVE RunInv' /\ FileInv'
  BY StepTypes DEF Inv
<1> USE DEF Inv
<1>1. CASE Asks \/ PollFails \/ StopReturns \/ Plays \/ UNCHANGED vars
  BY <1>1 DEF Asks, PollFails, StopReturns, Plays, RunInv, FileInv, vars, store
<1>2. CASE LoginStarts \/ CraftyStops \/ ConsoleStarts \/ ConsoleStops \/ Crashes
  BY <1>2, WorldKeeps
<1>3. CASE LoginFails
  <2>1. pending = Nothing /\ pending' = Nothing
    BY <1>3 DEF LoginFails, Free
  <2> QED
    BY <1>3, <2>1, LoginFailsEnters DEF RunInv, FileInv
<1>4. CASE StopFails
  <2>1. pending = Nothing /\ pending' = Nothing /\ sm.state # "UNKNOWN"
    BY <1>4, StopFailsEnters DEF StopFails, RunInv
  <2> QED
    BY <1>4, <2>1, StopFailsEnters DEF RunInv, FileInv
<1>5. CASE Ends
  BY <1>5 DEF Ends, RunInv, FileInv, Fresh
<1>6. CASE Begins
  <2>1. fileAge <= MaxAge \/ fileAge = MaxAge + 1
    BY IdleMonitorAssumption DEF TypeInv, TypeOK
  <2> QED
    BY <1>6, <2>1 DEF Begins, RunInv, FileInv
<1>7. CASE OtherSaves
  BY <1>7 DEF OtherSaves, Save, RunInv, FileInv
<1>8. CASE Tick
  <2>1. UNCHANGED pc
    BY <1>8 DEF Tick
  <2> QED
    BY <1>8, <2>1, TickStates DEF RunInv, FileInv
<1> QED
  BY <1>1, <1>2, <1>3, <1>4, <1>5, <1>6, <1>7, <1>8, PollsKeep DEF Next

(***************************************************************************)
(* A stop is asked of an idle server only.                                 *)
(***************************************************************************)

\* Where nothing happens while no watcher runs, and nothing overtakes a call.  What
\* a running watcher is told of, if anything, is left open.
Calm == {"racing", "behind"} \cap Env = {}

LEMMA ReportTrue ==
    ASSUME NEW r \in Reports(world) PROVE r \in Stats
  BY DEF Reports

\* A machine a poll leaves in IDLE is one of a server that runs unplayed.
LEMMA PolledIdle ==
    ASSUME NEW r \in Reports(world), NEW m, NEW new, m.state \in States, Polled(r, m, new),
           sm'.state = "IDLE"
    PROVE  quiet' = quiet
<1>1. sm'.state = Transition(m.state, new)
  BY MovedState DEF Polled, Become
<1>2. r.running /\ ~r.players
  <2>1. CASE ReachesIdleCheck(m.state, r)
    BY <2>1 DEF ReachesIdleCheck
  <2>2. CASE ~ReachesIdleCheck(m.state, r)
    <3>1. Transition(m.state, PollTarget(m.state, r, Overdue(m))) = "IDLE"
      BY <1>1, <2>2 DEF Polled
    <3> QED
      BY <3>1, PollEndsIdle, ReportTrue DEF Stats
  <2> QED
    BY <2>1, <2>2
<1> QED
  BY <1>2 DEF Polled

LEMMA PolledMachine ==
    ASSUME Inv, NEW r, NEW m, NEW new, Polled(r, m, new)
    PROVE  Kept(m) /\ m.state \in States /\ (m = sm \/ (pending # Nothing /\ m = pending))
  BY DEF Polled, Adopted, Inv, TypeInv, TypeOK, Machines, Kept

LEMMA PollsQuiet == ASSUME Inv, QuietInv, Polls PROVE QuietInv'
<1> PICK r \in Reports(world) : \E m, new : Polled(r, m, new)
  BY PollsPolled
<1> PICK m, new : Polled(r, m, new)
  OBVIOUS
<1>1. Kept(m) /\ m.state \in States /\ (m = sm \/ (pending # Nothing /\ m = pending)) /\ True(m)
  BY PolledMachine DEF QuietInv
<1>2. quiet \in 0 .. IdleTimeout /\ quiet' \in {quiet, 0} /\ pending' = Nothing
  BY DEF Polled, Inv, TypeInv, TypeOK
<1>3. pc' = "stopping" => quiet' = IdleTimeout
  <2> SUFFICES ASSUME pc' = "stopping" PROVE quiet' = IdleTimeout
    OBVIOUS
  <2>1. ReachesIdleCheck(m.state, r) /\ Due(m)
    BY DEF Polled
  <2>2. m.state = "IDLE" /\ m.idle >= IdleTimeout /\ quiet' = quiet /\ m.idle \in 0 .. IdleTimeout
    BY <1>1, <2>1 DEF ReachesIdleCheck, Due, Polled, Kept, Machines
  <2> QED
    BY <1>1, <1>2, <2>2, IdleMonitorAssumption DEF True
<1>4. CASE sm' = m /\ UNCHANGED <<file, fileAge>>
  <2>1. True(sm)'
    BY <1>1, <1>2, <1>4, PolledIdle DEF True
  <2>2. file' # Nothing /\ fileAge' <= MaxAge => True(file)'
    <3> SUFFICES ASSUME file # Nothing, fileAge <= MaxAge, file.state = "IDLE" PROVE True(file)'
      BY <1>4 DEF True
    <3>1. sm'.state = "IDLE"
      BY <1>1, <1>4, PolledKnows DEF Inv, FileInv
    <3> QED
      BY <1>1, <1>4, <3>1, PolledIdle DEF True, QuietInv
  <2> QED
    BY <1>2, <1>3, <2>1, <2>2 DEF QuietInv
<1>5. CASE Enters(new)
  <2>1. True(sm)'
    BY <1>1, <1>2, <1>5, PolledIdle DEF True, Enters
  <2>2. True(file)'
    BY <1>5, <2>1 DEF True, Enters
  <2> QED
    BY <1>2, <1>3, <2>1, <2>2 DEF QuietInv
<1> QED
  BY <1>4, <1>5, PolledFile

\* A halt that the watcher hears of ends an idle clock, in the file too.
LEMMA HaltsHeard ==
    ASSUME Inv, pc # "off", NEW new \in Down, HaltHeard(new)
    PROVE  sm'.state # "IDLE" /\ (file' # Nothing => file'.state # "IDLE")
<1>1. CASE sm.state \in Down
  BY <1>1 DEF HaltHeard, Inv, FileInv, Down
<1>2. CASE sm.state \notin Down
  <2>1. sm.state \in States
    BY DEF Inv, TypeInv, TypeOK, Machines
  <2>2. Transition(sm.state, new) = new /\ new # sm.state
    BY <1>2, <2>1 DEF Transition, ValidTransitions, States, Down
  <2>3. Become(sm, Moved(sm, new)) /\ Moved(sm, new).state = new
    BY <1>2, <2>2, MovedState DEF HaltHeard, Hears
  <2> QED
    BY <2>2, <2>3 DEF Become, Save, Down
<1> QED
  BY <1>1, <1>2

\* A start that the watcher hears of renews what is not an idle clock.
LEMMA StartsHeard ==
    ASSUME Inv, QuietInv, pc # "off", pending = Nothing, StartHeard
    PROVE  True(sm)' /\ (file' # Nothing /\ fileAge' <= MaxAge => True(file)')
<1>1. CASE sm.state = "IDLE"
  BY <1>1 DEF StartHeard, Down, QuietInv, True
<1>2. CASE sm.state # "IDLE" /\ sm.state \in Down
  <2>1. UNCHANGED <<sm, file, fileAge>> \/ Enters("STARTING")
    BY <1>2, HearsMoves DEF StartHeard
  <2> QED
    BY <1>2, <2>1 DEF Enters, True, Inv, FileInv, Down
<1>3. CASE sm.state # "IDLE" /\ sm.state \notin Down
  <2>1. UNCHANGED <<sm, file, fileAge>>
    BY <1>3 DEF StartHeard
  <2>2. file # Nothing /\ fileAge <= MaxAge => file.state # "IDLE"
    BY <1>3, IdleMonitorAssumption DEF Inv, TypeInv, TypeOK, FileInv
  <2> QED
    BY <1>3, <2>1, <2>2 DEF True
<1> QED
  BY <1>1, <1>2, <1>3

LEMMA WorldQuiet ==
    ASSUME Calm, Inv, QuietInv,
           LoginStarts \/ CraftyStops \/ ConsoleStarts \/ ConsoleStops \/ Crashes
    PROVE  QuietInv'
<1>0. "behind" \notin Env /\ "racing" \notin Env
  BY DEF Calm
<1>1. pc # "off" /\ pending = Nothing /\ pending' = Nothing /\ pc' \in {pc, "stopCalled"}
  BY <1>0, WorldHeard
<1>2. CASE UNCHANGED <<sm, file, fileAge, quiet>>
  BY <1>1, <1>2 DEF QuietInv, True
<1>3. CASE pc' # "stopping" /\ StartHeard
  BY <1>1, <1>3, StartsHeard DEF QuietInv
<1>4. CASE pc' # "stopping" /\ (HaltHeard("STOPPED") \/ HaltHeard("CRASHED"))
  <2>1. sm'.state # "IDLE" /\ (file' # Nothing => file'.state # "IDLE")
    BY <1>1, <1>4, HaltsHeard DEF Down
  <2> QED
    BY <1>1, <1>4, <2>1 DEF QuietInv, True
<1>5. LoginStarts \/ ConsoleStarts => pc' # "stopping" /\ (StartHeard \/ Missed)
  BY <1>0 DEF LoginStarts, ConsoleStarts, Free
<1>6. ConsoleStops \/ Crashes =>
        pc' # "stopping" /\ (HaltHeard("STOPPED") \/ HaltHeard("CRASHED") \/ Missed)
  BY <1>0 DEF ConsoleStops, Crashes, Free
<1>7. CraftyStops =>
        pc' # "stopping" /\ (HaltHeard("STOPPED") \/ UNCHANGED <<sm, file, fileAge, quiet>>)
  BY DEF CraftyStops, Missed
<1> QED
  BY <1>2, <1>3, <1>4, <1>5, <1>6, <1>7 DEF Missed

LEMMA TickQuiet == ASSUME Inv, QuietInv, Tick PROVE QuietInv'
<1>1. quiet' = Older(quiet, IdleTimeout) /\ pc' # "stopping" /\ quiet \in 0 .. IdleTimeout
      /\ (fileAge' <= MaxAge => fileAge <= MaxAge)
  BY IdleMonitorAssumption DEF Tick, Older, Inv, TypeInv, TypeOK
<1>2. ASSUME NEW m, Kept(m), True(m), m # Nothing
      PROVE  Aged(m).state = "IDLE" => Aged(m).idle <= quiet'
  <2> SUFFICES ASSUME m.state = "IDLE" PROVE Aged(m).idle <= quiet'
    BY <1>2, AgedKept
  <2>1. Aged(m).idle = Older(m.idle, IdleTimeout) /\ m.idle <= quiet /\ m.idle \in 0 .. IdleTimeout
    BY <1>2, AgedKept DEF True, Kept, Machines
  <2> QED
    BY <1>1, <2>1, IdleMonitorAssumption DEF Older
<1>3. \A m : m = Nothing => Aged(m) = m
  BY DEF Aged
<1>4. True(sm)'
  <2>1. CASE sm = Nothing
    <3>1. sm' = sm /\ quiet' >= quiet /\ sm.idle \in 0 .. IdleTimeout
      BY <1>1, <1>3, <2>1, IdleMonitorAssumption DEF Tick, Older, Inv, TypeInv, TypeOK, Machines
    <3>2. quiet' \in Int
      BY <1>1, IdleMonitorAssumption DEF Older
    <3> QED
      BY <1>1, <3>1, <3>2, IdleMonitorAssumption DEF QuietInv, True
  <2>2. CASE sm # Nothing
    BY <2>2, <1>2 DEF Tick, QuietInv, Inv, TypeInv, TypeOK, Kept, True
  <2> QED
    BY <2>1, <2>2
<1>5. pending' # Nothing => True(pending)'
  BY <1>2, <1>3 DEF Tick, QuietInv, Inv, TypeInv, True
<1>6. file' # Nothing /\ fileAge' <= MaxAge => True(file)'
  BY <1>1, <1>2, <1>3 DEF Tick, QuietInv, Inv, TypeInv, True
<1> QED
  BY <1>1, <1>4, <1>5, <1>6 DEF QuietInv

LEMMA StepQuiet == Calm => (Inv /\ QuietInv /\ [Next]_vars => QuietInv')
<1> SUFFICES ASSUME Calm, Inv, QuietInv, [Next]_vars PROVE QuietInv'
  OBVIOUS
<1>1. CASE Asks \/ PollFails \/ StopReturns \/ UNCHANGED vars
  BY <1>1 DEF Asks, PollFails, StopReturns, QuietInv, True, vars, store, history
<1>2. CASE Plays
  BY <1>2 DEF Plays, QuietInv, True, store, history
<1>3. CASE LoginStarts \/ CraftyStops \/ ConsoleStarts \/ ConsoleStops \/ Crashes
  BY <1>3, WorldQuiet
<1>4. CASE LoginFails
  BY <1>4, LoginFailsEnters DEF QuietInv, True, Inv, history
<1>5. CASE StopFails
  <2>1. pc = "stopping"
    BY <1>5 DEF StopFails, Calm
  <2> QED
    BY <1>5, <2>1, StopFailsEnters, IdleMonitorAssumption DEF QuietInv, True, history
<1>6. CASE Ends \/ Begins \/ OtherSaves
  BY <1>6 DEF Ends, Begins, OtherSaves, Save, QuietInv, True, Fresh, history
<1> QED
  BY <1>1, <1>2, <1>3, <1>4, <1>5, <1>6, PollsQuiet, TickQuiet DEF Next

\* A stop is requested only of a server that was neither started, stopped nor
\* played for the whole timeout as far as a running watcher could know, with any
\* timeouts and over any number of restarts, kills, outages and other servers'
\* saves (_check_idle_shutdown), where nothing happens while no watcher runs or
\* within a call.  Events may be lost, all of them or any: what is lost between
\* two polls is what quiet leaves out.
THEOREM StopsAreOfIdle == ASSUME Calm PROVE Spec => StopsOnlyIdle
<1>1. Init => Inv /\ QuietInv
  BY InitInv DEF Init, QuietInv, True, Fresh
<1>2. Inv /\ QuietInv /\ [Next]_vars => (Inv /\ QuietInv)'
  BY StepInv, StepQuiet DEF Calm
<1>3. (Inv /\ QuietInv)' /\ [Next]_vars => [Requests => quiet = IdleTimeout]_vars
  <2> SUFFICES ASSUME QuietInv', Next, Requests PROVE quiet = IdleTimeout
    OBVIOUS
  <2>1. Polls
    BY DEF Next, Requests, Asks, PollFails, StopReturns, StopFails, LoginStarts, LoginFails, CraftyStops,
           ConsoleStarts, ConsoleStops, Crashes, Plays, Ends, Begins, OtherSaves, Tick
  <2>2. quiet' = IdleTimeout /\ quiet' \in {quiet, 0}
    BY <2>1 DEF QuietInv, Requests, Polls
  <2> QED
    BY <2>2, IdleMonitorAssumption
<1> QED
  BY <1>1, <1>2, <1>3, PTL DEF Spec, StopsOnlyIdle

(***************************************************************************)
(* What StopsOnlyIdle leaves out is only what was lost.                    *)
(***************************************************************************)

\* Where a running watcher is told of everything, an idle clock is of a server
\* that runs.
Seen(m) == m.state = "IDLE" => world \in Running

SeenInv ==
    /\ Seen(sm)
    /\ pending # Nothing => Seen(pending)
    /\ file # Nothing => Seen(file)
    /\ pc = "stopping" => world \in Running

LEMMA PollsSee == ASSUME Inv, SeenInv, Polls PROVE SeenInv'
<1> PICK r \in Reports(world) : \E m, new : Polled(r, m, new)
  BY PollsPolled
<1> PICK m, new : Polled(r, m, new)
  OBVIOUS
<1>1. Kept(m) /\ m.state \in States /\ (m = sm \/ (pending # Nothing /\ m = pending))
  BY PolledMachine
<1>2. pending' = Nothing /\ world' = world /\ r \in Stats /\ (r.running <=> world \in Running)
  BY ReportTrue DEF Polled, Reports, Stats
<1>3. sm'.state = Transition(m.state, new)
  BY MovedState DEF Polled, Become
<1>4. Seen(sm)'
  <2>1. CASE ReachesIdleCheck(m.state, r)
    BY <1>2, <2>1 DEF ReachesIdleCheck, Seen
  <2>2. CASE ~ReachesIdleCheck(m.state, r)
    <3>1. sm'.state = Transition(m.state, PollTarget(m.state, r, Overdue(m)))
      BY <1>3, <2>2 DEF Polled
    <3> QED
      BY <1>1, <1>2, <3>1, PollEndsIdle DEF Seen
  <2> QED
    BY <2>1, <2>2
<1>5. pc' = "stopping" => world' \in Running
  BY <1>2 DEF Polled, ReachesIdleCheck
<1>6. CASE UNCHANGED <<file, fileAge>>
  BY <1>2, <1>4, <1>5, <1>6 DEF SeenInv, Seen
<1>7. CASE Enters(new)
  BY <1>2, <1>4, <1>5, <1>7 DEF SeenInv, Seen, Enters
<1> QED
  BY <1>6, <1>7, PolledFile

LEMMA WorldSeen ==
    ASSUME Calm, "lossy" \notin Env, Inv, SeenInv,
           LoginStarts \/ CraftyStops \/ ConsoleStarts \/ ConsoleStops \/ Crashes
    PROVE  SeenInv'
<1>0. "behind" \notin Env /\ "racing" \notin Env /\ "lossy" \notin Env
  BY DEF Calm
<1>1. pc # "off" /\ pending = Nothing /\ pending' = Nothing
  BY <1>0, WorldHeard
<1>2. CASE LoginStarts \/ ConsoleStarts
  <2>1. world' \in Running
    BY <1>2 DEF LoginStarts, ConsoleStarts, Running
  <2> QED
    BY <1>1, <2>1 DEF SeenInv, Seen
<1>3. CASE CraftyStops /\ world \notin Running
  BY <1>1, <1>3 DEF CraftyStops, SeenInv, Seen
<1>4. CASE ConsoleStops \/ Crashes \/ (CraftyStops /\ world \in Running)
  <2>1. HaltHeard("STOPPED") \/ HaltHeard("CRASHED")
    BY <1>0, <1>4 DEF ConsoleStops, Crashes, CraftyStops, Missed
  <2>2. sm'.state # "IDLE" /\ (file' # Nothing => file'.state # "IDLE")
    BY <1>1, <2>1, HaltsHeard DEF Down
  <2>3. pc' # "stopping"
    BY <1>0, <1>4 DEF ConsoleStops, Crashes, CraftyStops, Free
  <2> QED
    BY <1>1, <2>2, <2>3 DEF SeenInv, Seen
<1> QED
  BY <1>2, <1>3, <1>4

LEMMA StepSeen ==
    ASSUME Calm, "lossy" \notin Env, Inv, SeenInv, [Next]_vars PROVE SeenInv'
<1>1. CASE Asks \/ PollFails \/ StopReturns \/ UNCHANGED vars
  BY <1>1 DEF Asks, PollFails, StopReturns, SeenInv, Seen, vars, store
<1>2. CASE Plays
  BY <1>2 DEF Plays, SeenInv, Seen, store, Running
<1>3. CASE LoginStarts \/ CraftyStops \/ ConsoleStarts \/ ConsoleStops \/ Crashes
  BY <1>3, WorldSeen
<1>4. CASE LoginFails
  BY <1>4, LoginFailsEnters DEF SeenInv, Seen, Inv
<1>5. CASE StopFails
  BY <1>5, StopFailsEnters DEF StopFails, Calm, SeenInv, Seen
<1>6. CASE Ends \/ Begins \/ OtherSaves
  BY <1>6 DEF Ends, Begins, OtherSaves, Save, SeenInv, Seen, Fresh
<1>7. CASE Tick
  <2>1. world' = world /\ pc' = pc
    BY <1>7 DEF Tick
  <2> QED
    BY <1>7, <2>1, TickStates DEF SeenInv, Seen, Inv
<1> QED
  BY <1>1, <1>2, <1>3, <1>4, <1>5, <1>6, <1>7, PollsSee DEF Next

\* Where every event is told, StopsOnlyIdle leaves nothing out: each start of the
\* server renews quiet, so that a stop is of a server that has run unplayed for
\* the whole timeout (release_for_start ignores no start then).
THEOREM StartsRenewQuiet ==
    ASSUME Calm, "lossy" \notin Env
    PROVE  Spec => [][world # "booting" /\ world' = "booting" => quiet' = 0]_vars
<1>1. Init => Inv /\ SeenInv
  BY InitInv DEF Init, SeenInv, Seen, Fresh
<1>2. Inv /\ SeenInv /\ [Next]_vars => (Inv /\ SeenInv)'
  BY StepInv, StepSeen DEF Calm
<1>3. Inv /\ SeenInv /\ [Next]_vars => [world # "booting" /\ world' = "booting" => quiet' = 0]_vars
  <2> SUFFICES ASSUME Inv, SeenInv, Next, world # "booting", world' = "booting" PROVE quiet' = 0
    OBVIOUS
  <2>1. LoginStarts \/ ConsoleStarts
    BY DEF Next, Asks, Polls, PollFails, StopReturns, StopFails, LoginFails, CraftyStops, ConsoleStops,
           Crashes, Plays, Ends, Begins, OtherSaves, Tick, history
  <2>2. sm.state # "IDLE" /\ StartHeard
    BY <2>1 DEF LoginStarts, ConsoleStarts, Missed, SeenInv, Seen, Down, Running
  <2> QED
    BY <2>2 DEF StartHeard
<1> QED
  BY <1>1, <1>2, <1>3, PTL DEF Spec

(***************************************************************************)
(* A restart goes on with the countdown.                                   *)
(***************************************************************************)

\* Nothing happens behind the watcher's back, no other server saves, and no
\* outage outlasts a snapshot.
Alone == {"behind", "others", "outage"} \cap Env = {}

LEMMA IsMachine ==
    ASSUME TypeInv PROVE sm # Nothing
  BY NothingAssumption DEF TypeInv, TypeOK

LEMMA PollsClock == ASSUME Inv, ClockInv, Polls PROVE ClockInv'
<1> PICK r \in Reports(world) : \E m, new : Polled(r, m, new)
  BY PollsPolled
<1> PICK m, new : Polled(r, m, new)
  OBVIOUS
<1>1. before' = Nothing /\ pending' = Nothing
  BY DEF Polled
<1>2. CASE sm' = m /\ UNCHANGED <<file, fileAge>>
  BY <1>1, <1>2, PolledMachine DEF ClockInv, Carries
<1>3. CASE Enters(new)
  <2>1. sm' # Nothing
    BY StepTypes, IsMachine, NothingAssumption DEF Inv, Next, TypeInv, TypeOK
  <2> QED
    BY <1>1, <1>3, <2>1, IdleMonitorAssumption DEF ClockInv, Carries, Enters
<1> QED
  BY <1>2, <1>3, PolledFile

LEMMA TickClock == ASSUME Alone, Inv, ClockInv, Tick PROVE ClockInv'
<1>1. /\ sm' = Aged(sm) /\ pending' = Aged(pending) /\ file' = Aged(file) /\ before' = Aged(before)
      /\ pc' = pc
  BY DEF Tick
<1>2. fileAge \in Nat /\ (sm.state \in {"UNKNOWN", "IDLE"} => fileAge' <= MaxAge)
  BY IdleMonitorAssumption DEF Tick, Alone, Older, Inv, TypeInv, TypeOK
<1>3. \A m : m = Nothing => Aged(m) = m
  BY DEF Aged
<1>4. ASSUME NEW m, Kept(m), m # Nothing
      PROVE  /\ Aged(m) # Nothing /\ Aged(m).state = m.state
             /\ m.state = "IDLE" => Aged(m).idle = Older(m.idle, IdleTimeout)
  BY <1>4, AgedKept, NothingAssumption DEF Kept
<1>5. Kept(sm) /\ sm # Nothing /\ \A m \in {pending, file, before} : m = Nothing \/ Kept(m)
  BY IsMachine DEF Inv, TypeInv, TypeOK, Kept
<1>6. ASSUME NEW n, Kept(n), n # Nothing, Aged(n).state = "IDLE", Carries(file, n), fileAge' <= MaxAge
      PROVE  Carries(file, Aged(n))'
  BY <1>1, <1>4, <1>5, <1>6 DEF Carries
<1>7. (sm.state = "IDLE" => Carries(file, sm))'
  BY <1>1, <1>2, <1>4, <1>5, <1>6 DEF ClockInv
<1>8. (pending # Nothing => pending = file /\ fileAge <= MaxAge)'
  BY <1>1, <1>2, <1>3 DEF ClockInv, Inv, RunInv
<1>9. ASSUME before' # Nothing, before'.state = "IDLE"
      PROVE  (/\ sm.state = "UNKNOWN" /\ Carries(file, before)
              /\ pc # "off" => Carries(pending, before))'
  <2>1. before # Nothing /\ Kept(before) /\ before.state = "IDLE"
    BY <1>1, <1>3, <1>4, <1>5, <1>9
  <2>2. sm.state = "UNKNOWN" /\ Carries(file, before) /\ (pc # "off" => Carries(pending, before))
    BY <2>1 DEF ClockInv
  <2>3. sm'.state = "UNKNOWN" /\ fileAge' <= MaxAge
    BY <1>1, <1>2, <1>4, <1>5, <2>2
  <2>4. Carries(file, before)'
    BY <1>1, <1>6, <1>9, <2>1, <2>2, <2>3
  <2>5. pc' # "off" => Carries(pending, before)'
    <3> SUFFICES ASSUME pc # "off" PROVE Carries(pending, before)'
      BY <1>1
    <3>1. pending = file
      BY <2>2 DEF Carries, ClockInv
    <3> QED
      BY <1>1, <2>4, <3>1 DEF Carries
  <2> QED
    BY <2>3, <2>4, <2>5
<1> QED
  BY <1>7, <1>8, <1>9 DEF ClockInv

LEMMA StepClock == Alone => (Inv /\ ClockInv /\ [Next]_vars => ClockInv')
<1> SUFFICES ASSUME Alone, Inv, ClockInv, [Next]_vars PROVE ClockInv'
  OBVIOUS
<1>0. "behind" \notin Env /\ "others" \notin Env
  BY DEF Alone
<1>1. CASE Asks \/ PollFails \/ StopReturns \/ Plays \/ UNCHANGED vars
  BY <1>1 DEF Asks, PollFails, StopReturns, Plays, ClockInv, Carries, vars, store, history
<1>2. CASE LoginStarts \/ CraftyStops \/ ConsoleStarts \/ ConsoleStops \/ Crashes
  <2>1. before' = before
    BY <1>2 DEF LoginStarts, CraftyStops, ConsoleStarts, ConsoleStops, Crashes, history
  <2>2. ~(before # Nothing /\ before.state = "IDLE")
    BY <1>0, <1>2, WorldHeard DEF ClockInv, Carries
  <2> QED
    BY <1>0, <1>2, <2>1, <2>2, WorldHeard DEF ClockInv, Carries, Enters
<1>3. CASE LoginFails
  <2>1. pending = Nothing /\ pc # "off" /\ pending' = Nothing /\ before' = before
    BY <1>0, <1>3 DEF LoginFails, Free, history
  <2> QED
    BY <1>3, <2>1, LoginFailsEnters DEF ClockInv, Carries, Inv
<1>4. CASE StopFails
  <2>1. sm.state # "UNKNOWN" /\ pending = Nothing
    BY <1>4 DEF StopFails, Inv, RunInv
  <2>2. sm' # Nothing
    BY StepTypes, IsMachine, NothingAssumption DEF Inv, TypeInv, TypeOK
  <2> QED
    BY <1>4, <2>1, <2>2, StopFailsEnters, IdleMonitorAssumption DEF ClockInv, Carries, history
<1>5. CASE Ends
  BY <1>5, IsMachine DEF Ends, ClockInv, Carries, Fresh, Inv
<1>6. CASE Begins
  BY <1>6 DEF Begins, ClockInv, Carries, history, Inv, RunInv
<1>7. CASE OtherSaves
  BY <1>0, <1>7 DEF OtherSaves
<1> QED
  BY <1>1, <1>2, <1>3, <1>4, <1>5, <1>6, <1>7, PollsClock, TickClock DEF Next

\* The first poll of a run that finds the server as empty as the last run left it
\* goes on with that run's countdown, with any timeouts, after any number of
\* restarts and kills, and with calls of any kind under way (restore, load).
THEOREM RestartsKeepTheClock == ASSUME Alone PROVE Spec => RestartKeepsClock
<1>1. Init => Inv /\ ClockInv
  BY InitInv DEF Init, ClockInv, Fresh
<1>2. Inv /\ ClockInv /\ [Next]_vars => (Inv /\ ClockInv)'
  BY StepInv, StepClock DEF Alone
<1>3. ASSUME Inv, ClockInv, Polls, before # Nothing, world = "empty",
             before.state = "IDLE", before.idle < IdleTimeout
      PROVE  sm'.state = "IDLE" /\ sm'.idle = before.idle
  <2> PICK r \in Reports(world) : \E m, new : Polled(r, m, new)
    BY <1>3, PollsPolled
  <2> PICK m, new : Polled(r, m, new)
    OBVIOUS
  <2>1. pending # Nothing /\ pending.state = "IDLE" /\ pending.idle = before.idle
    BY <1>3 DEF Polls, ClockInv, Carries
  <2>2. r.running /\ ~r.crashed /\ ~r.players
    BY <1>3 DEF Reports, Stats, Running
  <2>3. m = pending
    BY <2>1, <2>2 DEF Polled, Adopted, Stopped, Down
  <2>4. ReachesIdleCheck(m.state, r)
    BY <2>1, <2>2, <2>3 DEF ReachesIdleCheck
  <2>5. ~Due(m)
    <3>1. m.idle < IdleTimeout /\ m.idle \in Int
      BY <1>3, <2>1, <2>3 DEF Inv, TypeInv, Kept, Machines
    <3> QED
      BY <3>1, IdleMonitorAssumption DEF Due
  <2>6. Become(m, Moved(m, m.state)) /\ Transition(m.state, m.state) = m.state
    BY <2>4, <2>5, TransitionChoice DEF Polled
  <2> QED
    BY <2>1, <2>3, <2>6, MovedState DEF Become
<1>4. Inv /\ ClockInv =>
        [Polls /\ before # Nothing /\ world = "empty" /\ quiet' = quiet
           => (before.state = "IDLE" /\ before.idle < IdleTimeout
               => sm'.state = "IDLE" /\ sm'.idle = before.idle)]_vars
  BY <1>3
<1> QED
  BY <1>1, <1>2, <1>4, PTL DEF Spec, RestartKeepsClock
=============================================================================
