--------------------------- MODULE SnapshotProofs ---------------------------
(***************************************************************************)
(* Theorems about SnapshotFile, for any number of transitions, restarts    *)
(* and clock settings, any age limit and any origins of the clock.         *)
(***************************************************************************)
EXTENDS SnapshotFile, TLAPS

\* A snapshot's timestamps are true but for what the clock was set.
Honest(s) ==
    /\ s.since # None =>
         /\ s.began - s.since <= backward
         /\ s.since - s.began <= forward
    /\ s.savedAt - s.at <= forward
    /\ s.at - s.savedAt <= backward

HonestMachine ==
    machine.since # None =>
        /\ machine.began - (machine.since + origin) <= forward
        /\ (machine.since + origin) - machine.began <= backward

ClockInv ==
    /\ HonestMachine
    /\ \A s \in {payload, file, settled} : s \in Snapshots => Honest(s)

\* What a save has in hand at each of its steps; the state file is whole.
SaveInv ==
    /\ step \in Saving => payload \in Snapshots /\ payload.id = machine.id /\ enabled
    /\ step \notin Saving => payload = None /\ tmp = None
    /\ step = "creating" => tmp = None
    /\ step \in {"syncing", "replacing"} => tmp = payload
    /\ step = "replacing" => tmpDisk = payload
    /\ fileDisk = file /\ file # Torn /\ settled # Torn

IInv == TypeOK /\ SaveInv /\ FileIsCurrent /\ ClockInv

USE DEF files, clocks, vars

LEMMA InitIInv == Init => IInv
  BY SnapshotAssumption DEF Init, IInv, TypeOK, SaveInv, FileIsCurrent, ClockInv,
     HonestMachine, Fresh, Machines, NoSnapshots, Saving

\* What Dump makes is a snapshot, and as true as the machine it is made of.
LEMMA DumpIsHonest ==
  ASSUME origin \in Int, now \in Nat, forward \in Nat, backward \in Nat,
         NEW m \in Machines,
         m.since # None =>
            /\ m.began - (m.since + origin) <= forward
            /\ (m.since + origin) - m.began <= backward
  PROVE  Dump(m) \in Snapshots /\ Dump(m).id = m.id /\ Honest(Dump(m))
<1>1. CASE m.since = None
  BY <1>1, SnapshotAssumption DEF Dump, Snapshots, Machines, Honest, Wall, Mono
<1>2. CASE m.since # None
  <2>1. m.since \in Int /\ m.began \in Int
    BY <1>2 DEF Machines
  <2>2. Wall - (Mono - m.since) \in Int /\ Wall \in Int
    BY <2>1 DEF Wall, Mono
  <2>3. /\ Dump(m).since = Wall - (Mono - m.since) /\ Dump(m).began = m.began
        /\ Dump(m).savedAt = Wall /\ Dump(m).at = now /\ Dump(m).id = m.id
        /\ Dump(m) \in Snapshots
    BY <1>2, <2>2 DEF Dump, Snapshots, Machines
  <2>4. /\ m.began - (Wall - (Mono - m.since)) <= backward
        /\ (Wall - (Mono - m.since)) - m.began <= forward
        /\ Wall - now <= forward /\ now - Wall <= backward
    BY <1>2, <2>1 DEF Wall, Mono
  <2> QED BY <2>3, <2>4 DEF Honest
<1> QED BY <1>1, <1>2

\* What Restored makes is a machine, and as true as the snapshot it is made of.
LEMMA RestoredIsHonest ==
  ASSUME origin' \in Int, now \in Nat, forward \in Nat, backward \in Nat,
         now' = now, forward' = forward, backward' = backward,
         NEW s \in Snapshots, Honest(s), machine' = Restored(s)
  PROVE  machine' \in Machines /\ machine'.id = s.id /\ HonestMachine'
<1>1. CASE s.since = None
  BY <1>1, SnapshotAssumption DEF Restored, Snapshots, Machines, HonestMachine
<1>2. CASE s.since # None
  <2>1. s.since \in Int /\ s.began \in Int
    BY <1>2 DEF Snapshots
  <2>2. now - origin' - (Wall - s.since) \in Int
    BY <2>1 DEF Wall
  <2>3. /\ machine'.since = now - origin' - (Wall - s.since) /\ machine'.began = s.began
        /\ machine'.id = s.id /\ machine' \in Machines
    BY <1>2, <2>2 DEF Restored, Snapshots, Machines
  <2>4. /\ s.began - ((now - origin' - (Wall - s.since)) + origin') <= forward
        /\ ((now - origin' - (Wall - s.since)) + origin') - s.began <= backward
    BY <1>2, <2>1 DEF Wall, Honest
  <2> QED BY <2>3, <2>4 DEF HonestMachine
<1> QED BY <1>1, <1>2

LEMMA NextIInv == IInv /\ [Next]_vars => IInv'
<1> SUFFICES ASSUME IInv, [Next]_vars PROVE IInv'
  OBVIOUS
<1> USE SnapshotAssumption DEF IInv, TypeOK, SaveInv, FileIsCurrent, Saving, NoSnapshots
<1>1. CASE Moves
  <2>1. machine' \in Machines /\ machine'.id = moves' /\ HonestMachine'
    <3>1. moves' \in Nat /\ UNCHANGED clocks
      BY <1>1 DEF Moves
    <3>2. CASE machine' = [machine EXCEPT !.id = moves']
      BY <3>1, <3>2 DEF Machines, ClockInv, HonestMachine
    <3>3. CASE machine' = [machine EXCEPT !.id = moves', !.since = None]
      BY <3>1, <3>3 DEF Machines, ClockInv, HonestMachine
    <3>4. CASE machine' = [id |-> moves', since |-> Mono, began |-> now]
      BY <3>1, <3>4 DEF Machines, Mono, HonestMachine
    <3> QED BY <1>1, <3>2, <3>3, <3>4 DEF Moves
  <2>2. Dump(machine') \in Snapshots /\ Dump(machine').id = machine'.id /\ Honest(Dump(machine'))
    BY <1>1, <2>1, DumpIsHonest DEF Moves, HonestMachine
  <2>3. TypeOK'
    BY <1>1, <2>1, <2>2 DEF Moves
  <2>4. SaveInv' /\ FileIsCurrent'
    BY <1>1, <2>1, <2>2 DEF Moves
  <2>5. ClockInv'
    BY <1>1, <2>1, <2>2 DEF Moves, ClockInv, Honest
  <2> QED BY <2>3, <2>4, <2>5
<1>2. CASE Creates
  BY <1>2 DEF Creates, ClockInv, HonestMachine, Honest
<1>3. CASE CreateFails
  BY <1>3 DEF CreateFails, ClockInv, HonestMachine, Honest
<1>4. CASE Writes
  BY <1>4 DEF Writes, ClockInv, HonestMachine, Honest
<1>5. CASE Syncs
  BY <1>5 DEF Syncs, ClockInv, HonestMachine, Honest
<1>6. CASE Replaces
  <2>1. TypeOK' /\ SaveInv' /\ FileIsCurrent'
    BY <1>6 DEF Replaces
  <2>2. ClockInv'
    BY <1>6 DEF Replaces, ClockInv, HonestMachine, Honest
  <2> QED BY <2>1, <2>2
<1>7. CASE Fails
  BY <1>7 DEF Fails, ClockInv, HonestMachine, Honest
<1>8. CASE Cleans
  <2>1. /\ UNCHANGED <<machine, file, fileDisk, settled, clocks, moves>>
        /\ step' = "idle" /\ enabled' = FALSE
        /\ payload' = None /\ tmp' = None /\ tmpDisk' = None
    BY <1>8 DEF Cleans
  <2>2. ClockInv'
    BY <2>1 DEF ClockInv, HonestMachine, Honest
  <2> QED BY <2>1, <2>2
<1>9. CASE Killed
  BY <1>9 DEF Killed, Gone, ClockInv, HonestMachine, Honest
<1>10. CASE Begins
  <2>1. origin' \in Int
    BY <1>10 DEF Begins
  <2>2. CASE machine' = Fresh
    BY <1>10, <2>1, <2>2 DEF Begins, Fresh, Machines, ClockInv, HonestMachine, Honest
  <2>3. CASE Usable(file) /\ machine' = Restored(file)
    <3>1. file \in Snapshots /\ Honest(file)
      BY <2>3 DEF Usable, ClockInv
    <3>2. machine' \in Machines /\ machine'.id = file.id /\ HonestMachine'
      BY <1>10, <2>1, <2>3, <3>1, RestoredIsHonest DEF Begins
    <3>3. TypeOK' /\ SaveInv' /\ FileIsCurrent'
      BY <1>10, <2>1, <2>3, <3>1, <3>2 DEF Begins
    <3>4. ClockInv'
      BY <1>10, <3>2 DEF Begins, ClockInv, Honest
    <3> QED BY <3>3, <3>4
  <2> QED BY <1>10, <2>2, <2>3 DEF Begins
<1>11. CASE Settles
  BY <1>11 DEF Settles, ClockInv, HonestMachine, Honest
<1>12. CASE PowerFails
  BY <1>12 DEF PowerFails, Gone, ClockInv, HonestMachine, Honest
<1>13. CASE Tick
  BY <1>13 DEF Tick, ClockInv, HonestMachine, Honest
<1>14. CASE SetsClock
  <2>1. TypeOK' /\ SaveInv' /\ FileIsCurrent'
    BY <1>14 DEF SetsClock
  <2>2. forward' \in Nat /\ backward' \in Nat /\ forward <= forward' /\ backward <= backward'
    BY <1>14 DEF SetsClock
  <2>3. \A s \in Snapshots : Honest(s) => Honest(s)'
    <3> SUFFICES ASSUME NEW s \in Snapshots, Honest(s) PROVE Honest(s)'
      OBVIOUS
    <3>1. s.since # None => s.since \in Int
      BY DEF Snapshots
    <3>2. s.began \in Int /\ s.savedAt \in Int /\ s.at \in Int
      BY DEF Snapshots
    <3> QED BY <2>2, <3>1, <3>2 DEF Honest
  <2>4. HonestMachine'
    BY <1>14, <2>2 DEF SetsClock, ClockInv, HonestMachine, Machines
  <2> QED BY <1>14, <2>1, <2>3, <2>4 DEF SetsClock, ClockInv
<1>15. CASE UNCHANGED vars
  BY <1>15 DEF ClockInv, HonestMachine, Honest
<1> QED
  BY <1>1, <1>2, <1>3, <1>4, <1>5, <1>6, <1>7, <1>8, <1>9, <1>10, <1>11, <1>12, <1>13, <1>14,
     <1>15 DEF Next

LEMMA Invariance == Spec => []IInv
  BY InitIInv, NextIInv, PTL DEF Spec

(***************************************************************************)
(* The theorems.                                                           *)
(***************************************************************************)

\* Every variable of the state file and its clocks keeps its type.
THEOREM TypeCorrect == Spec => []TypeOK
  BY Invariance, PTL DEF IInv

\* Between saves the state file is what the machines are, unless a save failed.
THEOREM FileStaysCurrent == Spec => []FileIsCurrent
  BY Invariance, PTL DEF IInv

\* A countdown is off by no more than the wall clock was set, over any number
\* of restarts.
THEOREM ClockStaysTrue == Spec => []ClockIsTrue
<1>1. IInv => ClockIsTrue
  BY SnapshotAssumption DEF IInv, TypeOK, Machines, ClockInv, HonestMachine, ClockIsTrue, Mono
<1> QED BY <1>1, Invariance, PTL

\* Nothing older than MaxAge is resumed, but for what the clock was set back.
THEOREM OnlyRecentResumes == Spec => ResumesRecent
<1>1. IInv /\ [Next]_vars =>
        [step = "off" /\ step' = "idle" /\ machine'.id # 0 => now - file.at <= MaxAge + backward]_vars
  <2> SUFFICES ASSUME IInv, Next, step = "off", step' = "idle", machine'.id # 0
               PROVE  now - file.at <= MaxAge + backward
    BY DEF vars
  <2>1. Begins
    BY DEF Next, Moves, Creates, CreateFails, Writes, Syncs, Replaces, Fails, Cleans, Killed,
           Settles, PowerFails, Gone, Tick, SetsClock
  <2>2. Usable(file)
    BY <2>1 DEF Begins, Fresh
  <2>3. file \in Snapshots /\ Honest(file)
    BY <2>2 DEF IInv, TypeOK, ClockInv, Usable
  <2>4. file.savedAt \in Int /\ file.at \in Int
    BY <2>3 DEF Snapshots
  <2> QED BY <2>2, <2>3, <2>4, SnapshotAssumption DEF Usable, Honest, Wall, IInv, TypeOK
<1> QED BY <1>1, Invariance, PTL DEF Spec, ResumesRecent

\* Every step of a save, a restart or a power failure is one of the atomic
\* register, or none.
THEOREM FileImplementsRegister == Spec => ImplementsRegister
<1> USE SnapshotAssumption DEF NoSnapshots
<1>1. Init => Reg!RegisterInit
  BY DEF Init, Fresh, Reg!RegisterInit, IdOf
<1>2. IInv /\ [Next]_vars => [Reg!RegisterNext]_(Reg!registerVars)
  <2> SUFFICES ASSUME IInv, [Next]_vars PROVE [Reg!RegisterNext]_(Reg!registerVars)
    OBVIOUS
  <2> USE DEF Reg!RegisterNext, Reg!registerVars
  <2>1. CASE Moves
    <3>1. moves' = moves + 1 /\ machine'.id = moves'
      <4>1. machine \in Machines
        BY DEF IInv, TypeOK
      <4>2. CASE machine' = [machine EXCEPT !.id = moves']
        BY <2>1, <4>1, <4>2 DEF Moves, Machines
      <4>3. CASE machine' = [machine EXCEPT !.id = moves', !.since = None]
        BY <2>1, <4>1, <4>3 DEF Moves, Machines
      <4>4. CASE machine' = [id |-> moves', since |-> Mono, began |-> now]
        BY <2>1, <4>4 DEF Moves
      <4> QED BY <2>1, <4>2, <4>3, <4>4 DEF Moves
    <3> QED BY <2>1, <3>1 DEF Moves, Reg!Change, IdOf
  <2>2. CASE Replaces
    BY <2>2 DEF Replaces, IInv, TypeOK, SaveInv, Saving, Reg!Put, IdOf
  <2>3. CASE Settles
    BY <2>3 DEF Settles, IInv, SaveInv, Reg!Settle, IdOf
  <2>4. CASE PowerFails
    BY <2>4 DEF PowerFails, Reg!Revert, IdOf
  <2>5. CASE Begins
    <3>1. machine' = Fresh => machine'.id = 0
      BY DEF Fresh
    <3>2. Usable(file) /\ machine' = Restored(file) => machine'.id = IdOf(file)
      BY DEF Usable, Restored, IdOf
    <3> QED BY <2>5, <3>1, <3>2 DEF Begins, Reg!Resume, IdOf
  <2>6. CASE \/ Creates \/ CreateFails \/ Writes \/ Syncs \/ Fails \/ Cleans
             \/ Killed \/ Tick \/ SetsClock \/ UNCHANGED vars
    BY <2>6 DEF Creates, CreateFails, Writes, Syncs, Fails, Cleans, Killed, Tick, SetsClock, IdOf
  <2> QED BY <2>1, <2>2, <2>3, <2>4, <2>5, <2>6 DEF Next
<1> QED BY <1>1, <1>2, Invariance, PTL DEF Spec, ImplementsRegister, Reg!Register
=============================================================================
