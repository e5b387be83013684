---------------------------- MODULE SnapshotFile ----------------------------
(***************************************************************************)
(* The state file of state_store.py and what becomes of it: a save writes  *)
(* a temporary file, forces it to disk and renames it, and each of these   *)
(* steps may fail, be the last one before a kill, or be undone by a power  *)
(* failure.  Timestamps are monotonic in memory and wall-clock in the      *)
(* file, and somebody may set the wall clock at any time.  One machine     *)
(* with one timestamp stands for all of them: they are saved and restored  *)
(* together and converted alike.                                           *)
(***************************************************************************)
EXTENDS Integers

CONSTANTS
    None,       \* no file, no timestamp
    Torn,       \* a file that is empty or half written
    Foreign,    \* a file of another schema, without a time, or no such object
    MaxAge,     \* MAX_SNAPSHOT_AGE_SECONDS, in ticks
    Origins,    \* what the monotonic clock may count from, in true time
    MaxMoves,   \* bound: transitions
    MaxTicks,   \* bound: time
    MaxSet      \* bound: how far the wall clock is set, each way

\* A machine has a monotonic timestamp, a snapshot a wall-clock one, and the
\* time it was saved.  began and at are the same in true time, for the
\* properties.
Machines  == [id : Nat, since : Int \cup {None}, began : Int]
Snapshots == [id : Nat, since : Int \cup {None}, began : Int, savedAt : Int, at : Int]

NoSnapshots == {None, Torn, Foreign}
Fresh == [id |-> 0, since |-> None, began |-> 0]

ASSUME SnapshotAssumption ==
    /\ MaxAge \in Nat /\ MaxMoves \in Nat /\ MaxTicks \in Nat /\ MaxSet \in Nat
    /\ Origins \subseteq Int /\ Origins # {}
    /\ None \notin Int
    /\ Torn # None /\ Foreign # None /\ Torn # Foreign
    /\ \A f \in NoSnapshots : f \notin Snapshots

VARIABLES
    step,      \* off, idle (between saves), or the next step of the save under way:
               \* creating, writing, syncing, replacing, cleaning
    enabled,   \* _enabled
    machine,   \* the machines: how many moves made them, and a timestamp
    payload,   \* what the save writes
    tmp,       \* the temporary file, as it is in memory ...
    tmpDisk,   \* ... and on disk
    file,      \* the state file in memory
    fileDisk,  \* ... and on disk, by its new name
    settled,   \* what a power failure leaves under that name
    origin,    \* the monotonic clock's zero
    now,       \* external: true time
    forward,   \* external: how far the wall clock was set forward, in all
    backward,  \* external: ... and back
    moves      \* history: transitions so far

files  == <<tmp, tmpDisk, file, fileDisk, settled>>
clocks == <<origin, now, forward, backward>>
vars   == <<step, enabled, machine, payload, files, clocks, moves>>

Saving == {"creating", "writing", "syncing", "replacing", "cleaning"}

Mono == now - origin
Wall == now + forward - backward

TypeOK ==
    /\ step \in {"off", "idle"} \cup Saving
    /\ enabled \in BOOLEAN
    /\ machine \in Machines
    /\ payload \in Snapshots \cup {None}
    /\ {tmp, tmpDisk, file, fileDisk, settled} \subseteq Snapshots \cup NoSnapshots
    /\ origin \in Int /\ now \in Nat /\ forward \in Nat /\ backward \in Nat
    /\ moves \in Nat

\* The watcher is off, with what it finds of a file on its first start.
Init ==
    /\ step = "off" /\ enabled = TRUE
    /\ machine = Fresh /\ payload = None
    /\ tmp = None /\ tmpDisk = None
    /\ file \in {None, Foreign} /\ fileDisk = file /\ settled = file
    /\ moves = 0
    /\ origin \in Origins /\ now = 0 /\ forward = 0 /\ backward = 0

(***************************************************************************)
(* Conversions.                                                            *)
(***************************************************************************)

\* Mutant: saved_at is taken from the machine.
DumpUntimed(m) ==
    [id |-> m.id, since |-> m.since, began |-> m.began, savedAt |-> m.since, at |-> now]

\* Mutant: timestamps are written as they are.
DumpUnconverted(m) ==
    [id |-> m.id, since |-> m.since, began |-> m.began, savedAt |-> Wall, at |-> now]

\* _dump_one, to_wall.
Dump(m) ==
    [id      |-> m.id,
     since   |-> IF m.since = None THEN None ELSE Wall - (Mono - m.since),
     began   |-> m.began,
     savedAt |-> Wall,
     at      |-> now]

\* load, to_mono, by the clock of a new process.
Restored(s) ==
    [id    |-> s.id,
     since |-> IF s.since = None THEN None ELSE now - origin' - (Wall - s.since),
     began |-> s.began]

\* Mutant: the age has no upper end.
UsableEver(s) == s \notin NoSnapshots /\ Wall - s.savedAt >= 0

\* What load accepts.
Usable(s) ==
    /\ s \notin NoSnapshots
    /\ Wall - s.savedAt >= 0
    /\ Wall - s.savedAt <= MaxAge

(***************************************************************************)
(* A save.                                                                 *)
(***************************************************************************)

\* A transition: idle_since and the like stay, are cleared or become now; then
\* on_change calls save.
Moves ==
    /\ step = "idle" /\ moves < MaxMoves
    /\ moves' = moves + 1
    /\ \/ machine' = [machine EXCEPT !.id = moves']
       \/ machine' = [machine EXCEPT !.id = moves', !.since = None]
       \/ machine' = [id |-> moves', since |-> Mono, began |-> now]
    /\ IF enabled THEN step' = "creating" /\ payload' = Dump(machine')
       ELSE UNCHANGED <<step, payload>>
    /\ UNCHANGED <<enabled, files, clocks>>

\* mkdir and mkstemp.
Creates ==
    /\ step = "creating"
    /\ step' = "writing"
    /\ tmp' = Torn /\ tmpDisk' = Torn
    /\ UNCHANGED <<enabled, machine, payload, file, fileDisk, settled, clocks, moves>>

\* ... which fail outside the inner try.
CreateFails ==
    /\ step = "creating"
    /\ step' = "idle" /\ enabled' = FALSE /\ payload' = None
    /\ UNCHANGED <<machine, files, clocks, moves>>

\* json.dump and flush.
Writes ==
    /\ step = "writing"
    /\ step' = "syncing"
    /\ tmp' = payload
    /\ UNCHANGED <<enabled, machine, payload, tmpDisk, file, fileDisk, settled,
                   clocks, moves>>

\* Mutant: without os.fsync.
SyncsNot ==
    /\ step = "syncing"
    /\ step' = "replacing"
    /\ UNCHANGED <<enabled, machine, payload, files, clocks, moves>>

\* os.fsync.
Syncs ==
    /\ step = "syncing"
    /\ step' = "replacing"
    /\ tmpDisk' = tmp
    /\ UNCHANGED <<enabled, machine, payload, tmp, file, fileDisk, settled,
                   clocks, moves>>

\* Mutant: the temporary file is only moved into place by a later save.
ReplacesNot ==
    /\ step = "replacing"
    /\ step' = "idle" /\ payload' = None
    /\ tmp' = None /\ tmpDisk' = None
    /\ UNCHANGED <<enabled, machine, file, fileDisk, settled, clocks, moves>>

\* os.replace.
Replaces ==
    /\ step = "replacing"
    /\ step' = "idle" /\ payload' = None
    /\ file' = tmp /\ fileDisk' = tmpDisk
    /\ tmp' = None /\ tmpDisk' = None
    /\ UNCHANGED <<enabled, machine, settled, clocks, moves>>

\* Any of the three raises, with the temporary file half written or whole.
Fails ==
    /\ step \in {"writing", "syncing", "replacing"}
    /\ step' = "cleaning"
    /\ UNCHANGED <<enabled, machine, payload, files, clocks, moves>>

\* The temporary file is unlinked, or left behind for good if that fails too,
\* and no other save is tried.
Cleans ==
    /\ step = "cleaning"
    /\ step' = "idle" /\ enabled' = FALSE /\ payload' = None
    /\ tmp' = None /\ tmpDisk' = None
    /\ UNCHANGED <<machine, file, fileDisk, settled, clocks, moves>>

(***************************************************************************)
(* A restart, and what happens to the file meanwhile.                      *)
(***************************************************************************)

\* The process is gone, and what it had in hand.
Gone ==
    /\ step' = "off" /\ payload' = None
    /\ tmp' = None /\ tmpDisk' = None

\* Killed, or at its end.
Killed ==
    /\ step # "off"
    /\ Gone
    /\ UNCHANGED <<enabled, machine, file, fileDisk, settled, clocks, moves>>

\* load, and restore at the first poll: refused if the server does not fit it.
Begins ==
    /\ step = "off"
    /\ step' = "idle" /\ enabled' = TRUE
    /\ origin' \in Origins
    /\ \/ machine' = Fresh
       \/ Usable(file) /\ machine' = Restored(file)
    /\ UNCHANGED <<payload, files, now, forward, backward, moves>>

\* external: the directory's new entry reaches the disk.
Settles ==
    /\ settled # fileDisk
    /\ settled' = fileDisk
    /\ UNCHANGED <<step, enabled, machine, payload, tmp, tmpDisk, file, fileDisk,
                   clocks, moves>>

\* external: the power fails, and everything that has not reached the disk is lost.
PowerFails ==
    /\ Gone
    /\ file' = settled /\ fileDisk' = settled
    /\ UNCHANGED <<enabled, machine, settled, clocks, moves>>

\* external: time passes (a save takes none).
Tick ==
    /\ step \in {"off", "idle"} /\ now < MaxTicks
    /\ now' = now + 1
    /\ UNCHANGED <<step, enabled, machine, payload, files, origin, forward, backward, moves>>

\* external: the wall clock is set.
SetsClock ==
    /\ \/ forward < MaxSet /\ forward' = forward + 1 /\ UNCHANGED backward
       \/ backward < MaxSet /\ backward' = backward + 1 /\ UNCHANGED forward
    /\ UNCHANGED <<step, enabled, machine, payload, files, origin, now, moves>>

Next ==
    \/ Moves \/ Creates \/ CreateFails \/ Writes \/ Syncs \/ Replaces \/ Fails \/ Cleans
    \/ Killed \/ Begins
    \/ Settles \/ PowerFails \/ Tick \/ SetsClock

Spec == Init /\ [][Next]_vars

(***************************************************************************)
(* Properties.                                                             *)
(***************************************************************************)

\* Between two saves, and so whenever a kill hits there, the state file is what
\* the machines are, as long as no save failed: the next run takes up where
\* this one was.
FileIsCurrent ==
    step = "idle" /\ enabled /\ machine.id # 0 =>
        file \notin NoSnapshots /\ file.id = machine.id

\* The countdown tells the true time over any number of restarts, but for what
\* the wall clock was set meanwhile: an idle time is too long by no more than
\* it was set forward, and too short by no more than it was set back.
ClockIsTrue ==
    step # "off" /\ machine.since # None =>
        Mono - machine.since \in
            now - machine.began - backward .. now - machine.began + forward

\* Whatever is taken up was saved in the last MaxAge, again but for the clock.
ResumesRecent ==
    [][step = "off" /\ step' = "idle" /\ machine'.id # 0 => now - file.at <= MaxAge + backward]_vars

\* The state file is an atomic register: it changes from one whole snapshot to
\* the next, and a power failure brings back an earlier whole one.
IdOf(f) ==
    IF f = Torn THEN None
    ELSE IF f \in NoSnapshots THEN 0
    ELSE f.id

Reg == INSTANCE SnapshotRegister WITH
    count <- moves, current <- machine.id, value <- IdOf(file), settled <- IdOf(settled)

ImplementsRegister == Reg!Register
=============================================================================
