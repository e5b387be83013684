-------------------------- MODULE SnapshotRegister --------------------------
(***************************************************************************)
(* What the state file promises (docstring of state_store.py): a register  *)
(* that is written in one step and whose last value a restart takes up, or *)
(* nothing.  A value that a power failure may still undo is not settled.   *)
(* A value stands for the machines as they were after so many changes, 0   *)
(* for none.                                                               *)
(***************************************************************************)
EXTENDS Naturals

VARIABLES
    count,     \* changes so far
    current,   \* the value of the running watcher
    value,     \* the register
    settled    \* ... as it is after a power failure

registerVars == <<count, current, value, settled>>

RegisterInit == count = 0 /\ current = 0 /\ value = 0 /\ settled = 0

Change == count' = count + 1 /\ current' = count' /\ UNCHANGED <<value, settled>>

Put == value' = current /\ UNCHANGED <<count, current, settled>>

Settle == settled' = value /\ UNCHANGED <<count, current, value>>

Revert == value' = settled /\ UNCHANGED <<count, current, settled>>

\* A restart: from the register or afresh.
Resume == current' \in {0, value} /\ UNCHANGED <<count, value, settled>>

RegisterNext == Change \/ Put \/ Settle \/ Revert \/ Resume

Register == RegisterInit /\ [][RegisterNext]_registerVars
=============================================================================
