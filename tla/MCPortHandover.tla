--------------------------- MODULE MCPortHandover ---------------------------
(***************************************************************************)
(* PortHandover for TLC: the environments the runs choose from, and the    *)
(* symmetry of the connection handlers (sound for the safety runs: nothing *)
(* distinguishes one handler from another).                                *)
(***************************************************************************)
EXTENDS PortHandover, TLC

\* Players, polls, and the watcher's own starts and stops, with or without the
\* event receiver (the Env of PortHandoverProofs!Steady).
Calm == {"lossy"}

\* Everything but the operator.
Unattended == Deeds \ {"console"}

Harsh == Deeds

HandlerSymmetry == Permutations(Clients)
==============================================================================
