---------------------------- MODULE MCIdleMonitor ----------------------------
(***************************************************************************)
(* IdleMonitor for TLC: the environments the runs choose from.             *)
(***************************************************************************)
EXTENDS IdleMonitor

\* An operator and crashes while the watcher runs, whether it is told of them
\* or not, with a watcher that is shut down between polls and started again.
Redeployed == {"console", "lossy", "crash", "restart"}

\* ... and with things that happen while a call is awaited.
Raced == Redeployed \cup {"racing"}

\* Without these: killed in the middle of a call, beside other servers, whose
\* moves are saved too, through long outages of Crafty, and with an operator
\* who restarts the server between two polls.
Hosted == Redeployed \cup {"hasty", "kill", "others", "outage"}
==============================================================================
