---------------------------- MODULE MCLoginGate ----------------------------
(* LoginGate for TLC: settings with a file and a name beside it, and with    *)
(* names only, or with the whitelist off.                                    *)
EXTENDS LoginGate

CONSTANTS p1, p2

Settings ==
    {[on |-> TRUE, file |-> TRUE, extra |-> {p2}], [on |-> TRUE, file |-> FALSE, extra |-> {p1}],
     [on |-> FALSE, file |-> TRUE, extra |-> {}]}
=============================================================================
