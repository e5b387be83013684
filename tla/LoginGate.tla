----------------------------- MODULE LoginGate -----------------------------
(***************************************************************************)
(* From a login to the channel (_handle_login of proxy_listener.py): the   *)
(* whitelist check of AccessControl, the kick of a player who fails it,    *)
(* and the message of DeniedNotices about it.  Handlers wait for the kick  *)
(* to be sent, and leave the message to a task of its own, so that any     *)
(* number of both may be under way.                                        *)
(***************************************************************************)
EXTENDS AccessControl, DeniedNotices

VARIABLES
    turned,     \* history: checks that ended in a refusal
    kicking,    \* handlers that wait until the kick is sent
    spawned,    \* notify_denied tasks that have not run yet
    unsent      \* history: players who were gone before the kick was sent

handlers == <<turned, kicking, spawned, unsent>>
gateVars == <<vars, noticesVars, handlers>>

GateTypeOK ==
    /\ TypeOK /\ NoticesTypeOK
    /\ {turned, kicking, spawned, unsent} \subseteq 0 .. MaxRefused

GateInit ==
    /\ Init /\ NoticesInit
    /\ turned = 0 /\ kicking = 0 /\ spawned = 0 /\ unsent = 0

\* A handler goes on with the answer it gets; one that gets an exception
\* (_handle_client) hangs up, without a kick and without a message.
Goes ==
    /\ IF answer'.who # Never /\ answer'.verdict = "refused"
       THEN turned < MaxRefused /\ turned' = turned + 1 /\ kicking' = kicking + 1
       ELSE UNCHANGED <<turned, kicking>>
    /\ UNCHANGED <<spawned, unsent, noticesVars>>

LoginAsks  == (\E p \in Players : Asks(p)) /\ Goes
LoginReads == Reads /\ Goes

\* The kick is sent, and the message is a task.
Kicks ==
    /\ kicking > 0
    /\ kicking' = kicking - 1 /\ spawned' = spawned + 1
    /\ UNCHANGED <<turned, unsent, vars, noticesVars>>

\* Mutant: the message does not wait for the kick.
KickFailsAfterSpawn ==
    /\ kicking > 0
    /\ kicking' = kicking - 1 /\ spawned' = spawned + 1 /\ unsent' = unsent + 1
    /\ UNCHANGED <<turned, vars, noticesVars>>

\* drain() raises, and there is no message about this player.
KickFails ==
    /\ kicking > 0
    /\ kicking' = kicking - 1 /\ unsent' = unsent + 1
    /\ UNCHANGED <<turned, spawned, vars, noticesVars>>

NoticeRuns ==
    /\ spawned > 0
    /\ spawned' = spawned - 1
    /\ Refused
    /\ UNCHANGED <<turned, kicking, unsent, vars>>

GateNext ==
    \/ LoginAsks \/ LoginReads \/ Kicks \/ KickFails \/ NoticeRuns
    \/ (Updates \/ Writes \/ Mounts) /\ UNCHANGED <<noticesVars, handlers>>
    \/ /\ TimePasses \/ \E m \in DOMAIN posting : Posts(m) \/ PostFails(m)
       /\ UNCHANGED <<vars, handlers>>

GateSpec == GateInit /\ [][GateNext]_gateVars

(***************************************************************************)
(* Properties.                                                             *)
(***************************************************************************)

\* Every player the whitelist turned away is accounted for once, from the
\* check to the channel: about to be kicked, gone before that, waiting for a
\* message, or where Accounted says.
TurnedAreAccounted ==
    /\ Accounted
    /\ turned = kicking + unsent + spawned + reported + held + UnderWay + lost
=============================================================================
