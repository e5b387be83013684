------------------------------ MODULE PortLease ------------------------------
(***************************************************************************)
(* What the lockout of proxy_listener.py promises about a game port, with  *)
(* no sockets, tasks, handlers or polls in it.  The port is held by nobody, *)
(* by the watcher or by the server.  A claim reserves it for a server that *)
(* is about to start.  The watcher takes it by deciding, while there is no *)
(* claim, and acquiring later: a claim made between the two is raced.      *)
(***************************************************************************)
EXTENDS TLAPS

VARIABLES
    holder,    \* free, watcher, server
    claimed,   \* reserved for a start: name in _start_lockout
    raced,     \* the claim was made with a decision in flight
    inFlight   \* the watcher has decided and not finished

leaseVars == <<holder, claimed, raced, inFlight>>

LeaseInit ==
    /\ holder \in {"free", "server"}
    /\ claimed = FALSE /\ raced = FALSE /\ inFlight = FALSE

\* The watcher decides to take the port: never under a claim, though it may
\* give the claim up in the same step.
Decide ==
    /\ ~inFlight /\ holder # "watcher"
    /\ inFlight' = TRUE /\ claimed' = FALSE /\ raced' = FALSE
    /\ UNCHANGED holder

Acquire ==
    /\ inFlight /\ holder = "free"
    /\ holder' = "watcher"
    /\ UNCHANGED <<claimed, raced, inFlight>>

\* Done: the port is kept, or was not free.
Finish ==
    /\ inFlight
    /\ inFlight' = FALSE
    /\ UNCHANGED <<holder, claimed, raced>>

GiveBack ==
    /\ holder = "watcher" /\ ~inFlight
    /\ holder' = "free"
    /\ UNCHANGED <<claimed, raced, inFlight>>

\* A start is claimed: what the watcher holds it gives back in the same step,
\* except what it is just acquiring.
Claim ==
    /\ claimed' = TRUE /\ raced' = inFlight
    /\ holder' = IF holder = "watcher" /\ ~inFlight THEN "free" ELSE holder
    /\ UNCHANGED inFlight

Unclaim ==
    /\ claimed' = FALSE /\ raced' = FALSE
    /\ UNCHANGED <<holder, inFlight>>

ServerTakes ==
    /\ holder = "free" /\ holder' = "server"
    /\ UNCHANGED <<claimed, raced, inFlight>>

ServerLeaves ==
    /\ holder = "server" /\ holder' = "free"
    /\ UNCHANGED <<claimed, raced, inFlight>>

LeaseNext ==
    \/ Decide \/ Acquire \/ Finish \/ GiveBack \/ Claim \/ Unclaim
    \/ ServerTakes \/ ServerLeaves

LeaseSpec == LeaseInit /\ [][LeaseNext]_leaseVars

\* A claim that raced nothing keeps the watcher off the port for as long as it
\* stands (what the comment on _start_lockout promises of every claim).
ClaimIsKept == claimed /\ ~raced => holder # "watcher"

\* Inductive: such a claim leaves no decision in flight either.
LeaseInv == claimed /\ ~raced => holder # "watcher" /\ ~inFlight

\* The lease protocol alone gives that promise.
THEOREM LeaseKeepsClaims == LeaseSpec => []ClaimIsKept
<1>1. LeaseInit => LeaseInv
  BY DEF LeaseInit, LeaseInv
<1>2. LeaseInv /\ [LeaseNext]_leaseVars => LeaseInv'
  <2> SUFFICES ASSUME LeaseInv, [LeaseNext]_leaseVars PROVE LeaseInv'
    OBVIOUS
  <2>1. CASE Decide
    BY <2>1, Zenon DEF Decide, LeaseInv
  <2>2. CASE Acquire
    BY <2>2, Zenon DEF Acquire, LeaseInv
  <2>3. CASE Finish
    BY <2>3, Zenon DEF Finish, LeaseInv
  <2>4. CASE GiveBack
    BY <2>4, Zenon DEF GiveBack, LeaseInv
  <2>5. CASE Claim
    BY <2>5, Zenon DEF Claim, LeaseInv
  <2>6. CASE Unclaim
    BY <2>6, Zenon DEF Unclaim, LeaseInv
  <2>7. CASE ServerTakes \/ ServerLeaves
    BY <2>7, Zenon DEF ServerTakes, ServerLeaves, LeaseInv
  <2>8. CASE UNCHANGED leaseVars
    BY <2>8, Zenon DEF leaseVars, LeaseInv
  <2> QED
    BY <2>1, <2>2, <2>3, <2>4, <2>5, <2>6, <2>7, <2>8 DEF LeaseNext
<1>3. LeaseInv => ClaimIsKept
  BY DEF LeaseInv, ClaimIsKept
<1> QED
  BY <1>1, <1>2, <1>3, PTL DEF LeaseSpec
==============================================================================
