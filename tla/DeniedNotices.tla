---------------------------- MODULE DeniedNotices ----------------------------
(***************************************************************************)
(* Refused wake-ups of one server on their way to Discord (notify_denied   *)
(* and _send of webhook.py): at most one message per cooldown, which says  *)
(* how many refusals were held back since the one before.  A message is    *)
(* posted by a thread, so that several may be under way, and may fail.     *)
(***************************************************************************)
EXTENDS Integers, Functions

CONSTANTS
    Cooldown,    \* denied_notify_cooldown_minutes, in ticks
    MaxRefused,  \* bound: refusals
    MaxTicks     \* bound: time

ASSUME DeniedAssumption ==
    Cooldown \in Nat /\ MaxRefused \in Nat \ {0} /\ MaxTicks \in Nat

VARIABLES
    last,      \* age of _denied_last, growing up to Cooldown
    held,      \* _denied_suppressed
    posting,   \* message number |-> refusals it reports, for those under way
    reported,  \* external: the refusals Discord has been told of
    lost,      \* history: the refusals whose message was not delivered
    refused,   \* history: refusals so far
    sent,      \* history: messages so far
    elapsed    \* history: ticks so far

noticesVars == <<last, held, posting, reported, lost, refused, sent, elapsed>>

NoticesTypeOK ==
    /\ last \in 0 .. Cooldown
    /\ held \in 0 .. MaxRefused
    /\ DOMAIN posting \subseteq 1 .. sent
    /\ \A m \in DOMAIN posting : posting[m] \in 1 .. MaxRefused
    /\ reported \in Nat /\ lost \in Nat
    /\ refused \in 0 .. MaxRefused
    /\ sent \in 0 .. refused
    /\ elapsed \in 0 .. MaxTicks

\* No refusal was ever reported: as good as a whole cooldown ago.
NoticesInit ==
    /\ last = Cooldown /\ held = 0 /\ posting = <<>>
    /\ reported = 0 /\ lost = 0 /\ refused = 0 /\ sent = 0 /\ elapsed = 0

\* Mutant: the time of the message is noted once it is through.
RefusedUntimed ==
    /\ refused < MaxRefused /\ refused' = refused + 1
    /\ IF last < Cooldown
       THEN held' = held + 1 /\ UNCHANGED <<last, posting, sent>>
       ELSE /\ held' = 0 /\ sent' = sent + 1
            /\ posting' = [m \in DOMAIN posting \cup {sent'} |->
                             IF m = sent' THEN held + 1 ELSE posting[m]]
            /\ UNCHANGED last
    /\ UNCHANGED <<reported, lost, elapsed>>

\* notify_denied, up to the thread.
Refused ==
    /\ refused < MaxRefused /\ refused' = refused + 1
    /\ IF last < Cooldown
       THEN held' = held + 1 /\ UNCHANGED <<last, posting, sent>>
       ELSE /\ last' = 0 /\ held' = 0 /\ sent' = sent + 1
            /\ posting' = [m \in DOMAIN posting \cup {sent'} |->
                             IF m = sent' THEN held + 1 ELSE posting[m]]
    /\ UNCHANGED <<reported, lost, elapsed>>

Without(m) == [n \in DOMAIN posting \ {m} |-> posting[n]]

\* _send: the post is made ...
Posts(m) ==
    /\ posting' = Without(m) /\ reported' = reported + posting[m]
    /\ UNCHANGED <<last, held, lost, refused, sent, elapsed>>

\* ... or not, which is logged.
PostFails(m) ==
    /\ posting' = Without(m) /\ lost' = lost + posting[m]
    /\ UNCHANGED <<last, held, reported, refused, sent, elapsed>>

TimePasses ==
    /\ elapsed < MaxTicks /\ elapsed' = elapsed + 1
    /\ last' = IF last < Cooldown THEN last + 1 ELSE last
    /\ UNCHANGED <<held, posting, reported, lost, refused, sent>>

NoticesNext ==
    \/ Refused \/ TimePasses
    \/ \E m \in DOMAIN posting : Posts(m) \/ PostFails(m)

NoticesSpec == NoticesInit /\ [][NoticesNext]_noticesVars

(***************************************************************************)
(* Properties.                                                             *)
(***************************************************************************)

UnderWay == FoldFunction(+, 0, posting)

\* A scanner cannot flood the channel: n messages take n - 1 cooldowns.
RateLimited == sent > 0 => (sent - 1) * Cooldown <= elapsed

\* Every refusal is in one place: told of, counted for the next message, on
\* its way in a message, or gone with a message that was not delivered, and
\* with nothing else (notify_denied counts, clears and posts in this order).
Accounted == reported + held + UnderWay + lost = refused
==============================================================================
