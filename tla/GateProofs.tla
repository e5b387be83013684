----------------------------- MODULE GateProofs -----------------------------
(***************************************************************************)
(* For any cooldown, any number of refusals and ticks and any two          *)
(* whitelists: the messages of DeniedNotices keep their distance, and the  *)
(* login gate is its two parts.  What TypeCorrect, CopyStaysCurrent and    *)
(* AnswersStayTrue say of the whitelist check alone, and                   *)
(* MessagesKeepDistance of the messages, they say of the two together.     *)
(* Then the types of the whole, and that no refusal is lost count of, for  *)
(* which the fold in UnderWay must be a sum.                               *)
(***************************************************************************)
EXTENDS LoginGate, FiniteSetTheorems, TLAPS

(***************************************************************************)
(* The whitelist check alone, for any players, settings and number of      *)
(* writes: its types, that its copy is current when it claims to be, and   *)
(* that every answer was true while it was worked out.                     *)
(***************************************************************************)

\* A copy, and a check under way, are never ahead of the file; the file as it
\* is now has been seen by the check under way, which is about somebody who has
\* to be looked up.
ViewInv ==
    /\ mtime # Never => mtime <= written
    /\ check # Never => check.mtime <= written /\ File \in seen /\ answer.who = Never
                      /\ ~Unfiltered(check.who)

IInv == TypeOK /\ CopyIsCurrent /\ ViewInv /\ AnswersAreTrue

LEMMA InitEstablishes == Init => IInv
<1> SUFFICES ASSUME Init PROVE IInv
  OBVIOUS
<1>1. TypeOK
  BY AccessAssumption DEF Init, TypeOK, Lists, Broken, Times, Verdicts
<1>2. CopyIsCurrent /\ ViewInv
  BY AccessAssumption DEF Init, CopyIsCurrent, ViewInv
<1>3. AnswersAreTrue
  BY AccessAssumption DEF Init, AnswersAreTrue
<1> QED
  BY <1>1, <1>2, <1>3 DEF IInv

\* What a list says is one of the verdicts.
LEMMA VerdictType == ASSUME NEW p, NEW list PROVE Verdict(p, list) \in Verdicts
  BY DEF Verdict, Verdicts

\* An answer keeps its type.
LEMMA AnswerType ==
    ASSUME NEW p \in Players \cup {Never}, NEW verdict \in Verdicts, Answer(p, verdict)
    PROVE  answer' \in [who : Players \cup {Never}, verdict : Verdicts]
  BY DEF Answer

\* What is read of a file is a list of names.
LEMMA ReadIsList == ASSUME TypeOK, Readable PROVE content \in Lists /\ content \notin Broken
  BY DEF TypeOK, Readable, Contents

\* A list that was in the file justifies what it says.
LEMMA ListJustifies ==
    ASSUME NEW f, NEW p, f.content \notin Broken
    PROVE  Justifies(f, p, Verdict(p, f.content))
  BY DEF Justifies, Verdict

LEMMA AnswerIsTrue ==
    ASSUME NEW p, NEW verdict, answer' = [who |-> p, verdict |-> verdict], UNCHANGED cfg,
           \/ Unfiltered(p) /\ verdict = "allowed"
           \/ ~Unfiltered(p) /\ \E f \in seen' : Justifies(f, p, verdict)
    PROVE  AnswersAreTrue'
<1>1. answer'.who = p /\ answer'.verdict = verdict
  OBVIOUS
<1>2. Unfiltered(p)' <=> Unfiltered(p)
  BY DEF Unfiltered
<1> QED
  BY <1>1, <1>2 DEF AnswersAreTrue, Justifies, Broken

(***************************************************************************)
(* One lemma per action.                                                   *)
(***************************************************************************)

LEMMA AsksKeeps == ASSUME IInv, NEW p \in Players, Asks(p) PROVE IInv'
<1> USE DEF IInv
<1>1. File \in [content : Contents, access : Accesses]
  BY DEF TypeOK, File
<1>2. TypeOK'
  <2>1. check' \in {Never} \cup [who : Players, mtime : Times]
    BY DEF Asks, Answer, TypeOK
  <2>2. \E q \in Players \cup {Never}, v \in Verdicts : Answer(q, v)
    BY VerdictType DEF Asks, Verdicts
  <2>3. answer' \in [who : Players \cup {Never}, verdict : Verdicts]
    BY <2>2, AnswerType
  <2> QED
    BY <1>1, <2>1, <2>3 DEF Asks, TypeOK
<1>3. CopyIsCurrent'
  BY DEF Asks, CopyIsCurrent
<1>4. File' = File
  BY DEF Asks, File
<1>5. ViewInv'
  BY <1>4 DEF Asks, Answer, ViewInv, TypeOK, Times, Unfiltered
<1>6. AnswersAreTrue'
  <2>0. UNCHANGED cfg /\ seen' = {File} /\ File.content = content /\ File.access = access
    BY DEF Asks, File
  <2>1. CASE Unfiltered(p)
    <3>1. answer' = [who |-> p, verdict |-> "allowed"]
      BY <2>1 DEF Asks, Answer
    <3> QED
      BY <2>0, <2>1, <3>1, AnswerIsTrue
  <2>2. CASE ~Unfiltered(p) /\ access = "gone"
    <3>1. answer' = [who |-> p, verdict |-> "allowed"]
      BY <2>2 DEF Asks, Answer
    <3>2. Justifies(File, p, "allowed") /\ File \in seen'
      BY <2>0, <2>2 DEF Justifies
    <3> QED
      BY <2>0, <2>2, <3>1, <3>2, AnswerIsTrue
  <2>3. CASE ~Unfiltered(p) /\ access # "gone" /\ written = mtime
    <3>1. names = content /\ content \notin Broken
      BY <2>3 DEF CopyIsCurrent, TypeOK
    <3>2. answer' = [who |-> p, verdict |-> Verdict(p, content)]
      BY <2>3, <3>1 DEF Asks, Answer
    <3>3. Justifies(File, p, Verdict(p, content)) /\ File \in seen'
      BY <2>0, <3>1, ListJustifies
    <3> QED
      BY <2>0, <2>3, <3>2, <3>3, AnswerIsTrue
  <2>4. CASE ~Unfiltered(p) /\ access # "gone" /\ written # mtime
    BY <2>4, AccessAssumption DEF Asks, Answer, AnswersAreTrue
  <2> QED
    BY <2>1, <2>2, <2>3, <2>4
<1> QED
  BY <1>2, <1>3, <1>5, <1>6

LEMMA ReadsKeeps == ASSUME IInv, Reads PROVE IInv'
<1> USE DEF IInv
<1>1. check \in [who : Players, mtime : Times]
  BY DEF Reads, TypeOK
<1>2. TypeOK'
  <2>0. \E v \in Verdicts : Answer(check.who, v)
    BY VerdictType DEF Reads, Fails, Verdicts
  <2>1. answer' \in [who : Players \cup {Never}, verdict : Verdicts]
    BY <1>1, <2>0, AnswerType
  <2>2. names' \notin Broken /\ names' \in Lists /\ mtime' \in Times \cup {Never}
    BY <1>1, ReadIsList DEF Reads, TypeOK
  <2> QED
    BY <1>1, <2>1, <2>2 DEF Reads, TypeOK
<1>3. check.mtime <= written /\ File \in seen
  BY DEF Reads, ViewInv
<1>4. CopyIsCurrent'
  BY DEF Reads, CopyIsCurrent
<1>5. ViewInv'
  BY <1>3 DEF Reads, ViewInv
<1>6. AnswersAreTrue'
  <2> DEFINE w == check.who
  <2>0. File.content = content /\ File.access = access
    BY DEF File
  <2>1. UNCHANGED <<cfg, seen>> /\ ~Unfiltered(w)
    BY DEF Reads, ViewInv
  <2>2. CASE Readable
    <3>1. answer' = [who |-> w, verdict |-> Verdict(w, content)]
      BY <2>2 DEF Reads, Answer
    <3>2. Justifies(File, w, Verdict(w, content)) /\ File \in seen'
      BY <2>0, <2>1, <2>2, <1>3, ListJustifies DEF Readable
    <3> QED
      BY <2>1, <3>1, <3>2, AnswerIsTrue
  <2>3. CASE ~Readable
    <3>1. answer' = [who |-> w, verdict |-> Fails]
      BY <2>3 DEF Reads, Answer
    <3>2. Justifies(File, w, Fails) /\ File \in seen'
      BY <2>0, <2>1, <2>3, <1>3 DEF Justifies, Fails, Readable, Broken
    <3> QED
      BY <2>1, <3>1, <3>2, AnswerIsTrue
  <2> QED
    BY <2>2, <2>3
<1> QED
  BY <1>2, <1>4, <1>5, <1>6

LEMMA UpdatesKeeps == ASSUME IInv, Updates PROVE IInv'
<1> USE DEF IInv
<1>0. answer' = [who |-> Never, verdict |-> "allowed"]
  BY DEF Updates, Answer
<1>1. TypeOK'
  BY <1>0, AccessAssumption DEF Updates, TypeOK, Lists, Broken, Verdicts
<1>2. CopyIsCurrent' /\ ViewInv'
  BY AccessAssumption DEF Updates, CopyIsCurrent, ViewInv, TypeOK, Times
<1>3. AnswersAreTrue'
  BY <1>0 DEF AnswersAreTrue
<1> QED
  BY <1>1, <1>2, <1>3

\* The world: what it does to the file is seen by a check under way, and an
\* answer given before stays as true as it was.
LEMMA WorldKeeps == ASSUME IInv, Writes \/ Mounts PROVE IInv'
<1> USE DEF IInv
<1>1. content' \in Contents /\ written' \in Times /\ access' \in Accesses /\ written' >= written
  BY AccessAssumption DEF Writes, Mounts, TypeOK, Times
<1>2. UNCHANGED <<cfg, names, mtime, check, answer>> /\ Observed
  BY DEF Writes, Mounts
<1>3. File' \in [content : Contents, access : Accesses]
  BY <1>1 DEF File
<1>4. TypeOK'
  BY <1>1, <1>2, <1>3 DEF TypeOK, Observed
<1>5. CopyIsCurrent'
  BY AccessAssumption DEF Writes, Mounts, CopyIsCurrent, ViewInv, TypeOK, Times
<1>6. ViewInv'
  BY <1>1, <1>2, AccessAssumption DEF ViewInv, TypeOK, Times, Observed, Unfiltered
<1>7. AnswersAreTrue'
  BY <1>2 DEF AnswersAreTrue, Unfiltered, Observed
<1> QED
  BY <1>4, <1>5, <1>6, <1>7

LEMMA StepKeeps == IInv /\ [Next]_vars => IInv'
<1> SUFFICES ASSUME IInv, [Next]_vars PROVE IInv'
  OBVIOUS
<1>1. CASE \E p \in Players : Asks(p)
  BY <1>1, AsksKeeps
<1>2. CASE Reads
  BY <1>2, ReadsKeeps
<1>3. CASE Updates
  BY <1>3, UpdatesKeeps
<1>4. CASE Writes \/ Mounts
  BY <1>4, WorldKeeps
<1>5. CASE UNCHANGED vars
  BY <1>5 DEF vars, IInv, TypeOK, CopyIsCurrent, ViewInv, AnswersAreTrue, Unfiltered, File
<1> QED
  BY <1>1, <1>2, <1>3, <1>4, <1>5 DEF Next

(***************************************************************************)
(* Theorems.                                                               *)
(***************************************************************************)

\* IInv holds of every behaviour; the theorems below are its conjuncts.
LEMMA Inductive == Spec => []IInv
  BY InitEstablishes, StepKeeps, PTL DEF Spec

\* Every variable keeps its type (is_allowed, _load_names, update).
THEOREM TypeCorrect == Spec => []TypeOK
<1>1. IInv => TypeOK
  BY DEF IInv
<1> QED
  BY <1>1, Inductive, PTL

\* A copy that carries the file's mtime is the file (_load_names).
THEOREM CopyStaysCurrent == Spec => []CopyIsCurrent
<1>1. IInv => CopyIsCurrent
  BY DEF IInv
<1> QED
  BY <1>1, Inductive, PTL

\* Every answer was the right one at some time during the check: a refusal for
\* a player off the list, leave for one on it or for a file that is gone, closed
\* or garbled, an exception for one that cannot be decoded (is_allowed).
THEOREM AnswersStayTrue == Spec => []AnswersAreTrue
<1>1. IInv => AnswersAreTrue
  BY DEF IInv
<1> QED
  BY <1>1, Inductive, PTL

(***************************************************************************)
(* The messages alone.                                                     *)
(***************************************************************************)

\* Inductive: every message but the latest took a whole cooldown, and the
\* latest is as old as last says, or older.
RateInv ==
    /\ last \in Nat /\ sent \in Nat /\ elapsed \in Nat
    /\ sent > 0 => (sent - 1) * Cooldown + last <= elapsed

LEMMA InitRate == NoticesInit => RateInv
  BY DeniedAssumption DEF NoticesInit, RateInv

\* One more cooldown.
LEMMA OneMore ==
    ASSUME NEW n \in Nat \ {0}, NEW d \in Nat
    PROVE  ((n + 1) - 1) * d = (n - 1) * d + d /\ (n - 1) * d \in Nat
<1>1. PICK k \in Nat : n = k + 1
  <2>1. n - 1 \in Nat /\ n = (n - 1) + 1
    OBVIOUS
  <2> QED
    BY <2>1
<1>2. (k + 1) * d = k * d + d /\ k * d \in Nat
  BY Z3
<1>3. (n + 1) - 1 = k + 1 /\ n - 1 = k
  BY <1>1
<1> QED
  BY <1>2, <1>3

LEMMA RefusedRate == ASSUME RateInv, Refused PROVE RateInv'
<1> USE DeniedAssumption
<1>1. CASE last < Cooldown
  BY <1>1 DEF Refused, RateInv
<1>2. CASE ~(last < Cooldown)
  <2>1. last' = 0 /\ sent' = sent + 1 /\ elapsed' = elapsed
    BY <1>2 DEF Refused
  <2>2. last \in Nat /\ sent \in Nat /\ elapsed \in Nat /\ Cooldown \in Nat /\ Cooldown <= last
    BY <1>2 DEF RateInv
  <2>3. CASE sent = 0
    <3>1. (sent' - 1) * Cooldown = 0
      BY <2>1, <2>2, <2>3
    <3> QED
      BY <2>1, <2>2, <2>3, <3>1 DEF RateInv
  <2>4. CASE sent > 0
    <3>1. (sent' - 1) * Cooldown = (sent - 1) * Cooldown + Cooldown /\ (sent - 1) * Cooldown \in Nat
      BY <2>1, <2>2, <2>4, OneMore
    <3>2. (sent - 1) * Cooldown + last <= elapsed
      BY <2>4 DEF RateInv
    <3>3. (sent' - 1) * Cooldown + last' <= elapsed'
      BY <2>1, <2>2, <3>1, <3>2
    <3> QED
      BY <2>1, <2>2, <3>3 DEF RateInv
  <2> QED
    BY <2>2, <2>3, <2>4
<1> QED
  BY <1>1, <1>2

LEMMA TickRate == ASSUME RateInv, TimePasses PROVE RateInv'
<1>1. last' \in {last, last + 1} /\ sent' = sent /\ elapsed' = elapsed + 1
  BY DEF TimePasses
<1>2. CASE sent = 0
  BY <1>1, <1>2 DEF RateInv
<1>3. CASE sent > 0
  <2>1. (sent - 1) * Cooldown \in Nat
    BY <1>3, OneMore, DeniedAssumption DEF RateInv
  <2> QED
    BY <1>1, <1>3, <2>1 DEF RateInv
<1> QED
  BY <1>2, <1>3 DEF RateInv

LEMMA StepRate == RateInv /\ [NoticesNext]_noticesVars => RateInv'
<1> SUFFICES ASSUME RateInv, [NoticesNext]_noticesVars PROVE RateInv'
  OBVIOUS
<1>1. CASE Refused
  BY <1>1, RefusedRate
<1>2. CASE TimePasses
  BY <1>2, TickRate
<1>3. CASE (\E m \in DOMAIN posting : Posts(m) \/ PostFails(m)) \/ UNCHANGED noticesVars
  <2>1. UNCHANGED <<last, sent, elapsed>>
    BY <1>3 DEF Posts, PostFails, noticesVars
  <2> QED
    BY <2>1 DEF RateInv
<1> QED
  BY <1>1, <1>2, <1>3 DEF NoticesNext

\* n messages take n - 1 cooldowns, however many refusals there are and however
\* many posts are under way or fail (notify_denied).
THEOREM MessagesKeepDistance == NoticesSpec => []RateLimited
<1>1. RateInv => RateLimited
  <2> SUFFICES ASSUME RateInv, sent > 0 PROVE (sent - 1) * Cooldown <= elapsed
    BY DEF RateLimited
  <2>1. (sent - 1) * Cooldown \in Nat
    BY OneMore, DeniedAssumption DEF RateInv
  <2> QED
    BY <2>1 DEF RateInv
<1> QED
  BY <1>1, InitRate, StepRate, PTL DEF NoticesSpec

(***************************************************************************)
(* The two parts together.                                                 *)
(***************************************************************************)

LEMMA StepsAreChecks == GateNext => [Next]_vars
  BY DEF GateNext, LoginAsks, LoginReads, Kicks, KickFails, NoticeRuns, Next

LEMMA StepsAreNotices == GateNext => [NoticesNext]_noticesVars
  BY DEF GateNext, LoginAsks, LoginReads, Goes, Kicks, KickFails, NoticeRuns, NoticesNext

\* Every behaviour of the gate is one of the whitelist check, with whatever
\* handlers and messages do beside it.
THEOREM GateChecks == GateSpec => Spec
<1>1. UNCHANGED gateVars => UNCHANGED vars
  BY DEF gateVars
<1>2. [GateNext]_gateVars => [Next]_vars
  BY <1>1, StepsAreChecks
<1> QED
  BY <1>2, PTL DEF GateSpec, Spec, GateInit

\* Every behaviour of the gate is one of the refusal messages, whoever is
\* turned away and when.
THEOREM GateNotifies == GateSpec => NoticesSpec
<1>1. UNCHANGED gateVars => UNCHANGED noticesVars
  BY DEF gateVars
<1>2. [GateNext]_gateVars => [NoticesNext]_noticesVars
  BY <1>1, StepsAreNotices
<1> QED
  BY <1>2, PTL DEF GateSpec, NoticesSpec, GateInit

\* Inductive: no message reports more than was refused, and every player who
\* was turned away has got to one of four places.
CountsInv ==
    /\ NoticesTypeOK
    /\ held <= refused
    /\ \A m \in DOMAIN posting : posting[m] <= refused
    /\ {turned, kicking, spawned, unsent} \subseteq Nat
    /\ turned <= MaxRefused
    /\ turned = kicking + unsent + spawned + refused

LEMMA InitCounts == GateInit => CountsInv
  BY DeniedAssumption DEF GateInit, NoticesInit, CountsInv, NoticesTypeOK

\* A login asks, reads, or a handler kicks: the messages are not touched.
LEMMA HandlersCount ==
    ASSUME CountsInv, LoginAsks \/ LoginReads \/ Kicks \/ KickFails
    PROVE  CountsInv'
<1>1. UNCHANGED noticesVars
  BY DEF LoginAsks, LoginReads, Goes, Kicks, KickFails
<1>2. /\ {turned', kicking', spawned', unsent'} \subseteq Nat
      /\ turned' <= MaxRefused
      /\ turned' = kicking' + unsent' + spawned' + refused'
  BY <1>1, DeniedAssumption
  DEF CountsInv, NoticesTypeOK, noticesVars, LoginAsks, LoginReads, Goes, Kicks, KickFails
<1> QED
  BY <1>1, <1>2 DEF CountsInv, NoticesTypeOK, noticesVars

LEMMA RefusedCounts == ASSUME CountsInv, NoticeRuns PROVE CountsInv'
<1> USE DeniedAssumption
<1>1. /\ refused' = refused + 1 /\ refused < MaxRefused /\ spawned' = spawned - 1 /\ spawned > 0
      /\ UNCHANGED <<turned, kicking, unsent, reported, lost, elapsed>>
  BY DEF NoticeRuns, Refused
<1>2. refused \in Nat /\ sent \in 0 .. refused /\ held \in 0 .. refused /\ last \in 0 .. Cooldown
  BY DEF CountsInv, NoticesTypeOK
<1>3. CASE last < Cooldown
  <2>1. held' = held + 1 /\ UNCHANGED <<last, posting, sent>>
    BY <1>3 DEF NoticeRuns, Refused
  <2> QED
    BY <1>1, <1>2, <2>1 DEF CountsInv, NoticesTypeOK
<1>4. CASE ~(last < Cooldown)
  <2>1. /\ last' = 0 /\ held' = 0 /\ sent' = sent + 1
        /\ posting' = [m \in DOMAIN posting \cup {sent'} |-> IF m = sent' THEN held + 1 ELSE posting[m]]
    BY <1>4 DEF NoticeRuns, Refused
  <2>2. DOMAIN posting' \subseteq 1 .. sent'
    BY <1>2, <2>1 DEF CountsInv, NoticesTypeOK
  <2>3. ASSUME NEW m \in DOMAIN posting'
        PROVE  posting'[m] \in 1 .. MaxRefused /\ posting'[m] <= refused'
    <3>1. CASE m = sent'
      BY <1>1, <1>2, <2>1, <3>1
    <3>2. CASE m # sent'
      <4>1. m \in DOMAIN posting /\ posting'[m] = posting[m]
        BY <2>1, <3>2
      <4> QED
        BY <1>1, <1>2, <4>1 DEF CountsInv, NoticesTypeOK
    <3> QED
      BY <3>1, <3>2
  <2>4. {turned', kicking', spawned', unsent'} \subseteq Nat /\ turned' = kicking' + unsent' + spawned' + refused'
    BY <1>1, <1>2 DEF CountsInv
  <2> QED
    BY <1>1, <1>2, <2>1, <2>2, <2>3, <2>4 DEF CountsInv, NoticesTypeOK
<1> QED
  BY <1>3, <1>4

\* Time, and the end of a post.
LEMMA PostsCount ==
    ASSUME CountsInv, UNCHANGED handlers,
           TimePasses \/ \E m \in DOMAIN posting : Posts(m) \/ PostFails(m)
    PROVE  CountsInv'
<1>1. CASE TimePasses
  BY <1>1, DeniedAssumption DEF TimePasses, CountsInv, NoticesTypeOK, handlers
<1>2. ASSUME NEW m \in DOMAIN posting, Posts(m) \/ PostFails(m)
      PROVE  CountsInv'
  <2>1. posting' = [n \in DOMAIN posting \ {m} |-> posting[n]] /\ UNCHANGED <<last, held, refused, sent, elapsed>>
    BY <1>2 DEF Posts, PostFails, Without
  <2>2. posting[m] \in Nat
    BY DEF CountsInv, NoticesTypeOK
  <2>3. reported' \in Nat /\ lost' \in Nat
    BY <1>2, <2>2 DEF Posts, PostFails, CountsInv, NoticesTypeOK
  <2> QED
    BY <2>1, <2>3 DEF CountsInv, NoticesTypeOK, handlers
<1> QED
  BY <1>1, <1>2

LEMMA GateStepCounts == CountsInv /\ [GateNext]_gateVars => CountsInv'
<1> SUFFICES ASSUME CountsInv, [GateNext]_gateVars PROVE CountsInv'
  OBVIOUS
<1>1. CASE LoginAsks \/ LoginReads \/ Kicks \/ KickFails
  BY <1>1, HandlersCount
<1>2. CASE NoticeRuns
  BY <1>2, RefusedCounts
<1>3. CASE (TimePasses \/ \E m \in DOMAIN posting : Posts(m) \/ PostFails(m)) /\ UNCHANGED handlers
  BY <1>3, PostsCount
<1>4. CASE UNCHANGED <<noticesVars, handlers>>
  BY <1>4 DEF CountsInv, NoticesTypeOK, noticesVars, handlers
<1> QED
  BY <1>1, <1>2, <1>3, <1>4 DEF GateNext, gateVars

LEMMA CountsHold == GateSpec => []CountsInv
  BY InitCounts, GateStepCounts, PTL DEF GateSpec

\* Every variable of the gate keeps its type: what the cache holds is a list
\* of names, and no count runs past the refusals (_handle_login, notify_denied).
THEOREM GateTypes == GateSpec => []GateTypeOK
<1>1. TypeOK /\ CountsInv => GateTypeOK
  BY DeniedAssumption DEF CountsInv, NoticesTypeOK, GateTypeOK
<1> QED
  BY <1>1, CountsHold, GateChecks, TypeCorrect, PTL

(***************************************************************************)
(* What FoldFunction(+, 0, f) is, for a function with a finite domain:     *)
(* first-order inductions over the size of a set, because the provers      *)
(* cannot instantiate the induction theorems of the library.               *)
(***************************************************************************)

\* The element the library's folds take out of s next.
Pick(s) == CHOOSE x \in s : TRUE

\* g adds f up over every subset of D, the way a fold does.
IsSum(g, f, D) == g = [s \in SUBSET D |-> IF s = {} THEN 0 ELSE f[Pick(s)] + g[s \ {Pick(s)}]]

\* A set of naturals has a least element.
LEMMA LeastExists ==
    ASSUME NEW S, S \subseteq Nat, S # {}
    PROVE  \E x \in S : \A y \in S : x <= y
<1>1. PICK x \in S : \A y \in S : ~ (<<y, x>> \in OpToRel(<, Nat))
  BY NatLessThanWellFounded, WFMin
<1>2. ASSUME NEW y \in S PROVE x <= y
  <2>1. ~(y < x)
    BY <1>1 DEF OpToRel
  <2> QED
    BY <2>1
<1> QED
  BY <1>2

\* It is one of s.
LEMMA PickIn == ASSUME NEW s, s # {} PROVE Pick(s) \in s
  BY DEF Pick

\* A subset without one of its elements is smaller, and a subset still.
LEMMA OneLess ==
    ASSUME NEW D, IsFiniteSet(D), NEW s \in SUBSET D, NEW x \in s
    PROVE  /\ IsFiniteSet(s) /\ Cardinality(s) \in Nat \ {0}
           /\ s \ {x} \in SUBSET D /\ Cardinality(s \ {x}) = Cardinality(s) - 1
<1>1. IsFiniteSet(s)
  BY FS_Subset
<1>2. Cardinality(s) \in Nat /\ Cardinality(s) # 0
  BY <1>1, FS_CardinalityType, FS_EmptySet
<1>3. Cardinality(s \ {x}) = Cardinality(s) - 1
  BY <1>1, FS_RemoveElement
<1> QED
  BY <1>1, <1>2, <1>3

\* Sums exist size by size: over the subsets of no more than n elements ...
UpTo(D, n) == {s \in SUBSET D : Cardinality(s) <= n}

SumsUpTo(g, f, D, n) ==
    g = [s \in UpTo(D, n) |-> IF s = {} THEN 0 ELSE f[Pick(s)] + g[s \ {Pick(s)}]]

\* ... hence over those of one element more ...
LEMMA OneLevelMore ==
    ASSUME NEW f, NEW D, IsFiniteSet(D), NEW n \in Nat, NEW g, SumsUpTo(g, f, D, n)
    PROVE  \E h : SumsUpTo(h, f, D, n + 1)
<1> DEFINE h == [s \in UpTo(D, n + 1) |-> IF s = {} THEN 0 ELSE f[Pick(s)] + g[s \ {Pick(s)}]]
<1>1. ASSUME NEW s \in UpTo(D, n + 1), s # {}
      PROVE  s \ {Pick(s)} \in UpTo(D, n)
  <2>1. Pick(s) \in s /\ s \in SUBSET D /\ Cardinality(s) <= n + 1
    BY <1>1, PickIn DEF UpTo
  <2> QED
    BY <2>1, OneLess DEF UpTo
<1>2. UpTo(D, n) \subseteq UpTo(D, n + 1)
  <2> SUFFICES ASSUME NEW s \in UpTo(D, n) PROVE s \in UpTo(D, n + 1)
    OBVIOUS
  <2>1. s \in SUBSET D /\ Cardinality(s) <= n /\ Cardinality(s) \in Nat
    BY FS_Subset, FS_CardinalityType DEF UpTo
  <2> QED
    BY <2>1 DEF UpTo
<1>3. ASSUME NEW t \in UpTo(D, n) PROVE h[t] = g[t]
  <2>1. h[t] = IF t = {} THEN 0 ELSE f[Pick(t)] + g[t \ {Pick(t)}]
    BY <1>2
  <2>2. g[t] = IF t = {} THEN 0 ELSE f[Pick(t)] + g[t \ {Pick(t)}]
    BY DEF SumsUpTo
  <2> QED
    BY <2>1, <2>2
<1>4. ASSUME NEW s \in UpTo(D, n + 1)
      PROVE  h[s] = IF s = {} THEN 0 ELSE f[Pick(s)] + h[s \ {Pick(s)}]
  BY <1>1, <1>3, <1>4
<1>5. h = [s \in UpTo(D, n + 1) |-> h[s]]
  OBVIOUS
<1> HIDE DEF h
<1>6. SumsUpTo(h, f, D, n + 1)
  BY <1>4, <1>5 DEF SumsUpTo
<1> QED
  BY <1>6

\* ... hence over them all.
LEMMA SumExists ==
    ASSUME NEW f, NEW D, IsFiniteSet(D)
    PROVE  \E g : IsSum(g, f, D)
<1> DEFINE bad == {n \in Nat : ~ \E g : SumsUpTo(g, f, D, n)}
<1>1. \E g : SumsUpTo(g, f, D, 0)
  <2> DEFINE z == [s \in UpTo(D, 0) |-> 0]
  <2>1. \A s \in UpTo(D, 0) : s = {}
    BY OneLess, FS_Subset, FS_CardinalityType, FS_EmptySet DEF UpTo
  <2>2. z = [s \in UpTo(D, 0) |-> IF s = {} THEN 0 ELSE f[Pick(s)] + z[s \ {Pick(s)}]]
    BY <2>1
  <2> QED
    BY <2>2 DEF SumsUpTo
<1>2. bad = {}
  <2> SUFFICES ASSUME bad # {} PROVE FALSE
    OBVIOUS
  <2>1. PICK n \in bad : \A m \in bad : n <= m
    BY LeastExists
  <2>2. n \in Nat /\ n # 0
    BY <1>1
  <2>3. n - 1 \in Nat /\ (n - 1) + 1 = n /\ n - 1 \notin bad
    BY <2>1, <2>2
  <2>4. \E g : SumsUpTo(g, f, D, n - 1)
    BY <2>3
  <2>5. \E g : SumsUpTo(g, f, D, n)
    BY <2>3, <2>4, OneLevelMore
  <2> QED
    BY <2>5
<1>3. UpTo(D, Cardinality(D)) = SUBSET D
  <2>1. \A s \in SUBSET D : Cardinality(s) <= Cardinality(D)
    BY FS_Subset
  <2> QED
    BY <2>1 DEF UpTo
<1>4. Cardinality(D) \in Nat
  BY FS_CardinalityType
<1>5. PICK g : SumsUpTo(g, f, D, Cardinality(D))
  BY <1>2, <1>4
<1> QED
  BY <1>3, <1>5, Zenon DEF SumsUpTo, IsSum

\* What fails for some subset fails for a smallest one.
LEMMA SmallestExists ==
    ASSUME NEW D, IsFiniteSet(D), NEW B, B \subseteq SUBSET D, B # {}
    PROVE  \E s \in B : \A t \in B : Cardinality(s) <= Cardinality(t)
<1> DEFINE sizes == {Cardinality(s) : s \in B}
<1>1. \A s \in B : Cardinality(s) \in Nat
  BY FS_Subset, FS_CardinalityType
<1>2. PICK n \in sizes : \A k \in sizes : n <= k
  <2>1. sizes \subseteq Nat /\ sizes # {}
    BY <1>1
  <2> QED
    BY <2>1, LeastExists
<1> QED
  BY <1>2

\* Naturals add up to a natural.
LEMMA SumIsNat ==
    ASSUME NEW f, NEW D, IsFiniteSet(D), \A x \in D : f[x] \in Nat, NEW g, IsSum(g, f, D)
    PROVE  \A s \in SUBSET D : g[s] \in Nat
<1> DEFINE B == {s \in SUBSET D : g[s] \notin Nat}
<1> SUFFICES ASSUME B # {} PROVE FALSE
  OBVIOUS
<1>1. PICK s \in B : \A t \in B : Cardinality(s) <= Cardinality(t)
  BY SmallestExists
<1>2. g[s] = IF s = {} THEN 0 ELSE f[Pick(s)] + g[s \ {Pick(s)}]
  BY <1>1 DEF IsSum
<1>3. s # {}
  BY <1>1, <1>2
<1>4. Pick(s) \in s /\ Pick(s) \in D
  BY <1>1, <1>3, PickIn
<1>5. s \ {Pick(s)} \in SUBSET D /\ s \ {Pick(s)} \notin B
  BY <1>1, <1>4, OneLess
<1> QED
  BY <1>1, <1>2, <1>3, <1>4, <1>5

\* A sum depends on what is added up, and on nothing else.
LEMMA SumsAgree ==
    ASSUME NEW f, NEW D, IsFiniteSet(D), NEW g, IsSum(g, f, D),
           NEW e, NEW E, E \subseteq D, NEW h, IsSum(h, e, E),
           \A x \in E : f[x] = e[x]
    PROVE  \A s \in SUBSET E : g[s] = h[s]
<1> DEFINE B == {s \in SUBSET E : g[s] # h[s]}
<1> SUFFICES ASSUME B # {} PROVE FALSE
  OBVIOUS
<1>0. IsFiniteSet(E)
  BY FS_Subset
<1>1. PICK s \in B : \A t \in B : Cardinality(s) <= Cardinality(t)
  BY <1>0, SmallestExists
<1>2. /\ g[s] = IF s = {} THEN 0 ELSE f[Pick(s)] + g[s \ {Pick(s)}]
      /\ h[s] = IF s = {} THEN 0 ELSE e[Pick(s)] + h[s \ {Pick(s)}]
  BY <1>1 DEF IsSum
<1>3. s # {}
  BY <1>1, <1>2
<1>4. Pick(s) \in s /\ Pick(s) \in E
  BY <1>1, <1>3, PickIn
<1>5. s \ {Pick(s)} \in SUBSET E /\ s \ {Pick(s)} \notin B
  BY <1>0, <1>1, <1>4, OneLess
<1> QED
  BY <1>1, <1>2, <1>3, <1>4, <1>5

\* Any element may be taken out first, not only the one a fold picks.
LEMMA SumWithout ==
    ASSUME NEW f, NEW D, IsFiniteSet(D), \A x \in D : f[x] \in Nat, NEW g, IsSum(g, f, D),
           NEW r \in SUBSET D, NEW k \in r
    PROVE  g[r] = f[k] + g[r \ {k}]
<1> DEFINE B == {s \in SUBSET D : \E m \in s : g[s] # f[m] + g[s \ {m}]}
<1> SUFFICES ASSUME B # {} PROVE FALSE
  OBVIOUS
<1>1. PICK s \in B : \A t \in B : Cardinality(s) <= Cardinality(t)
  BY SmallestExists
<1>2. PICK m \in s : g[s] # f[m] + g[s \ {m}]
  BY <1>1
<1> DEFINE p == Pick(s)
<1>3. p \in s /\ s \in SUBSET D
  BY <1>1, <1>2, PickIn
<1> HIDE DEF p
<1>4. g[s] = f[p] + g[s \ {p}]
  BY <1>1, <1>2 DEF IsSum, p
<1>5. p # m
  BY <1>2, <1>4
<1>6. ASSUME NEW x \in s
      PROVE  s \ {x} \in SUBSET D /\ \A y \in s \ {x} : g[s \ {x}] = f[y] + g[(s \ {x}) \ {y}]
  <2>1. s \ {x} \in SUBSET D /\ Cardinality(s \ {x}) = Cardinality(s) - 1 /\ Cardinality(s) \in Nat
    BY <1>3, OneLess
  <2>2. s \ {x} \notin B
    BY <1>1, <2>1
  <2> QED
    BY <2>1, <2>2
<1>7. g[s \ {p}] = f[m] + g[(s \ {p}) \ {m}] /\ g[s \ {m}] = f[p] + g[(s \ {m}) \ {p}]
  BY <1>2, <1>3, <1>5, <1>6
<1>8. (s \ {p}) \ {m} = (s \ {m}) \ {p} /\ (s \ {p}) \ {m} \in SUBSET D
  BY <1>3
<1>9. f[p] \in Nat /\ f[m] \in Nat /\ g[(s \ {p}) \ {m}] \in Nat
  BY <1>2, <1>3, <1>8, SumIsNat
<1>10. /\ g[s] = f[p] + (f[m] + g[(s \ {p}) \ {m}])
       /\ f[m] + g[s \ {m}] = f[m] + (f[p] + g[(s \ {p}) \ {m}])
  BY <1>4, <1>7, <1>8, Zenon
<1>11. g[s] = f[m] + g[s \ {m}]
  BY <1>9, <1>10
<1> QED
  BY <1>2, <1>11

\* What the library computes is such a sum ...
LEMMA FoldIsSum ==
    ASSUME NEW f, IsFiniteSet(DOMAIN f)
    PROVE  \E g : IsSum(g, f, DOMAIN f) /\ FoldFunction(+, 0, f) = g[DOMAIN f]
<1> DEFINE g == CHOOSE g : IsSum(g, f, DOMAIN f)
<1>1. IsSum(g, f, DOMAIN f)
  BY SumExists, Zenon
<1>2. FoldFunction(+, 0, f) = g[DOMAIN f]
  BY Zenon DEF FoldFunction, FoldFunctionOnSet, MapThenFoldSet, IsSum, Pick
<1> QED
  BY <1>1, <1>2, Zenon

\* ... so that the fold of an empty function is 0 ...
LEMMA FoldOfNothing ==
    ASSUME NEW f, DOMAIN f = {}
    PROVE  FoldFunction(+, 0, f) = 0
<1>1. PICK g : IsSum(g, f, DOMAIN f) /\ FoldFunction(+, 0, f) = g[DOMAIN f]
  BY FoldIsSum, FS_EmptySet
<1>2. g[{}] = 0
  BY <1>1 DEF IsSum
<1> QED
  BY <1>1, <1>2, Zenon

\* ... and an entry that goes takes its value with it.
LEMMA FoldWithout ==
    ASSUME NEW f, IsFiniteSet(DOMAIN f), \A x \in DOMAIN f : f[x] \in Nat, NEW m \in DOMAIN f,
           NEW e, DOMAIN e = DOMAIN f \ {m}, \A x \in DOMAIN e : e[x] = f[x]
    PROVE  /\ FoldFunction(+, 0, f) = f[m] + FoldFunction(+, 0, e)
           /\ FoldFunction(+, 0, e) \in Nat
<1>0. IsFiniteSet(DOMAIN e) /\ DOMAIN e \subseteq DOMAIN f
  BY FS_Subset
<1>1. PICK g : IsSum(g, f, DOMAIN f) /\ FoldFunction(+, 0, f) = g[DOMAIN f]
  BY FoldIsSum
<1>2. PICK h : IsSum(h, e, DOMAIN e) /\ FoldFunction(+, 0, e) = h[DOMAIN e]
  BY <1>0, FoldIsSum
<1>s. IsSum(g, f, DOMAIN f) /\ IsSum(h, e, DOMAIN e)
  BY <1>1, <1>2, Zenon
<1>3. g[DOMAIN f] = f[m] + g[DOMAIN e]
  BY <1>s, SumWithout
<1>4. g[DOMAIN e] = h[DOMAIN e]
  <2>1. \A s \in SUBSET DOMAIN e : g[s] = h[s]
    <3>1. \A x \in DOMAIN e : f[x] = e[x]
      OBVIOUS
    <3> QED
      BY <1>s, <1>0, <3>1, SumsAgree
  <2> QED
    BY <2>1
<1>5. h[DOMAIN e] \in Nat
  BY <1>0, <1>s, SumIsNat
<1>6. h[DOMAIN e] \in Nat /\ g[DOMAIN f] = f[m] + h[DOMAIN e]
  BY <1>3, <1>4, <1>5
<1> QED
  BY <1>1, <1>2, <1>6, Zenon

(***************************************************************************)
(* Where the refusals go.                                                  *)
(***************************************************************************)

\* Finitely many posts are under way, and each reports a number.
LEMMA PostingIsSmall ==
    ASSUME NoticesTypeOK
    PROVE  IsFiniteSet(DOMAIN posting) /\ \A m \in DOMAIN posting : posting[m] \in Nat
<1>1. DOMAIN posting \in SUBSET (1 .. sent) /\ sent \in Int
  BY DEF NoticesTypeOK
<1>2. IsFiniteSet(1 .. sent)
  BY <1>1, FS_Interval
<1>3. IsFiniteSet(DOMAIN posting)
  BY <1>1, <1>2, FS_Subset
<1> QED
  BY <1>3 DEF NoticesTypeOK

\* The prime goes inside the fold.
LEMMA UnderWayNext == UnderWay' = FoldFunction(+, 0, posting')
  BY Zenon DEF UnderWay, FoldFunction, FoldFunctionOnSet, MapThenFoldSet

\* A post that ends, either way, takes its refusals with it.
LEMMA PostLeaves ==
    ASSUME NoticesTypeOK, NEW m \in DOMAIN posting, posting' = Without(m)
    PROVE  UnderWay = posting[m] + UnderWay' /\ UnderWay' \in Nat
<1>1. /\ DOMAIN Without(m) = DOMAIN posting \ {m}
      /\ \A n \in DOMAIN Without(m) : Without(m)[n] = posting[n]
  BY DEF Without
<1>2. /\ FoldFunction(+, 0, posting) = posting[m] + FoldFunction(+, 0, Without(m))
      /\ FoldFunction(+, 0, Without(m)) \in Nat
  BY <1>1, PostingIsSmall, FoldWithout
<1> QED
  BY <1>2, UnderWayNext, Zenon DEF UnderWay

\* A new message has a number of its own, and adds what it reports.
LEMMA PostJoins ==
    ASSUME NoticesTypeOK, NEW n \in Nat, sent' = sent + 1,
           posting' = [m \in DOMAIN posting \cup {sent'} |-> IF m = sent' THEN n ELSE posting[m]]
    PROVE  UnderWay' = n + UnderWay /\ UnderWay \in Nat
<1>1. sent' \notin DOMAIN posting /\ sent \in Nat
  BY DEF NoticesTypeOK
<1>2. sent' \in DOMAIN posting' /\ posting'[sent'] = n
  OBVIOUS
<1>3. /\ DOMAIN posting = DOMAIN posting' \ {sent'}
      /\ \A m \in DOMAIN posting : posting[m] = posting'[m]
  BY <1>1
<1>4. IsFiniteSet(DOMAIN posting') /\ \A m \in DOMAIN posting' : posting'[m] \in Nat
  <2>1. DOMAIN posting' = DOMAIN posting \cup {sent'}
    OBVIOUS
  <2>2. IsFiniteSet(DOMAIN posting) /\ \A m \in DOMAIN posting : posting[m] \in Nat
    BY PostingIsSmall
  <2>3. IsFiniteSet(DOMAIN posting')
    BY <2>1, <2>2, FS_AddElement
  <2> QED
    BY <2>1, <2>2, <2>3
<1>5. /\ FoldFunction(+, 0, posting') = posting'[sent'] + FoldFunction(+, 0, posting)
      /\ FoldFunction(+, 0, posting) \in Nat
  BY <1>2, <1>3, <1>4, FoldWithout
<1>6. UnderWay' = posting'[sent'] + UnderWay /\ UnderWay \in Nat
  BY <1>5, UnderWayNext, Zenon DEF UnderWay
<1> QED
  BY <1>2, <1>6

\* Nobody has been refused.
LEMMA InitAccounts == NoticesInit => Accounted
<1> SUFFICES ASSUME NoticesInit PROVE Accounted
  OBVIOUS
<1>1. DOMAIN posting = {}
  BY DEF NoticesInit
<1>2. UnderWay = 0
  BY <1>1, FoldOfNothing, Zenon DEF UnderWay
<1> QED
  BY <1>2 DEF NoticesInit, Accounted

\* As long as no post begins or ends.
LEMMA UnderWayStays == ASSUME UNCHANGED posting PROVE UnderWay' = UnderWay
  BY UnderWayNext, Zenon DEF UnderWay

\* A number of refusals, whatever is under way.
LEMMA UnderWayIsNat == ASSUME NoticesTypeOK PROVE UnderWay \in Nat
<1>1. IsFiniteSet(DOMAIN posting) /\ \A m \in DOMAIN posting : posting[m] \in Nat
  BY PostingIsSmall
<1>2. FoldFunction(+, 0, posting) \in Nat
  <2>1. PICK g : IsSum(g, posting, DOMAIN posting) /\ FoldFunction(+, 0, posting) = g[DOMAIN posting]
    BY <1>1, FoldIsSum
  <2>2. IsSum(g, posting, DOMAIN posting)
    BY <2>1, Zenon
  <2>3. g[DOMAIN posting] \in Nat
    BY <1>1, <2>2, SumIsNat
  <2> QED
    BY <2>1, <2>3, Zenon
<1> QED
  BY <1>2, Zenon DEF UnderWay

\* notify_denied counts or posts, _send delivers or loses: each in full.
LEMMA StepAccounts == NoticesTypeOK /\ Accounted /\ [NoticesNext]_noticesVars => Accounted'
<1> SUFFICES ASSUME NoticesTypeOK, Accounted, [NoticesNext]_noticesVars PROVE Accounted'
  OBVIOUS
<1>0. {reported, lost, held, refused, UnderWay} \subseteq Nat
  BY UnderWayIsNat, DeniedAssumption DEF NoticesTypeOK
<1>1. CASE Refused
  <2>1. refused' = refused + 1 /\ UNCHANGED <<reported, lost>>
    BY <1>1 DEF Refused
  <2>2. CASE last < Cooldown
    BY <1>0, <1>1, <2>1, <2>2, UnderWayStays DEF Refused, Accounted
  <2>3. CASE ~(last < Cooldown)
    <3>1. /\ held' = 0 /\ sent' = sent + 1 /\ held + 1 \in Nat
          /\ posting' = [m \in DOMAIN posting \cup {sent'} |-> IF m = sent' THEN held + 1 ELSE posting[m]]
      BY <1>0, <1>1, <2>3 DEF Refused
    <3>2. UnderWay' = (held + 1) + UnderWay
      BY <3>1, PostJoins
    <3> QED
      BY <1>0, <2>1, <3>1, <3>2 DEF Accounted
  <2> QED
    BY <2>2, <2>3
<1>2. CASE TimePasses \/ UNCHANGED noticesVars
  BY <1>2, UnderWayStays DEF TimePasses, noticesVars, Accounted
<1>3. ASSUME NEW m \in DOMAIN posting, Posts(m) \/ PostFails(m) PROVE Accounted'
  <2>1. UnderWay = posting[m] + UnderWay' /\ UnderWay' \in Nat /\ posting[m] \in Nat
    BY <1>3, PostLeaves, PostingIsSmall DEF Posts, PostFails
  <2>2. /\ reported' + lost' = reported + lost + posting[m] /\ reported' \in Nat /\ lost' \in Nat
        /\ UNCHANGED <<held, refused>>
    BY <1>0, <1>3, <2>1 DEF Posts, PostFails
  <2> QED
    BY <1>0, <2>1, <2>2 DEF Accounted
<1> QED
  BY <1>1, <1>2, <1>3 DEF NoticesNext

\* Every player the whitelist turned away is accounted for exactly once, from
\* the check to the channel, whatever kicks and posts fail on the way
\* (_handle_login, notify_denied, _send).
THEOREM GateAccounts == GateSpec => []TurnedAreAccounted
<1>1. CountsInv /\ Accounted => TurnedAreAccounted
  <2> SUFFICES ASSUME CountsInv, Accounted PROVE TurnedAreAccounted
    OBVIOUS
  <2>1. {reported, lost, held, refused, UnderWay} \subseteq Nat
    BY UnderWayIsNat, DeniedAssumption DEF CountsInv, NoticesTypeOK
  <2> QED
    BY <2>1 DEF CountsInv, Accounted, TurnedAreAccounted
<1>2. CountsInv => NoticesTypeOK
  BY DEF CountsInv
<1>3. NoticesSpec /\ []NoticesTypeOK => []Accounted
  BY InitAccounts, StepAccounts, PTL DEF NoticesSpec
<1> QED
  BY <1>1, <1>2, <1>3, CountsHold, GateNotifies, PTL
=============================================================================
