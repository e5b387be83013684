---------------------------- MODULE AccessControl ----------------------------
(***************************************************************************)
(* Who may wake one server (access_control.py): a copy of the server's     *)
(* whitelist.json that is read again when the file's mtime differs from    *)
(* the copy's, while the Minecraft server, another process, rewrites the   *)
(* file and its mount comes and goes.  A check is one call of is_allowed;  *)
(* between its stat and its read the file may change.                      *)
(***************************************************************************)
EXTENDS Naturals

CONSTANTS
    Players,     \* casefolded names
    Configs,     \* the settings a reload may bring: whether mode is "whitelist",
                 \* whether there is a whitelist_file, and allowed_players
    MaxWrites,   \* bound: how often the file is written
    Garbled,     \* a file that is truncated, half written or not a list
    Undecodable, \* a file that is no UTF-8, or JSON nested too deeply to parse
    Never        \* _mtime = None, and no check under way

ASSUME AccessAssumption ==
    /\ Configs \subseteq [on : BOOLEAN, file : BOOLEAN, extra : SUBSET Players]
    /\ Configs # {} /\ MaxWrites \in Nat
    /\ Never \notin Nat /\ Never \notin Players
    /\ Garbled # Undecodable
    /\ \A list \in SUBSET Players : list \notin {Garbled, Undecodable}

VARIABLES
    cfg,      \* _cfg, _path and _extra
    names,    \* _names
    mtime,    \* _mtime
    check,    \* the check under way, with the mtime it saw, or Never
    answer,   \* what the last check said, and of whom
    content,  \* external: what the file holds
    written,  \* external: the file's mtime, which every write renews
    access,   \* external: the file can be read, only looked at, or is not there
    seen      \* history: the file at every time since the check began

vars == <<cfg, names, mtime, check, answer, content, written, access, seen>>

Lists    == SUBSET Players
Broken   == {Garbled, Undecodable}
Contents == Lists \cup Broken
Times    == 0 .. MaxWrites
Accesses == {"open", "closed", "gone"}
Verdicts == {"allowed", "refused", "raised"}

File == [content |-> content, access |-> access]

\* A read of the file ends in a list of names.
Readable == access = "open" /\ content \notin Broken

TypeOK ==
    /\ cfg \in Configs
    /\ names \notin Broken /\ names \in Lists
    /\ mtime \in Times \cup {Never}
    /\ check \in {Never} \cup [who : Players, mtime : Times]
    /\ answer \in [who : Players \cup {Never}, verdict : Verdicts]
    /\ content \in Contents
    /\ written \in Times
    /\ access \in Accesses
    /\ seen \subseteq [content : Contents, access : Accesses]

Init ==
    /\ cfg \in Configs
    /\ names = {} /\ mtime = Never
    /\ check = Never /\ answer = [who |-> Never, verdict |-> "allowed"]
    /\ content \in Contents /\ written = 0 /\ access \in Accesses
    /\ seen = {}

Answer(p, verdict) == answer' = [who |-> p, verdict |-> verdict]

Verdict(p, list) == IF p \in list THEN "allowed" ELSE "refused"

\* Everyone is let in without a whitelist and without a file for it.
Unfiltered(p) == ~cfg.on \/ p \in cfg.extra \/ ~cfg.file

\* is_allowed and _load_names up to the read: an unchanged file is not read.
Asks(p) ==
    /\ check = Never
    /\ seen' = {File}
    /\ IF Unfiltered(p) \/ access = "gone"
       THEN Answer(p, "allowed") /\ UNCHANGED check
       ELSE IF written = mtime
       THEN Answer(p, Verdict(p, names)) /\ UNCHANGED check
       ELSE check' = [who |-> p, mtime |-> written] /\ Answer(Never, "allowed")
    /\ UNCHANGED <<cfg, names, mtime, content, written, access>>

\* Mutant: whatever was read is taken for the list.
ReadsUnchecked ==
    /\ check # Never
    /\ names' = content /\ mtime' = check.mtime
    /\ Answer(check.who, IF Readable THEN Verdict(check.who, content) ELSE "allowed")
    /\ check' = Never
    /\ UNCHANGED <<cfg, content, written, access, seen>>

\* Mutant: an unreadable file empties the copy.
ReadsClosed ==
    /\ check # Never
    /\ IF Readable
       THEN /\ names' = content /\ mtime' = check.mtime
            /\ Answer(check.who, Verdict(check.who, content))
       ELSE Answer(check.who, "refused") /\ UNCHANGED <<names, mtime>>
    /\ check' = Never
    /\ UNCHANGED <<cfg, content, written, access, seen>>

\* What read_text and json.loads make of a file that is no list: OSError and
\* JSONDecodeError are caught, UnicodeDecodeError (and RecursionError) leave
\* is_allowed.
Fails == IF access = "open" /\ content = Undecodable THEN "raised" ELSE "allowed"

\* The rest of _load_names and of is_allowed.
Reads ==
    /\ check # Never
    /\ IF Readable
       THEN /\ names' = content /\ mtime' = check.mtime
            /\ Answer(check.who, Verdict(check.who, content))
       ELSE Answer(check.who, Fails) /\ UNCHANGED <<names, mtime>>
    /\ check' = Never
    /\ UNCHANGED <<cfg, content, written, access, seen>>

\* Mutant: the list is dropped, its mtime is not.
UpdatesNames ==
    /\ check = Never
    /\ cfg' \in Configs /\ names' = {}
    /\ Answer(Never, "allowed")
    /\ UNCHANGED <<mtime, check, content, written, access, seen>>

\* update(), between checks; the last answer was by the old settings.
Updates ==
    /\ check = Never
    /\ cfg' \in Configs
    /\ names' = {} /\ mtime' = Never
    /\ Answer(Never, "allowed")
    /\ UNCHANGED <<check, content, written, access, seen>>

\* external: the file is truncated or rewritten ...
Observed == seen' = IF check = Never THEN seen ELSE seen \cup {File'}

Writes ==
    /\ written < MaxWrites
    /\ content' \in Contents /\ written' = written + 1
    /\ UNCHANGED access
    /\ Observed
    /\ UNCHANGED <<cfg, names, mtime, check, answer>>

\* ... or its mount or its permissions change, which its mtime does not show.
Mounts ==
    /\ access' \in Accesses \ {access}
    /\ UNCHANGED <<content, written>>
    /\ Observed
    /\ UNCHANGED <<cfg, names, mtime, check, answer>>

Next == (\E p \in Players : Asks(p)) \/ Reads \/ Updates \/ Writes \/ Mounts

Spec == Init /\ [][Next]_vars

(***************************************************************************)
(* Properties.                                                             *)
(***************************************************************************)

\* A copy that carries the file's mtime is the file, however the file changed
\* between the stat and the read that made it.
CopyIsCurrent == mtime = written => names = content

\* What the file must have been for a verdict on p to be the right one.
Justifies(f, p, verdict) ==
    CASE verdict = "raised"  -> f.access = "open" /\ f.content = Undecodable
      [] verdict = "refused" -> f.content \notin Broken /\ p \notin f.content
      [] verdict = "allowed" -> \/ f.access # "open" \/ f.content = Garbled
                                \/ f.content \notin Broken /\ p \in f.content

\* Whoever the whitelist does not concern is let in.  Where there is a file to
\* go by, a player who is refused was off the list, and one who is let in was
\* on it or the file was gone, closed or garbled, at some time during the very
\* check that said so.  (Names in the configuration alone keep nobody out.)
\* The check does not always fail open, as access_control.py:72 has it: an
\* Undecodable file, and nothing else, makes it raise, and the player is neither
\* let in nor refused.
AnswersAreTrue ==
    answer.who # Never =>
        IF Unfiltered(answer.who) THEN answer.verdict = "allowed"
        ELSE \E f \in seen : Justifies(f, answer.who, answer.verdict)
==============================================================================
