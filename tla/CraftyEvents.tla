---------------------------- MODULE CraftyEvents ----------------------------
(***************************************************************************)
(* parse_event (crafty_events.py): which server and which event a body is  *)
(* about.  A JSON value is a node: an object with its fields in order, an  *)
(* array, a string, null, zero (0 or false), or something else.  A text (a *)
(* string's, or a whole body) has its value, the names written in it, and  *)
(* what it holds when it is read as JSON in turn; for the properties it    *)
(* also has the names it has once it is read, in which JSON may escape a   *)
(* letter.                                                                 *)
(***************************************************************************)
EXTENDS Naturals, SequencesExt

CONSTANTS
    KnownEvents,   \* KNOWN_EVENTS, in the order they are looked for
    MaxDepth,      \* _MAX_DEPTH
    Nothing        \* None, no JSON

ASSUME DepthAssumption == MaxDepth \in Nat
ASSUME KnownAssumption == KnownEvents \in Seq(ToSet(KnownEvents))

String(text)   == [kind |-> "string", text |-> text]
Object(fields) == [kind |-> "object", fields |-> fields]
Array(items)   == [kind |-> "array", items |-> items]
Null           == [kind |-> "null"]
Zero           == [kind |-> "zero"]
Scalar         == [kind |-> "scalar"]

\* The values inside an object or an array.
Inside(node) ==
    CASE node.kind = "object" -> [i \in DOMAIN node.fields |-> node.fields[i].value]
      [] node.kind = "array"  -> node.items
      [] OTHER                -> <<>>

\* The nodes of a payload that are a number of levels down.
Level(payload, depth) ==
    LET level[d \in 0 .. depth] ==
          IF d = 0 THEN {payload} ELSE UNION {ToSet(Inside(node)) : node \in level[d - 1]}
    IN level[depth]

\* The strings of a payload down to a depth.
StringsTo(payload, depth) ==
    LET strings[d \in 0 .. depth] ==
          [node \in Level(payload, d) |->
              IF node.kind = "string" THEN <<node.text>>
              ELSE IF d = depth THEN <<>>
              ELSE FlattenSeq([i \in DOMAIN Inside(node) |-> strings[d + 1][Inside(node)[i]]])]
    IN strings[0][payload]

\* Mutant: a level less.
StringsShallow(payload) == StringsTo(payload, MaxDepth - 1)

\* _iter_strings.
Strings(payload) == StringsTo(payload, MaxDepth)

IsObject(node) == node # Nothing /\ node.kind = "object"

\* What a body may hold its objects in, in the order of trust: its strings,
\* and last the body itself.
Objects(payload) ==
    IF payload = Nothing THEN <<>>
    ELSE LET strings == Strings(payload)
         IN Append([i \in DOMAIN strings |-> strings[i].holds], payload)

Get(object, key) ==
    LET at == {i \in DOMAIN object.fields : object.fields[i].key = key}
    IN IF at = {} THEN Nothing ELSE object.fields[CHOOSE i \in at : TRUE].value

\* What a field is if it is a string.
Named(node) == IF node # Nothing /\ node.kind = "string" THEN node.text.is ELSE Nothing

Falsy(node) ==
    \/ node = Nothing \/ node.kind \in {"null", "zero"} \/ Named(node) = ""
    \/ node.kind \in {"object", "array"} /\ Inside(node) = <<>>

IdIn(object)    == Named(Get(object, "server_id"))
EventIn(object) ==
    Named(IF Falsy(Get(object, "event")) THEN Get(object, "event_type") ELSE Get(object, "event"))

\* The first object that has it.
FirstWith(objects, Half(_)) ==
    LET having == {i \in DOMAIN objects : IsObject(objects[i]) /\ Half(objects[i]) # Nothing}
    IN IF having = {} THEN Nothing ELSE Half(objects[Min(having)])

\* Mutant: a server that is not named is any server.
IdsGuessed(body, known) ==
    LET told == FirstWith(Objects(body.holds), IdIn)
    IN IF told # Nothing THEN {told} ELSE known \ {""}

\* The server id, or those a scan in the order of a set may end with.
Ids(body, known) ==
    LET told == FirstWith(Objects(body.holds), IdIn)
    IN IF told # Nothing THEN {told} ELSE (known \ {""}) \cap body.says

Event(body) ==
    LET told == FirstWith(Objects(body.holds), EventIn)
        at   == {i \in DOMAIN KnownEvents : KnownEvents[i] \in body.says}
    IN IF told # Nothing THEN told ELSE IF at = {} THEN Nothing ELSE KnownEvents[Min(at)]

\* What parse_event may return.
Parsed(body, known) ==
    IF Ids(body, known) = {} \/ Event(body) = Nothing THEN {Nothing}
    ELSE [server_id : Ids(body, known), event : {Event(body)}]

(***************************************************************************)
(* What bodies are, for the theorems.                                      *)
(***************************************************************************)

\* The texts of all strings that are not too deep.
TextsIn(payload) ==
    {node.text : node \in {n \in UNION {Level(payload, d) : d \in 0 .. MaxDepth} : n.kind = "string"}}

\* The objects those hold, and the payload if it is one.
Held(payload)      == {o \in {text.holds : text \in TextsIn(payload)} : IsObject(o)}
ObjectsIn(payload) == Held(payload) \cup {o \in {payload} : IsObject(o)}

\* The values in a node are a sequence, and what a body has written in it, or
\* in a field of an object in it, is a name it has.
IsBody(body) ==
    /\ body.says \subseteq body.names
    /\ body.holds # Nothing =>
          /\ \A d \in 0 .. MaxDepth : \A node \in Level(body.holds, d) :
                 Inside(node) \in Seq(ToSet(Inside(node)))
          /\ \A o \in ObjectsIn(body.holds) : \A i \in DOMAIN o.fields :
                 Named(o.fields[i].value) \in body.names \cup {Nothing}
=============================================================================
