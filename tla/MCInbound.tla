------------------------------ MODULE MCInbound ------------------------------
(***************************************************************************)
(* EventReceiver and ClientSession for TLC: what comes in from outside, to *)
(* one port or the other.  Neither shares anything with a second           *)
(* connection, so that one connection is followed at a time.               *)
(***************************************************************************)
EXTENDS EventReceiver, ClientSession

vars == <<receiverVars, sessionVars>>

Init ==
    \/ /\ ReceiverInit
       /\ client = Unheard /\ at = "unused" /\ unread = <<>>
       /\ handshake = Unheard /\ name = Unheard /\ answers = <<>>
    \/ /\ SessionInit
       /\ request = Nothing /\ stage = "unused" /\ body = EmptyText
       /\ event = Nothing /\ call = Nothing /\ reply = 0

Next ==
    \/ ReceiverNext /\ UNCHANGED sessionVars
    \/ SessionNext /\ UNCHANGED receiverVars

Spec == Init /\ [][Next]_vars

(***************************************************************************)
(* Requests.                                                               *)
(***************************************************************************)

Servers == <<[name |-> "a", id |-> "idA"], [name |-> "b", id |-> "idB"]>>
Looked  == <<"start_server", "stop_server", "crash_detected", "backup_server", "kill">>

RECURSIVE TextsOf(_)
TextsOf(node) ==
    IF node.kind = "string" THEN {node.text}
    ELSE UNION {TextsOf(Inside(node)[i]) : i \in DOMAIN Inside(node)}

Word(w)    == String([is |-> w, says |-> {w}, names |-> {w}, holds |-> Nothing])
Escaped(w) == String([is |-> w, says |-> {}, names |-> {w}, holds |-> Nothing])
Field(k, v) == [key |-> k, value |-> v]
Whole(node) ==
    [is |-> "", says |-> UNION {t.says : t \in TextsOf(node)},
     names |-> {""} \cup UNION {t.names : t \in TextsOf(node)}, holds |-> node]

Template(id, key, e) == Object(<<Field("server_id", Word(id)), Field(key, Word(e))>>)

\* A text in a string n levels down.
RECURSIVE Nested(_, _)
Nested(n, node) ==
    IF n = 0 THEN node
    ELSE IF n % 2 = 0 THEN Array(<<Nested(n - 1, node)>>)
    ELSE Object(<<Field("embed", Nested(n - 1, node))>>)

\* What else is in an envelope; the last two hold an object of their own.
Beside == {Word("kill"), Word("idB"), Scalar, Null, Zero, Word(""),
           String(Whole(Object(<<Field("server_id", Word("idB"))>>))),
           String(Whole(Object(<<Field("event", Null)>>)))}
Rivals == {n \in Beside : n.kind = "string" /\ n.text.holds # Nothing}

Heard(id, e) == [server_id |-> id, event |-> e]

\* An envelope as a chat provider makes it.
Envelope(before, n, node, after) ==
    Object(<<Field("title", before), Field("content", Nested(n, node)), Field("footer", after)>>)

Enveloped ==
    {[body    |-> Whole(Envelope(before, n, String(Whole(Template(id, key, e))), after)),
      carries |-> IF before \in Rivals \/ n + 1 > MaxDepth THEN Nothing ELSE Heard(id, e)] :
        before \in Beside, after \in Beside, n \in {0, 1, 4, 5, 6}, id \in {"idA", "idX"},
        key \in {"event", "event_type"}, e \in {"start_server", "stop_server", "backup_server"}}

\* Without one, and by hand.
Bare == {[body |-> Whole(Template(id, "event", e)), carries |-> Heard(id, e)] :
            id \in {"idA", "idB"}, e \in {"kill", "crash_detected"}}
    \cup {[body |-> Whole(Object(<<Field("server_id", Escaped("idA")), Field("event", e)>>)),
           carries |-> Heard("idA", "kill")] : e \in {Word("kill"), Escaped("kill")}}
    \cup {[body |-> Whole(Object(<<Field("server_id", Word("idA")), Field("event", e),
                                  Field("event_type", Word("kill"))>>)),
           carries |-> Heard("idA", "kill")] : e \in {Zero, Null, Word("")}}
ByHand == {[body |-> [is |-> "", says |-> says, names |-> says, holds |-> Nothing], carries |-> Nothing] :
            says \in SUBSET {"idA", "idB", "kill", "start_server", "backup_server"}}

Webhook(b, t, l) ==
    [head |-> "whole", method |-> "POST", route |-> "/events", token |-> t, length |-> l,
     body |-> b.body, carries |-> IF t = "secret" THEN b.carries ELSE Nothing]

Asked ==
    {Webhook(b, "secret", "right") : b \in Enveloped}
    \cup {Webhook(b, t, l) : b \in Bare \cup ByHand,
                t \in {"secret", "guess", "geheim", ""}, l \in {"right", "long", "none"}}
    \cup [head : {"whole", "short", "broken"}, method : {"GET", "POST", "PUT"},
          route : {"/health", "/events", "/nowhere"}, token : {"secret"}, length : {"none"},
          body : {EmptyText}, carries : {Nothing}]

\* Every request that carries a template is unrivalled; with a rival before it, it
\* would not be.
ASSUME RequestsAssumption ==
    /\ \A b \in Enveloped \cup Bare : Unrivalled(b)
    /\ \E b \in Enveloped : ~Unrivalled([b EXCEPT !.carries = Heard("idA", "start_server")])

(***************************************************************************)
(* Clients, with bytes of 4 bits and VarInts of 8.                         *)
(***************************************************************************)

Address == <<1, 2>>
Alice   == <<5, 6, 7>>
Long    == <<8, 9, 10>>
Uuid    == <<11, 12>>

Told(v, next) ==
    [protocol_version |-> v, server_address |-> Address, server_port |-> 3 * 16 + 4,
     next_state |-> next]

LogsIn(v)    == [handshake |-> Told(v, 2), name |-> Alice, ping |-> <<>>, more |-> Uuid]
Pings(v)     == [handshake |-> Told(v, 1), name |-> Unheard, ping |-> Long]
Says(v, next) == [handshake |-> Told(v, next), name |-> Unheard, ping |-> <<>>]

Hello(v, next) == BuildPacket(0, Greeting(Told(v, next)))

Versions == -128 .. 127

Complete ==
    {[bytes |-> Sent(says), says |-> says, whole |-> TRUE] : says \in
        {LogsIn(v) : v \in Versions} \cup {Pings(v) : v \in Versions}
        \cup {Says(v, next) : v \in {0, -1, 100}, next \in Versions \ {1, 2}}}

\* Cut off anywhere outside the login's packet, or inside it.
Cut ==
    UNION {{[bytes |-> Take(Sent(says), n), says |-> says, whole |-> FALSE] :
            n \in 0 .. Len(Sent(says)) - 1} :
        says \in {LogsIn(v) : v \in {-128, -1, 0, 127}} \cup {Pings(0)}}
    \cup {[bytes |-> Hello(0, 2) \o BuildPacket(0, Take(WriteUtf(Alice), n)),
           says |-> LogsIn(0), whole |-> FALSE] : n \in 0 .. Len(WriteUtf(Alice)) - 1}

ASSUME ClientsAssumption == (\A c \in Complete : Honest(c)) /\ (\A c \in Cut : CutOff(c))

\* Or wrong: a name much longer than its packet, one that is no text, another
\* packet, one of no length, one that is too long, endless VarInts.
Wrong ==
    {[bytes |-> bytes, says |-> Unheard, whole |-> FALSE] : bytes \in
        {Hello(0, 2) \o rest : rest \in
            {BuildPacket(0, WriteVarInt(9) \o Alice), BuildPacket(0, WriteUtf(<<15>>)),
             BuildPacket(1, WriteUtf(Alice)), WriteVarInt(0), WriteVarInt(-1),
             WriteVarInt(120) \o Alice, <<15, 15, 15, 15>>, BuildPacket(0, <<15, 15, 15, 15>>)}}
        \cup {BuildPacket(1, <<>>) \o Sent(LogsIn(0)), BuildPacket(0, <<>>) \o Sent(LogsIn(0))}}

\* A name of negative length is all that is left of its packet.
Negative ==
    {[bytes |-> Hello(0, 2) \o BuildPacket(0, WriteVarInt(-1) \o Alice), says |-> LogsIn(0),
      whole |-> TRUE]}

Connected == Complete \cup Cut \cup Wrong \cup Negative
==============================================================================
