---------------------------- MODULE ClientSession ----------------------------
(***************************************************************************)
(* One connection to the proxy (_handle_client and _handle_status of       *)
(* proxy_listener.py), up to the name a login is checked by; LoginGate and *)
(* PortHandover take over there.  The client has sent some bytes and then  *)
(* hangs up or falls silent, which the handler's timeouts make the same.   *)
(***************************************************************************)
EXTENDS Wire

CONSTANTS
    Unheard,    \* nothing parsed
    LongBytes,  \* bytes of a ping's payload (8)
    Clients     \* what clients send: bytes, and for the properties what they say
                \* or meant to, and whether all of it came through

ASSUME LongAssumption == LongBytes \in Nat

VARIABLES
    client,      \* external: the client
    at,          \* handshake, request, ping, login, checking (is_allowed), closed
    unread,      \* the bytes not yet read
    handshake,   \* Handshake
    name,        \* LoginStart's player_name
    answers      \* what the proxy sent

sessionVars == <<client, at, unread, handshake, name, answers>>

SessionInit ==
    /\ client \in Clients /\ unread = client.bytes /\ at = "handshake"
    /\ handshake = Unheard /\ name = Unheard /\ answers = <<>>

Packet == ReadPacket(unread)
Arrives(id) == Packet.outcome = "value" /\ Packet.value.id = id

\* EOFError, a timeout or any other exception: the connection is closed.
Breaks ==
    /\ at \in {"handshake", "request", "ping", "login"}
    /\ at' = "closed"
    /\ UNCHANGED <<client, unread, handshake, name, answers>>

Handshakes ==
    /\ at = "handshake" /\ Arrives(0)
    /\ LET h == ParseHandshake(Packet.value.payload)
       IN /\ h.outcome = "value"
          /\ handshake' = h.value
          /\ at' = CASE h.value.next_state = 1 -> "request"
                     [] h.value.next_state = 2 -> "login"
                     [] OTHER                  -> "closed"
    /\ unread' = Packet.rest
    /\ UNCHANGED <<client, name, answers>>

\* _handle_status: any packet is taken for the request.
AnswersStatus ==
    /\ at = "request" /\ Packet.outcome = "value"
    /\ at' = "ping" /\ unread' = Packet.rest
    /\ answers' = Append(answers, [kind |-> "status", payload |-> <<>>])
    /\ UNCHANGED <<client, handshake, name>>

AnswersPing ==
    /\ at = "ping" /\ Arrives(1)
    /\ at' = "closed" /\ unread' = Packet.rest
    /\ LET long == Packet.value.payload
       IN answers' = Append(answers, [kind |-> "pong",
              payload |-> SubSeq(long, 1, Min({LongBytes, Len(long)}))])
    /\ UNCHANGED <<client, handshake, name>>

\* _handle_login, up to is_allowed.
Logins ==
    /\ at = "login" /\ Arrives(0)
    /\ LET login == ParseLoginStart(Packet.value.payload)
       IN login.outcome = "value" /\ name' = login.value
    /\ at' = "checking" /\ unread' = Packet.rest
    /\ UNCHANGED <<client, handshake, answers>>

SessionNext == Breaks \/ Handshakes \/ AnswersStatus \/ AnswersPing \/ Logins

SessionSpec == SessionInit /\ [][SessionNext]_sessionVars

(***************************************************************************)
(* What clients send.                                                      *)
(***************************************************************************)

Greeting(h) ==
    WriteVarInt(h.protocol_version) \o WriteUtf(h.server_address)
        \o <<h.server_port \div (2 * Group), h.server_port % (2 * Group)>>
        \o WriteVarInt(h.next_state)

Login(says) == WriteUtf(says.name) \o says.more

\* All of it: a ping, a login, or a handshake for something else.
Sent(says) ==
    BuildPacket(0, Greeting(says.handshake)) \o
        CASE says.handshake.next_state = 1 -> BuildPacket(0, <<>>) \o BuildPacket(1, says.ping)
          [] says.handshake.next_state = 2 -> BuildPacket(0, Login(says))
          [] OTHER                         -> <<>>

Ints  == -SignBit .. SignBit - 1
Texts == {text \in Seq(Byte) : Len(text) < MaxPacket /\ Undecodable \cap ToSet(text) = {}}

\* Its packets are not too long, and it has a name if it logs in.
Sayable(says) ==
    /\ says.handshake \in [protocol_version : Ints, server_address : Texts,
                           server_port : 0 .. (2 * Group) * (2 * Group) - 1, next_state : Ints]
    /\ Len(Greeting(says.handshake)) < MaxPacket
    /\ CASE says.handshake.next_state = 1 ->
              /\ says.ping \in Seq(Byte) /\ Len(says.ping) < MaxPacket
              /\ Len(says.ping) <= LongBytes
         [] says.handshake.next_state = 2 ->
              /\ says.name \in Texts \ {Unheard} /\ says.more \in Seq(Byte)
              /\ Len(Login(says)) < MaxPacket
         [] OTHER -> TRUE

Honest(c) == c.whole /\ Sayable(c.says) /\ c.bytes = Sent(c.says)

\* It breaks off anywhere, or its login has a name longer than its packet.
CutOff(c) ==
    /\ ~c.whole /\ Sayable(c.says)
    /\ \/ \E n \in 0 .. Len(Sent(c.says)) - 1 : c.bytes = Take(Sent(c.says), n)
       \/ /\ c.says.handshake.next_state = 2
          /\ \E n \in 0 .. Len(WriteUtf(c.says.name)) - 1 :
                c.bytes = BuildPacket(0, Greeting(c.says.handshake))
                              \o BuildPacket(0, Take(WriteUtf(c.says.name), n))

(***************************************************************************)
(* Properties.                                                             *)
(***************************************************************************)

\* What the client said is what the proxy hears, as far as it came through:
\* every version, also the negative ones, the name, and a ping comes back as
\* it was.
UnderstoodAsSent ==
    /\ handshake # Unheard /\ client.says # Unheard => handshake = client.says.handshake
    /\ name # Unheard /\ client.says # Unheard => name = client.says.name
    /\ \A i \in DOMAIN answers : answers[i].kind = "pong" /\ client.says # Unheard =>
           answers[i].payload = client.says.ping

\* Only a login that came through whole gets as far as the whitelist and the
\* server's start: none that is cut off anywhere, outside or inside a packet,
\* and no ping.
WholeLoginsWake == at = "checking" => client.whole /\ client.says.name # Unheard
=============================================================================
