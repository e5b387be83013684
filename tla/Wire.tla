-------------------------------- MODULE Wire --------------------------------
(***************************************************************************)
(* The codecs of mc_protocol.py on sequences of bytes.  A VarInt has       *)
(* MaxGroups bytes, each with a digit to the base Group and whether more   *)
(* follow, and SignBit is the highest bit that counts; the program's are   *)
(* 5, 128 and 2^31.  A read has an outcome: a value and the bytes after    *)
(* it, "eof" (EOFError) or "bad" (any other exception).                    *)
(***************************************************************************)
EXTENDS Integers, SequencesExt

CONSTANTS
    Group, MaxGroups, SignBit,
    MaxPacket,    \* the 2 MB cap
    Undecodable   \* bytes that are no UTF-8

Byte == 0 .. 2 * Group - 1

\* What the digits of a VarInt count.
Weight[i \in 1 .. MaxGroups] == IF i = 1 THEN 1 ELSE Group * Weight[i - 1]

ASSUME WireAssumption ==
    /\ {Group, MaxGroups, SignBit, MaxPacket} \subseteq Nat \ {0}
    /\ 1 < Group /\ 2 * SignBit <= Group * Weight[MaxGroups]
    /\ MaxPacket < SignBit

Value(v, rest) == [outcome |-> "value", value |-> v, rest |-> rest]
Eof == [outcome |-> "eof"]
Bad == [outcome |-> "bad"]

\* A read, and what is made of its value and of the bytes after it.
Then(read, Made(_, _)) ==
    IF read.outcome = "value" THEN Made(read.value, read.rest) ELSE read

Take(bytes, n) == SubSeq(bytes, 1, n)
Drop(bytes, n) == SubSeq(bytes, n + 1, Len(bytes))

Unsigned(digits) ==
    LET result[i \in 0 .. Len(digits)] ==
          IF i = 0 THEN 0 ELSE result[i - 1] + (digits[i] % Group) * Weight[i]
    IN result[Len(digits)]

\* Mutant: without the sign.
UnsignedOnly(all) == all

Signed(all) == IF (all \div SignBit) % 2 = 1 THEN all - 2 * SignBit ELSE all

\* read_varint and _read_varint_async.
ReadVarInt(bytes) ==
    LET last == {i \in 1 .. Len(bytes) : i <= MaxGroups /\ bytes[i] < Group}
        n    == Min(last)
    IN IF last # {} THEN Value(Signed(Unsigned(Take(bytes, n))), Drop(bytes, n))
       ELSE IF Len(bytes) < MaxGroups THEN Eof ELSE Bad

\* write_varint.
WriteVarInt(value) ==
    LET left[i \in 1 .. MaxGroups] ==
          IF i > 1 THEN left[i - 1] \div Group
          ELSE IF value < 0 THEN value + 2 * SignBit ELSE value
        n == Min({i \in 1 .. MaxGroups : left[i] < Group})
    IN [i \in 1 .. n |-> (left[i] % Group) + (IF i < n THEN Group ELSE 0)]

\* Mutant: a string that is cut short is taken as it is.
ReadUtfCut(bytes) ==
    Then(ReadVarInt(bytes), LAMBDA length, rest :
        LET n == IF length \in 0 .. Len(rest) THEN length ELSE Len(rest)
        IN Value(Take(rest, n), Drop(rest, n)))

\* read_utf.  A negative length reads all there is.
ReadUtf(bytes) ==
    Then(ReadVarInt(bytes), LAMBDA length, rest :
        LET n == IF length < 0 THEN Len(rest) ELSE length
        IN IF Len(rest) < n THEN Eof
           ELSE IF Undecodable \cap ToSet(Take(rest, n)) # {} THEN Bad
           ELSE Value(Take(rest, n), Drop(rest, n)))

WriteUtf(text) == WriteVarInt(Len(text)) \o text

ReadUnsignedShort(bytes) ==
    IF Len(bytes) < 2 THEN Eof
    ELSE Value(bytes[1] * 2 * Group + bytes[2], Drop(bytes, 2))

\* read_packet of a stream that ends, or falls silent, with these bytes: the
\* packet as [id, payload].
ReadPacket(bytes) ==
    Then(ReadVarInt(bytes), LAMBDA length, rest :
        IF length <= 0 THEN Eof
        ELSE IF length > MaxPacket THEN Bad
        ELSE IF Len(rest) < length THEN Eof
        ELSE Then(ReadVarInt(Take(rest, length)), LAMBDA id, payload :
                 Value([id |-> id, payload |-> payload], Drop(rest, length))))

\* build_packet.
BuildPacket(id, payload) ==
    LET inner == WriteVarInt(id) \o payload
    IN WriteVarInt(Len(inner)) \o inner

\* Handshake.parse.
ParseHandshake(bytes) ==
    Then(ReadVarInt(bytes), LAMBDA version, r1 :
    Then(ReadUtf(r1), LAMBDA address, r2 :
    Then(ReadUnsignedShort(r2), LAMBDA port, r3 :
    Then(ReadVarInt(r3), LAMBDA next, r4 :
        Value([protocol_version |-> version, server_address |-> address,
               server_port |-> port, next_state |-> next], r4)))))

\* LoginStart.parse.
ParseLoginStart(bytes) == ReadUtf(bytes)
=============================================================================
