--------------------------- MODULE InboundProofs ---------------------------
(***************************************************************************)
(* What comes in from outside, for any requests and any clients: a webhook *)
(* moves only the port it names, and a template that nothing contradicts   *)
(* is heard; a client is understood as it speaks, however it is cut off,   *)
(* and only a whole login wakes a server.  Most of it is the codec: what   *)
(* the readers make of what the writers wrote, and of a part of it.        *)
(***************************************************************************)
EXTENDS EventReceiver, ClientSession, SequenceTheorems, WellFoundedInduction, TLAPS

(***************************************************************************)
(* Recursion.                                                              *)
(***************************************************************************)

\* A set of naturals has a least one.
LEMMA LeastExists ==
    ASSUME NEW S, S \subseteq Nat, S # {}
    PROVE  Min(S) \in S /\ \A y \in S : Min(S) <= y
<1>1. PICK x \in S : \A y \in S : ~ (<<y, x>> \in OpToRel(<, Nat))
  BY NatLessThanWellFounded, WFMin
<1>2. \A y \in S : x <= y
  <2> SUFFICES ASSUME NEW y \in S PROVE x <= y
    OBVIOUS
  <2>1. ~(y < x)
    BY <1>1 DEF OpToRel
  <2> QED
    BY <2>1
<1> QED
  BY <1>2, Zenon DEF Min

\* What holds of a first number, and of a next one if of the one before.
LEMMA Induction ==
    ASSUME NEW first \in Nat, NEW last \in Int, NEW good, first \in good,
           \A i \in first + 1 .. last : i - 1 \in good => i \in good
    PROVE  first .. last \subseteq good
<1> DEFINE bad == (first .. last) \ good
<1>1. bad \subseteq Nat
  OBVIOUS
<1> SUFFICES ASSUME bad # {} PROVE FALSE
  OBVIOUS
<1>2. PICK m \in bad : \A k \in bad : m <= k
  BY <1>1, LeastExists, Zenon
<1>3. m \in first + 1 .. last /\ m - 1 \in first .. last
  OBVIOUS
<1>4. m - 1 \notin bad
  <2> HIDE DEF bad
  <2> QED
    BY <1>1, <1>2
<1> QED
  BY <1>3, <1>4

\* A step taken n times from a start.
Iterates(f, S, n, start, step) ==
    f \in [0 .. n -> S] /\ f[0] = start /\ \A i \in 1 .. n : f[i] = step[i][f[i - 1]]

LEMMA IterationExists ==
    ASSUME NEW S, NEW n \in Nat, NEW start \in S, NEW step \in [1 .. n -> [S -> S]]
    PROVE  \E f : Iterates(f, S, n, start, step)
<1> DEFINE good == {m \in 0 .. n : \E f : Iterates(f, S, m, start, step)}
<1>1. 0 \in good
  <2>1. Iterates([i \in 0 .. 0 |-> start], S, 0, start, step)
    BY DEF Iterates
  <2> QED
    BY <2>1
<1>2. ASSUME NEW m \in 0 + 1 .. n, m - 1 \in good PROVE m \in good
  <2>1. PICK f : Iterates(f, S, m - 1, start, step)
    BY <1>2
  <2> DEFINE g == [i \in 0 .. m |-> IF i = m THEN step[m][f[m - 1]] ELSE f[i]]
  <2>2. g \in [0 .. m -> S] /\ g[0] = start
    BY <2>1 DEF Iterates
  <2>3. ASSUME NEW i \in 1 .. m PROVE g[i] = step[i][g[i - 1]]
    <3>1. g[i - 1] = f[i - 1]
      OBVIOUS
    <3>2. CASE i = m
      BY <3>1, <3>2
    <3>3. CASE i # m
      BY <2>1, <3>1, <3>3 DEF Iterates
    <3> QED
      BY <3>2, <3>3
  <2> HIDE DEF g
  <2>4. Iterates(g, S, m, start, step)
    BY <2>2, <2>3 DEF Iterates
  <2> QED
    BY <2>4
<1> HIDE DEF good
<1>3. 0 .. n \subseteq good
  <2>1. 0 \in Nat /\ n \in Int /\ \A i \in 0 + 1 .. n : i - 1 \in good => i \in good
    BY <1>2
  <2> QED
    BY <1>1, <2>1, Induction, Zenon
<1>4. n \in good
  BY <1>3
<1> QED
  BY <1>4 DEF good

(***************************************************************************)
(* Numbers.                                                                *)
(***************************************************************************)

LEMMA Numbers ==
    /\ Group \in Nat /\ 1 < Group /\ MaxGroups \in Nat \ {0} /\ SignBit \in Nat \ {0}
    /\ MaxPacket \in Nat \ {0} /\ MaxPacket < SignBit
    /\ 2 * SignBit <= Group * Weight[MaxGroups]
  BY WireAssumption

LEMMA DivMod ==
    ASSUME NEW n \in Nat, NEW d \in Nat \ {0}
    PROVE  n \div d \in Nat /\ n % d \in 0 .. d - 1 /\ n = (d * (n \div d)) + (n % d)
  OBVIOUS

LEMMA Weights ==
    /\ Weight \in [1 .. MaxGroups -> Nat \ {0}] /\ Weight[1] = 1
    /\ \A i \in 2 .. MaxGroups : Weight[i] = Group * Weight[i - 1]
<1> DEFINE step == [i \in 1 .. MaxGroups - 1 |-> [n \in Nat |-> Group * n]]
<1>1. MaxGroups - 1 \in Nat /\ step \in [1 .. MaxGroups - 1 -> [Nat -> Nat]]
  BY Numbers
<1> HIDE DEF step
<1>2. PICK f : Iterates(f, Nat, MaxGroups - 1, 1, step)
  BY <1>1, IterationExists
<1> DEFINE w == [i \in 1 .. MaxGroups |-> f[i - 1]]
<1>3. w = [i \in 1 .. MaxGroups |-> IF i = 1 THEN 1 ELSE Group * w[i - 1]]
  <2> SUFFICES ASSUME NEW i \in 1 .. MaxGroups
               PROVE  f[i - 1] = IF i = 1 THEN 1 ELSE Group * w[i - 1]
    OBVIOUS
  <2>1. CASE i = 1
    BY <1>2, <2>1 DEF Iterates
  <2>2. CASE i # 1
    <3> DEFINE k == i - 1
    <3>1. k \in 1 .. MaxGroups - 1 /\ k \in 1 .. MaxGroups /\ k - 1 \in 0 .. MaxGroups - 1
      BY <2>2, Numbers
    <3>2. w[k] = f[k - 1]
      BY <3>1
    <3> HIDE DEF k, w
    <3>3. f[k] = step[k][f[k - 1]] /\ f[k - 1] \in Nat
      BY <1>2, <3>1 DEF Iterates
    <3>4. f[k] = Group * f[k - 1]
      BY <3>1, <3>3 DEF step
    <3> QED
      BY <2>2, <3>2, <3>4 DEF k
  <2> QED
    BY <2>1, <2>2
<1>4. w \in [1 .. MaxGroups -> Nat]
  BY <1>2, Numbers DEF Iterates
<1> HIDE DEF w
<1>5. Weight = [i \in 1 .. MaxGroups |-> IF i = 1 THEN 1 ELSE Group * Weight[i - 1]]
  BY <1>3, Zenon DEF Weight
<1>6. Weight[1] = 1 /\ \A i \in 2 .. MaxGroups : Weight[i] = Group * Weight[i - 1]
  BY <1>5, Numbers
<1> DEFINE good == {i \in 1 .. MaxGroups : Weight[i] \in Nat \ {0}}
<1>7. 1 \in good
  BY <1>6, Numbers
<1>8. ASSUME NEW i \in 1 + 1 .. MaxGroups, i - 1 \in good PROVE i \in good
  <2>1. i \in 2 .. MaxGroups
    OBVIOUS
  <2>2. Weight[i] = Group * Weight[i - 1] /\ Weight[i - 1] \in Nat \ {0}
    BY <1>6, <1>8, <2>1, Zenon
  <2>3. \A k \in Nat \ {0} : Group * k \in Nat \ {0}
    BY Numbers
  <2> QED
    BY <2>1, <2>2, <2>3
<1> HIDE DEF good
<1>9. 1 .. MaxGroups \subseteq good
  <2>1. 1 \in Nat /\ MaxGroups \in Int /\ \A i \in 1 + 1 .. MaxGroups : i - 1 \in good => i \in good
    BY <1>8, Numbers
  <2> QED
    BY <1>7, <2>1, Induction, Zenon
<1> QED
  BY <1>5, <1>6, <1>9 DEF good

\* A number of times the divisor and a rest, taken apart again.
LEMMA DivModUnique ==
    ASSUME NEW d \in Nat \ {0}, NEW q \in Int, NEW r \in 0 .. d - 1
    PROVE  ((d * q) + r) \div d = q /\ ((d * q) + r) % d = r
  OBVIOUS

LEMMA Digit ==
    ASSUME NEW n \in Nat
    PROVE  n \div Group \in Nat /\ n % Group \in 0 .. Group - 1
           /\ n = (Group * (n \div Group)) + (n % Group)
<1>1. Group \in Nat \ {0}
  BY Numbers
<1> QED
  BY <1>1, DivMod, Zenon

\* The next digit of a number, of which the rest is left.
LEMMA NextDigit ==
    ASSUME NEW sum \in Nat, NEW weight \in Nat, NEW left \in Nat
    PROVE  sum + (weight * left)
             = (sum + ((left % Group) * weight)) + ((Group * weight) * (left \div Group))
<1> DEFINE q == left \div Group
           m == left % Group
<1>1. q \in Nat /\ m \in Nat /\ left = (Group * q) + m
  BY Digit, Numbers
<1> HIDE DEF q, m
<1>2. weight * left = (weight * (Group * q)) + (weight * m)
  BY <1>1, Numbers
<1>3. weight * (Group * q) = (Group * weight) * q /\ weight * m = m * weight
  BY <1>1, Numbers
<1>4. m * weight \in Nat /\ (Group * weight) * q \in Nat
  BY <1>1, Numbers
<1>5. sum + (weight * left) = (sum + (m * weight)) + ((Group * weight) * q)
  BY <1>2, <1>3, <1>4
<1> QED
  BY <1>5 DEF q, m

(***************************************************************************)
(* VarInts.                                                                *)
(***************************************************************************)

\* What a number is written as, without its sign.
All(value) == IF value < 0 THEN value + 2 * SignBit ELSE value

\* The quotients left of a number, of which the n-th is the last.
Quotients(left, n, all) ==
    /\ left \in [1 .. MaxGroups -> Nat] /\ n \in 1 .. MaxGroups
    /\ left[1] = all /\ \A i \in 2 .. MaxGroups : left[i] = left[i - 1] \div Group
    /\ left[n] < Group /\ \A i \in 1 .. n - 1 : Group <= left[i]

\* The byte a quotient is written as.
ByteOf(left, i, n) == (left % Group) + (IF i < n THEN Group ELSE 0)

LEMMA Unsigneds ==
    ASSUME NEW value \in Ints
    PROVE  All(value) \in 0 .. (2 * SignBit) - 1 /\ Signed(All(value)) = value
<1>1. CASE value < 0
  <2> DEFINE r == value + SignBit
  <2>1. All(value) = (SignBit * 1) + r /\ r \in 0 .. SignBit - 1
    BY <1>1, Numbers DEF All, Ints
  <2>2. All(value) \div SignBit = 1
    <3>1. SignBit \in Nat \ {0} /\ 1 \in Int
      BY Numbers
    <3>2. ((SignBit * 1) + r) \div SignBit = 1
      <4> HIDE DEF r
      <4> QED
        BY <2>1, <3>1, DivModUnique, Zenon
    <3> QED
      BY <2>1, <3>2, Zenon
  <2>3. Signed(All(value)) = All(value) - 2 * SignBit
    BY <2>2 DEF Signed
  <2> QED
    BY <1>1, <2>1, <2>3, Numbers DEF All, Ints
<1>2. CASE ~(value < 0)
  <2>1. All(value) = (SignBit * 0) + value /\ value \in 0 .. SignBit - 1
    BY <1>2, Numbers DEF All, Ints
  <2>2. All(value) \div SignBit = 0
    <3>1. SignBit \in Nat \ {0} /\ 0 \in Int
      BY Numbers
    <3> QED
      BY <2>1, <3>1, DivModUnique, Zenon
  <2>3. Signed(All(value)) = All(value)
    BY <2>2 DEF Signed
  <2> QED
    BY <1>2, <2>1, <2>3, Numbers DEF All
<1> QED
  BY <1>1, <1>2

\* There are enough groups for every number, as each quotient times its weight
\* is at most the number.
LEMMA EnoughGroups ==
    ASSUME NEW left \in [1 .. MaxGroups -> Nat], left[1] < 2 * SignBit,
           \A i \in 2 .. MaxGroups : left[i] = left[i - 1] \div Group
    PROVE  left[MaxGroups] < Group
<1> DEFINE good == {i \in 1 .. MaxGroups : Weight[i] * left[i] <= left[1]}
<1>1. 1 \in good
  BY Weights, Numbers
<1>2. ASSUME NEW i \in 1 + 1 .. MaxGroups, i - 1 \in good PROVE i \in good
  <2> DEFINE w == Weight[i - 1]
             l == left[i - 1]
             q == l \div Group
  <2>1. i \in 2 .. MaxGroups /\ i - 1 \in 1 .. MaxGroups
    BY Numbers
  <2>2. w \in Nat /\ l \in Nat /\ w * l <= left[1] /\ left[i] = q /\ Weight[i] = Group * w
    BY <1>2, <2>1, Weights
  <2>3. q \in Nat /\ Group * q <= l
    <3>1. q \in Nat /\ l % Group \in 0 .. Group - 1 /\ l = (Group * q) + (l % Group)
      <4> HIDE DEF l
      <4> QED
        BY <2>2, Digit
    <3> DEFINE m == l % Group
    <3> HIDE DEF w, l, q, m
    <3>2. q \in Nat /\ m \in 0 .. Group - 1 /\ l = (Group * q) + m
      BY <3>1 DEF m
    <3> QED
      BY <3>2, Numbers
  <2> HIDE DEF w, l, q
  <2>4. w * (Group * q) <= w * l
    BY <2>2, <2>3, Numbers
  <2>5. (Group * w) * q = w * (Group * q)
    BY <2>2, <2>3, Numbers
  <2>6. (Group * w) * q \in Nat /\ w * l \in Nat /\ w * (Group * q) \in Nat /\ left[1] \in Nat
    BY <2>2, <2>3, Numbers
  <2> QED
    BY <2>1, <2>2, <2>4, <2>5, <2>6
<1> HIDE DEF good
<1>3. 1 .. MaxGroups \subseteq good
  <2>1. 1 \in Nat /\ MaxGroups \in Int /\ \A i \in 1 + 1 .. MaxGroups : i - 1 \in good => i \in good
    BY <1>2, Numbers
  <2> QED
    BY <1>1, <2>1, Induction, Zenon
<1> DEFINE w == Weight[MaxGroups]
           l == left[MaxGroups]
<1>4. w \in Nat \ {0} /\ l \in Nat /\ w * l <= left[1] /\ 2 * SignBit <= Group * w
  BY <1>3, Weights, Numbers DEF good
<1> HIDE DEF w, l
<1>5. CASE Group <= l
  <2>1. w * Group <= w * l /\ w * Group = Group * w
    BY <1>4, <1>5, Numbers
  <2>2. w * Group \in Nat /\ w * l \in Nat /\ left[1] \in Nat
    BY <1>4, Numbers
  <2> DEFINE a == left[1]
             p == w * Group
             s == 2 * SignBit
  <2>3. s <= p /\ p <= w * l /\ w * l <= a /\ a < s /\ s \in Nat /\ p \in Nat /\ a \in Nat
    BY <1>4, <2>1, <2>2, Numbers
  <2>4. w * l \in Nat
    BY <2>2
  <2> HIDE DEF a, p, s
  <2>5. FALSE
    BY <2>3, <2>4
  <2> QED
    BY <2>5
<1> QED
  BY <1>4, <1>5, Numbers DEF l

\* A number has its quotients.
LEMMA QuotientsExist ==
    ASSUME NEW all \in Nat
    PROVE  \E left : left = [i \in 1 .. MaxGroups |-> IF i > 1 THEN left[i - 1] \div Group ELSE all]
<1> DEFINE step == [i \in 1 .. MaxGroups - 1 |-> [n \in Nat |-> n \div Group]]
<1>1. \A n \in Nat : n \div Group \in Nat
  BY Digit
<1>2. MaxGroups - 1 \in Nat /\ step \in [1 .. MaxGroups - 1 -> [Nat -> Nat]]
  BY <1>1, Numbers
<1>3. \A i \in 1 .. MaxGroups - 1 : \A n \in Nat : step[i][n] = n \div Group
  OBVIOUS
<1> HIDE DEF step
<1>4. PICK f : Iterates(f, Nat, MaxGroups - 1, all, step)
  BY <1>2, IterationExists
<1> DEFINE left == [i \in 1 .. MaxGroups |-> f[i - 1]]
<1>5. ASSUME NEW i \in 1 .. MaxGroups
      PROVE  f[i - 1] = IF i > 1 THEN left[i - 1] \div Group ELSE all
  <2>1. CASE i = 1
    BY <1>4, <2>1 DEF Iterates
  <2>2. CASE i # 1
    <3> DEFINE k == i - 1
    <3>1. k \in 1 .. MaxGroups - 1 /\ k \in 1 .. MaxGroups /\ k - 1 \in 0 .. MaxGroups - 1
      BY <2>2, Numbers
    <3>2. left[k] = f[k - 1]
      BY <3>1
    <3> HIDE DEF k, left
    <3>3. f[k] = step[k][f[k - 1]] /\ f[k - 1] \in Nat
      BY <1>4, <3>1 DEF Iterates
    <3>4. f[k] = f[k - 1] \div Group
      BY <1>3, <3>1, <3>3
    <3> QED
      BY <2>2, <3>2, <3>4 DEF k
  <2> QED
    BY <2>1, <2>2
<1>6. left = [i \in 1 .. MaxGroups |-> IF i > 1 THEN left[i - 1] \div Group ELSE all]
  BY <1>5
<1> QED
  BY <1>6, Zenon

\* write_varint writes the quotients' digits up to the last.
LEMMA Written ==
    ASSUME NEW value \in Ints
    PROVE  \E left, n : /\ Quotients(left, n, All(value))
                        /\ WriteVarInt(value) = [i \in 1 .. n |-> ByteOf(left[i], i, n)]
<1> DEFINE all == All(value)
           left == CHOOSE left : left = [i \in 1 .. MaxGroups |->
                        IF i > 1 THEN left[i - 1] \div Group ELSE all]
           low  == {i \in 1 .. MaxGroups : left[i] < Group}
           n    == Min(low)
<1>1. all \in Nat /\ all < 2 * SignBit
  BY Unsigneds, Numbers
<1>2. left = [i \in 1 .. MaxGroups |-> IF i > 1 THEN left[i - 1] \div Group ELSE all]
  <2> HIDE DEF all
  <2> QED
    BY <1>1, QuotientsExist, Zenon
<1>3. WriteVarInt(value) = [i \in 1 .. n |-> (left[i] % Group) + (IF i < n THEN Group ELSE 0)]
  BY Zenon DEF WriteVarInt, All
<1> HIDE DEF all, left
<1>4. left[1] = all /\ \A i \in 2 .. MaxGroups : left[i] = left[i - 1] \div Group
  BY <1>2, Numbers
<1> DEFINE good == {i \in 1 .. MaxGroups : left[i] \in Nat}
<1>5. 1 .. MaxGroups \subseteq good
  <2>1. 1 \in good
    BY <1>1, <1>4, Numbers
  <2>2. 1 \in Nat /\ MaxGroups \in Int /\ \A i \in 1 + 1 .. MaxGroups : i - 1 \in good => i \in good
    BY <1>4, Digit, Numbers
  <2> HIDE DEF good
  <2> QED
    BY <2>1, <2>2, Induction, Zenon
<1>6. left \in [1 .. MaxGroups -> Nat]
  BY <1>2, <1>5
<1>7. MaxGroups \in low
  <2>1. left[1] < 2 * SignBit
    BY <1>1, <1>4
  <2>2. left[MaxGroups] < Group
    BY <1>4, <1>6, <2>1, EnoughGroups, Zenon
  <2> QED
    BY <2>2, Numbers
<1>8. n \in low /\ \A i \in low : n <= i
  <2>1. low \subseteq Nat /\ low # {}
    BY <1>7
  <2> HIDE DEF low
  <2> QED
    BY <2>1, LeastExists, Zenon
<1> HIDE DEF n
<1>9. \A i \in 1 .. n - 1 : Group <= left[i]
  BY <1>6, <1>8, Numbers
<1>10. Quotients(left, n, all)
  BY <1>4, <1>6, <1>8, <1>9 DEF Quotients
<1>11. WriteVarInt(value) = [i \in 1 .. n |-> ByteOf(left[i], i, n)]
  BY <1>3, Zenon DEF ByteOf
<1> QED
  BY <1>10, <1>11, Zenon DEF all

LEMMA Bytes ==
    ASSUME NEW value \in Ints
    PROVE  /\ WriteVarInt(value) \in Seq(Byte) /\ Len(WriteVarInt(value)) \in 1 .. MaxGroups
           /\ \A i \in 1 .. Len(WriteVarInt(value)) :
                  WriteVarInt(value)[i] < Group <=> i = Len(WriteVarInt(value))
<1>1. PICK left, n : /\ Quotients(left, n, All(value))
                     /\ WriteVarInt(value) = [i \in 1 .. n |-> ByteOf(left[i], i, n)]
  BY Written
<1> DEFINE w == WriteVarInt(value)
<1>2. n \in 1 .. MaxGroups
  BY <1>1 DEF Quotients
<1>3. ASSUME NEW i \in 1 .. n
      PROVE  w[i] \in Byte /\ (w[i] < Group <=> i = n)
  <2>1. w[i] = ByteOf(left[i], i, n)
    BY <1>1
  <2>2. left[i] % Group \in 0 .. Group - 1
    <3>1. left[i] \in Nat
      BY <1>1, <1>2, Numbers DEF Quotients
    <3> QED
      BY <3>1, Digit
  <2> DEFINE m == left[i] % Group
  <2>3. w[i] = m + (IF i < n THEN Group ELSE 0)
    BY <2>1 DEF ByteOf
  <2> HIDE DEF m
  <2>4. m \in 0 .. Group - 1
    BY <2>2 DEF m
  <2> HIDE DEF w
  <2> QED
    BY <1>2, <2>3, <2>4, Numbers DEF Byte
<1>4. w = [i \in 1 .. n |-> w[i]]
  BY <1>1
<1> HIDE DEF w
<1>5. w \in [1 .. n -> Byte]
  BY <1>3, <1>4
<1>6. w \in Seq(Byte) /\ Len(w) = n
  BY <1>2, <1>5
<1> QED
  BY <1>2, <1>3, <1>6 DEF w

\* The sums of a VarInt's digits, one digit after the other.
Sums(r, digits) ==
    /\ r \in [0 .. Len(digits) -> Nat] /\ r[0] = 0
    /\ \A i \in 1 .. Len(digits) : r[i] = r[i - 1] + (digits[i] % Group) * Weight[i]

LEMMA SumsExist ==
    ASSUME NEW digits \in Seq(Byte), Len(digits) <= MaxGroups
    PROVE  \E r : /\ Sums(r, digits)
                  /\ r = [i \in 0 .. Len(digits) |->
                            IF i = 0 THEN 0 ELSE r[i - 1] + (digits[i] % Group) * Weight[i]]
<1> DEFINE n    == Len(digits)
           term == [i \in 1 .. n |-> (digits[i] % Group) * Weight[i]]
           step == [i \in 1 .. n |-> [k \in Nat |-> k + term[i]]]
<1>1. n \in Nat
  OBVIOUS
<1>2. ASSUME NEW i \in 1 .. n PROVE (digits[i] % Group) * Weight[i] \in Nat
  <2>1. digits[i] \in Nat
    BY Numbers DEF Byte
  <2>2. digits[i] % Group \in Nat
    <3>1. digits[i] % Group \in 0 .. Group - 1
      BY <2>1, Digit, Zenon
    <3> QED
      BY <3>1, Numbers
  <2>3. Weight[i] \in Nat
    BY Weights, Numbers
  <2> QED
    BY <2>2, <2>3
<1>3. term \in [1 .. n -> Nat]
  BY <1>2
<1> HIDE DEF term
<1>4. step \in [1 .. n -> [Nat -> Nat]] /\ \A i \in 1 .. n : \A k \in Nat : step[i][k] = k + term[i]
  BY <1>3
<1> HIDE DEF step
<1>5. PICK r : Iterates(r, Nat, n, 0, step)
  BY <1>1, <1>4, IterationExists
<1>6. \A i \in 1 .. n : r[i] = r[i - 1] + (digits[i] % Group) * Weight[i]
  <2>1. ASSUME NEW i \in 1 .. n PROVE r[i] = r[i - 1] + term[i]
    <3>1. r[i] = step[i][r[i - 1]] /\ r[i - 1] \in Nat
      BY <1>1, <1>5 DEF Iterates
    <3> QED
      BY <1>4, <3>1
  <2> QED
    BY <2>1 DEF term
<1>7. r \in [0 .. n -> Nat] /\ r[0] = 0
  BY <1>5 DEF Iterates
<1>8. r = [i \in 0 .. n |-> IF i = 0 THEN 0 ELSE r[i - 1] + (digits[i] % Group) * Weight[i]]
  BY <1>6, <1>7
<1> QED
  BY <1>6, <1>7, <1>8 DEF Sums

LEMMA UnsignedSums ==
    ASSUME NEW digits \in Seq(Byte), Len(digits) <= MaxGroups
    PROVE  \E r : Sums(r, digits) /\ Unsigned(digits) = r[Len(digits)]
<1> DEFINE Is(r) == r = [i \in 0 .. Len(digits) |->
                            IF i = 0 THEN 0 ELSE r[i - 1] + (digits[i] % Group) * Weight[i]]
           r == CHOOSE r : Is(r)
<1>1. PICK s : Sums(s, digits) /\ Is(s)
  BY SumsExist
<1>2. Is(r)
  BY <1>1, Zenon
<1>3. Unsigned(digits) = r[Len(digits)]
  BY Zenon DEF Unsigned
<1>4. r[0] = 0 /\ \A i \in 1 .. Len(digits) : r[i] = r[i - 1] + (digits[i] % Group) * Weight[i]
  <2> HIDE DEF r
  <2> QED
    BY <1>2
<1>5. DOMAIN r = 0 .. Len(digits)
  <2> HIDE DEF r
  <2> QED
    BY <1>2
<1> HIDE DEF r
<1> DEFINE good == {i \in 0 .. Len(digits) : r[i] = s[i]}
<1>6. 0 .. Len(digits) \subseteq good
  <2>1. 0 \in good
    BY <1>1, <1>4 DEF Sums
  <2>2. 0 \in Nat /\ Len(digits) \in Int /\ \A i \in 0 + 1 .. Len(digits) : i - 1 \in good => i \in good
    BY <1>1, <1>4 DEF Sums
  <2> HIDE DEF good
  <2> QED
    BY <2>1, <2>2, Induction, Zenon
<1>7. \A i \in 0 .. Len(digits) : r[i] \in Nat
  BY <1>1, <1>6 DEF Sums
<1>8. Sums(r, digits)
  <2>1. r = [i \in 0 .. Len(digits) |-> r[i]]
    BY <1>2, <1>5
  <2> QED
    BY <1>4, <1>7, <2>1 DEF Sums
<1> QED
  BY <1>3, <1>8

\* The digits of a number sum up to it.
LEMMA DigitsAddUp ==
    ASSUME NEW value \in Ints
    PROVE  Unsigned(WriteVarInt(value)) = All(value)
<1> DEFINE w == WriteVarInt(value)
           all == All(value)
<1>1. PICK left, n : Quotients(left, n, all) /\ w = [i \in 1 .. n |-> ByteOf(left[i], i, n)]
  BY Written
<1>2. all \in Nat
  BY Unsigneds, Numbers
<1>3. w \in Seq(Byte) /\ Len(w) = n /\ n \in 1 .. MaxGroups
  <2>1. w \in Seq(Byte)
    BY Bytes
  <2>2. n \in 1 .. MaxGroups
    BY <1>1 DEF Quotients
  <2> QED
    BY <1>1, <2>1, <2>2
<1>4. PICK r : Sums(r, w) /\ Unsigned(w) = r[Len(w)]
  <2>1. Len(w) <= MaxGroups
    BY <1>3, Numbers
  <2> HIDE DEF w
  <2> QED
    BY <1>3, <2>1, UnsignedSums
<1>5. ASSUME NEW i \in 1 .. n
      PROVE  /\ w[i] % Group = left[i] % Group
             /\ r[i] = r[i - 1] + (left[i] % Group) * Weight[i]
             /\ left[i] \in Nat /\ r[i - 1] \in Nat /\ r[i] \in Nat
  <2>1. left[i] \in Nat
    BY <1>1, <1>3, Numbers DEF Quotients
  <2> DEFINE m == left[i] % Group
  <2>2. m \in 0 .. Group - 1
    BY <2>1, Digit
  <2>3. w[i] = m + (IF i < n THEN Group ELSE 0)
    BY <1>1 DEF ByteOf
  <2> HIDE DEF m, w
  <2>4. w[i] % Group = m
    <3>1. Group \in Nat \ {0} /\ 0 \in Int /\ 1 \in Int
      BY Numbers
    <3>2. ((Group * 0) + m) % Group = m /\ ((Group * 1) + m) % Group = m
      BY <2>2, <3>1, DivModUnique, Zenon
    <3>3. w[i] = (Group * 0) + m \/ w[i] = (Group * 1) + m
      BY <2>2, <2>3, Numbers
    <3> QED
      BY <3>2, <3>3
  <2>5. r[i] = r[i - 1] + (w[i] % Group) * Weight[i] /\ r[i - 1] \in Nat /\ r[i] \in Nat
    BY <1>3, <1>4 DEF Sums
  <2> QED
    BY <2>1, <2>4, <2>5 DEF m
<1> DEFINE good == {i \in 1 .. n : all = r[i - 1] + Weight[i] * left[i]}
<1>6. 1 .. n \subseteq good
  <2>1. 1 \in good
    <3>1. r[0] = 0 /\ left[1] = all /\ Weight[1] = 1
      BY <1>1, <1>4, Weights DEF Sums, Quotients
    <3> QED
      BY <1>2, <1>3, <3>1
  <2>2. ASSUME NEW i \in 1 + 1 .. n, i - 1 \in good PROVE i \in good
    <3> DEFINE k == i - 1
    <3>1. k \in 1 .. n /\ i \in 2 .. MaxGroups /\ k \in 1 .. MaxGroups
      BY <1>3, Numbers
    <3>2. left[i] = left[k] \div Group /\ Weight[i] = Group * Weight[k] /\ Weight[k] \in Nat
      BY <1>1, <3>1, Weights DEF Quotients
    <3>3. all = r[k - 1] + Weight[k] * left[k]
      BY <2>2
    <3> HIDE DEF k, all
    <3>4. r[k] = r[k - 1] + (left[k] % Group) * Weight[k] /\ left[k] \in Nat /\ r[k - 1] \in Nat
      BY <1>5, <3>1
    <3>5. all = (r[k - 1] + ((left[k] % Group) * Weight[k])) + ((Group * Weight[k]) * (left[k] \div Group))
      <4> DEFINE s == r[k - 1]
                 l == left[k]
                 weight == Weight[k]
      <4>1. all \in Nat /\ s \in Nat /\ weight \in Nat /\ l \in Nat /\ all = s + (weight * l)
        BY <1>2, <3>2, <3>3, <3>4 DEF all
      <4> HIDE DEF s, l, weight
      <4>2. all = (s + ((l % Group) * weight)) + ((Group * weight) * (l \div Group))
        <5>1. s + (weight * l)
                = (s + ((l % Group) * weight)) + ((Group * weight) * (l \div Group))
          BY <4>1, NextDigit, Zenon
        <5> QED
          BY <4>1, <5>1
      <4> QED
        BY <4>2 DEF s, l, weight
    <3>6. all = r[k] + Weight[i] * left[i]
      BY <3>2, <3>4, <3>5
    <3> QED
      BY <3>6 DEF k
  <2>3. 1 \in Nat /\ n \in Int /\ \A i \in 1 + 1 .. n : i - 1 \in good => i \in good
    BY <1>3, <2>2
  <2> HIDE DEF good
  <2> QED
    BY <2>1, <2>3, Induction, Zenon
<1>7. all = r[n - 1] + Weight[n] * left[n] /\ n \in 1 .. n
  BY <1>3, <1>6
<1>8. left[n] % Group = left[n]
  <2>1. left[n] \in Nat /\ left[n] < Group
    BY <1>1, <1>5, <1>7 DEF Quotients
  <2> DEFINE l == left[n]
  <2> HIDE DEF l
  <2>2. l \in 0 .. Group - 1 /\ Group \in Nat \ {0} /\ 0 \in Int
    BY <2>1, Numbers DEF l
  <2>3. ((Group * 0) + l) % Group = l
    BY <2>2, DivModUnique, Zenon
  <2>4. (Group * 0) + l = l
    BY <2>2
  <2> QED
    BY <2>3, <2>4 DEF l
<1>9. r[n] = r[n - 1] + left[n] * Weight[n]
  BY <1>5, <1>7, <1>8
<1>10. left[n] * Weight[n] = Weight[n] * left[n]
  BY <1>3, <1>5, <1>7, Weights
<1> QED
  BY <1>3, <1>4, <1>7, <1>9, <1>10

\* A VarInt ends at its first byte that says so, if that is not too late.
Ends(bytes, n) ==
    /\ n \in 1 .. Len(bytes) /\ n <= MaxGroups /\ bytes[n] < Group
    /\ \A i \in 1 .. n - 1 : Group <= bytes[i]

LEMMA ReadsToItsEnd ==
    ASSUME NEW bytes \in Seq(Byte), NEW n, Ends(bytes, n)
    PROVE  ReadVarInt(bytes) = Value(Signed(Unsigned(Take(bytes, n))), Drop(bytes, n))
<1> DEFINE last == {i \in 1 .. Len(bytes) : i <= MaxGroups /\ bytes[i] < Group}
<1>1. n \in last /\ \A i \in last : n <= i
  <2>1. \A i \in 1 .. Len(bytes) : bytes[i] \in Int
    BY Numbers DEF Byte
  <2> QED
    BY <2>1, Numbers DEF Ends
<1>2. Min(last) = n
  <2>1. last \subseteq Nat
    OBVIOUS
  <2> HIDE DEF last
  <2> DEFINE m == Min(last)
  <2>2. m \in last /\ \A i \in last : m <= i
    BY <1>1, <2>1, LeastExists, Zenon
  <2> HIDE DEF m
  <2>3. m <= n /\ n <= m /\ m \in Nat /\ n \in Nat
    BY <1>1, <2>1, <2>2
  <2> QED
    BY <2>3 DEF m
<1>3. ReadVarInt(bytes) =
        IF last # {} THEN Value(Signed(Unsigned(Take(bytes, Min(last)))), Drop(bytes, Min(last)))
        ELSE IF Len(bytes) < MaxGroups THEN Eof ELSE Bad
  BY Zenon DEF ReadVarInt
<1> HIDE DEF last
<1> QED
  BY <1>1, <1>2, <1>3, Zenon

LEMMA ReadsNone ==
    ASSUME NEW bytes \in Seq(Byte), \A i \in 1 .. Len(bytes) : i <= MaxGroups => Group <= bytes[i]
    PROVE  ReadVarInt(bytes) = IF Len(bytes) < MaxGroups THEN Eof ELSE Bad
<1> DEFINE last == {i \in 1 .. Len(bytes) : i <= MaxGroups /\ bytes[i] < Group}
<1>1. last = {}
  <2>1. \A i \in 1 .. Len(bytes) : bytes[i] \in Int
    BY Numbers DEF Byte
  <2> QED
    BY <2>1, Numbers
<1>2. ReadVarInt(bytes) =
        IF last # {} THEN Value(Signed(Unsigned(Take(bytes, Min(last)))), Drop(bytes, Min(last)))
        ELSE IF Len(bytes) < MaxGroups THEN Eof ELSE Bad
  BY Zenon DEF ReadVarInt
<1> HIDE DEF last
<1> QED
  BY <1>1, <1>2, Zenon

\* One or the other.
LEMMA EndsOrNot ==
    ASSUME NEW bytes \in Seq(Byte)
    PROVE  \/ \E n : Ends(bytes, n)
           \/ \A i \in 1 .. Len(bytes) : i <= MaxGroups => Group <= bytes[i]
<1> DEFINE last == {i \in 1 .. Len(bytes) : i <= MaxGroups /\ bytes[i] < Group}
<1>1. \A i \in 1 .. Len(bytes) : bytes[i] \in Int
  BY Numbers DEF Byte
<1>2. CASE last = {}
  BY <1>1, <1>2, Numbers
<1>3. CASE last # {}
  <2>1. last \subseteq Nat
    OBVIOUS
  <2>2. PICK n \in last : \A i \in last : n <= i
    <3> HIDE DEF last
    <3> QED
      BY <1>3, <2>1, LeastExists, Zenon
  <2>3. ASSUME NEW i \in 1 .. n - 1 PROVE Group <= bytes[i]
    <3>1. i \in 1 .. Len(bytes) /\ i <= MaxGroups
      BY Numbers
    <3>2. ~(n <= i)
      OBVIOUS
    <3> QED
      BY <1>1, <2>2, <3>1, <3>2, Numbers
  <2>4. Ends(bytes, n)
    BY <2>3 DEF Ends
  <2> QED
    BY <2>4
<1> QED
  BY <1>2, <1>3

\* The first part of two, and the second.
LEMMA FirstPart ==
    ASSUME NEW a \in Seq(Byte), NEW b \in Seq(Byte)
    PROVE  /\ a \o b \in Seq(Byte) /\ Len(a \o b) = Len(a) + Len(b)
           /\ Take(a \o b, Len(a)) = a /\ Drop(a \o b, Len(a)) = b
           /\ \A i \in 1 .. Len(a) : (a \o b)[i] = a[i]
  BY DEF Take, Drop

\* The first bytes of two parts are those of the first.
LEMMA FirstBytes ==
    ASSUME NEW a \in Seq(Byte), NEW b \in Seq(Byte), NEW n \in 0 .. Len(a)
    PROVE  /\ Take(a, n) \in Seq(Byte) /\ Len(Take(a, n)) = n
           /\ Drop(a, n) \in Seq(Byte) /\ Len(Drop(a, n)) = Len(a) - n
           /\ Take(a, n) \o Drop(a, n) = a
           /\ Take(a \o b, n) = Take(a, n) /\ Drop(a \o b, n) = Drop(a, n) \o b
<1>1. Take(a, n) \in Seq(Byte) /\ Len(Take(a, n)) = n /\ \A i \in 1 .. n : Take(a, n)[i] = a[i]
  BY DEF Take
<1>2. /\ Drop(a, n) \in Seq(Byte) /\ Len(Drop(a, n)) = Len(a) - n
      /\ \A i \in 1 .. Len(a) - n : Drop(a, n)[i] = a[n + i]
  BY DEF Drop
<1>3. a \o b \in Seq(Byte) /\ Len(a \o b) = Len(a) + Len(b)
  OBVIOUS
<1>4. /\ Take(a \o b, n) \in Seq(Byte) /\ Len(Take(a \o b, n)) = n
      /\ \A i \in 1 .. n : Take(a \o b, n)[i] = (a \o b)[i]
  BY <1>3 DEF Take
<1>5. /\ Drop(a \o b, n) \in Seq(Byte) /\ Len(Drop(a \o b, n)) = (Len(a) + Len(b)) - n
      /\ \A i \in 1 .. (Len(a) + Len(b)) - n : Drop(a \o b, n)[i] = (a \o b)[n + i]
  BY <1>3 DEF Drop
<1>6. Take(a \o b, n) = Take(a, n)
  BY <1>1, <1>4, SeqEqual
<1> DEFINE head == Take(a, n)
           tail == Drop(a, n)
           long == Drop(a \o b, n)
<1> HIDE DEF head, tail, long
<1>7. long = tail \o b
  <2>1. /\ tail \in Seq(Byte) /\ Len(tail) = Len(a) - n
        /\ \A i \in 1 .. Len(a) - n : tail[i] = a[n + i]
    BY <1>2 DEF tail
  <2>2. /\ tail \o b \in Seq(Byte) /\ Len(tail \o b) = (Len(a) + Len(b)) - n
        /\ \A i \in 1 .. (Len(a) + Len(b)) - n :
              (tail \o b)[i] = IF i <= Len(a) - n THEN tail[i] ELSE b[i - (Len(a) - n)]
    <3>1. /\ tail \o b \in Seq(Byte) /\ Len(tail \o b) = Len(tail) + Len(b)
          /\ \A i \in 1 .. Len(tail) + Len(b) :
                (tail \o b)[i] = IF i <= Len(tail) THEN tail[i] ELSE b[i - Len(tail)]
      BY <2>1, ConcatProperties, Zenon
    <3>2. Len(tail) + Len(b) = (Len(a) + Len(b)) - n
      BY <2>1
    <3> QED
      BY <2>1, <3>1, <3>2
  <2>3. /\ long \in Seq(Byte) /\ Len(long) = (Len(a) + Len(b)) - n
        /\ \A i \in 1 .. (Len(a) + Len(b)) - n : long[i] = (a \o b)[n + i]
    BY <1>5 DEF long
  <2>4. ASSUME NEW i \in 1 .. (Len(a) + Len(b)) - n PROVE long[i] = (tail \o b)[i]
    <3>1. (a \o b)[n + i] = IF n + i <= Len(a) THEN a[n + i] ELSE b[(n + i) - Len(a)]
      OBVIOUS
    <3>2. (n + i) - Len(a) = i - (Len(a) - n) /\ (n + i <= Len(a) <=> i <= Len(a) - n)
      OBVIOUS
    <3> QED
      BY <2>1, <2>2, <2>3, <3>1, <3>2
  <2> QED
    BY <2>2, <2>3, <2>4, SeqEqual
<1>8. head \o tail = a
  <2>1. /\ tail \in Seq(Byte) /\ Len(tail) = Len(a) - n
        /\ \A i \in 1 .. Len(a) - n : tail[i] = a[n + i]
    BY <1>2 DEF tail
  <2>2. head \in Seq(Byte) /\ Len(head) = n /\ \A i \in 1 .. n : head[i] = a[i]
    BY <1>1 DEF head
  <2>3. /\ head \o tail \in Seq(Byte) /\ Len(head \o tail) = Len(a)
        /\ \A i \in 1 .. Len(a) : (head \o tail)[i] = IF i <= n THEN head[i] ELSE tail[i - n]
    BY <2>1, <2>2, ConcatProperties
  <2>4. ASSUME NEW i \in 1 .. Len(a) PROVE (head \o tail)[i] = a[i]
    <3>1. CASE i <= n
      BY <2>2, <2>3, <3>1
    <3>2. CASE ~(i <= n)
      <4>1. i - n \in 1 .. Len(a) - n /\ n + (i - n) = i
        BY <3>2
      <4> QED
        BY <2>1, <2>3, <3>2, <4>1
    <3> QED
      BY <3>1, <3>2
  <2> QED
    BY <2>3, <2>4, SeqEqual
<1> QED
  BY <1>1, <1>2, <1>6, <1>7, <1>8 DEF head, tail, long

\* read_varint of what write_varint wrote is the number again, for every number
\* of 32 bits and whatever follows, which it leaves.
THEOREM VarIntsReadBack ==
    ASSUME NEW value \in Ints, NEW rest \in Seq(Byte)
    PROVE  ReadVarInt(WriteVarInt(value) \o rest) = Value(value, rest)
<1> DEFINE w == WriteVarInt(value)
           n == Len(w)
<1>1. /\ w \in Seq(Byte) /\ n \in 1 .. MaxGroups
      /\ \A i \in 1 .. n : w[i] < Group <=> i = n
  BY Bytes
<1>2. Signed(Unsigned(w)) = value
  BY DigitsAddUp, Unsigneds
<1> HIDE DEF w
<1>3. /\ w \o rest \in Seq(Byte) /\ Len(w \o rest) = n + Len(rest)
      /\ Take(w \o rest, n) = w /\ Drop(w \o rest, n) = rest
      /\ \A i \in 1 .. n : (w \o rest)[i] = w[i]
  BY <1>1, FirstPart
<1>4. Ends(w \o rest, n)
  <2>1. \A i \in 1 .. n : w[i] \in Int
    BY <1>1, Numbers DEF Byte
  <2> QED
    BY <1>1, <1>3, <2>1, Numbers DEF Ends
<1>5. ReadVarInt(w \o rest) = Value(Signed(Unsigned(Take(w \o rest, n))), Drop(w \o rest, n))
  BY <1>3, <1>4, ReadsToItsEnd
<1> QED
  BY <1>2, <1>3, <1>5 DEF w

\* Of a part of a number nothing is read.
LEMMA PartOfANumber ==
    ASSUME NEW value \in Ints, NEW n \in 0 .. Len(WriteVarInt(value)) - 1
    PROVE  ReadVarInt(Take(WriteVarInt(value), n)) = Eof
<1> DEFINE w == WriteVarInt(value)
           p == Take(w, n)
<1>1. /\ w \in Seq(Byte) /\ Len(w) \in 1 .. MaxGroups
      /\ \A i \in 1 .. Len(w) : w[i] < Group <=> i = Len(w)
  BY Bytes
<1>2. n \in 0 .. Len(w) - 1
  OBVIOUS
<1> HIDE DEF w
<1>3. p \in Seq(Byte) /\ Len(p) = n /\ \A i \in 1 .. n : p[i] = w[i]
  BY <1>1, <1>2 DEF Take
<1> HIDE DEF p
<1>4. ASSUME NEW i \in 1 .. Len(p) PROVE Group <= p[i]
  <2>1. Len(w) \in Nat /\ n \in Nat /\ n < Len(w) /\ i \in 1 .. n
    BY <1>1, <1>2, <1>3, Numbers
  <2>2. i \in 1 .. Len(w) /\ i # Len(w)
    BY <2>1
  <2>3. p[i] = w[i] /\ ~(w[i] < Group)
    BY <1>1, <1>3, <2>1, <2>2, Zenon
  <2>4. w[i] \in Byte
    BY <1>1, <2>2
  <2>5. w[i] \in Int /\ Group \in Int
    BY <2>4, Numbers DEF Byte
  <2> QED
    BY <2>3, <2>5
<1>5. ReadVarInt(p) = IF Len(p) < MaxGroups THEN Eof ELSE Bad
  BY <1>3, <1>4, ReadsNone
<1> QED
  BY <1>1, <1>2, <1>3, <1>5, Numbers DEF p, w

\* What is read is a number, and does not depend on what comes after.
LEMMA NumbersAreStable ==
    ASSUME NEW bytes \in Seq(Byte), NEW more \in Seq(Byte),
           ReadVarInt(bytes).outcome = "value"
    PROVE  \E v \in Int, n \in 1 .. Len(bytes) :
              /\ ReadVarInt(bytes) = Value(v, Drop(bytes, n))
              /\ ReadVarInt(bytes \o more) = Value(v, Drop(bytes, n) \o more)
<1>1. PICK n : Ends(bytes, n)
  <2>1. CASE \A i \in 1 .. Len(bytes) : i <= MaxGroups => Group <= bytes[i]
    <3>1. ReadVarInt(bytes) = Eof \/ ReadVarInt(bytes) = Bad
      BY <2>1, ReadsNone
    <3> QED
      BY <3>1 DEF Eof, Bad
  <2> QED
    BY <2>1, EndsOrNot
<1> DEFINE d == Take(bytes, n)
           v == Signed(Unsigned(d))
<1>2. ReadVarInt(bytes) = Value(v, Drop(bytes, n))
  BY <1>1, ReadsToItsEnd
<1>3. n \in 1 .. Len(bytes) /\ n <= MaxGroups
  BY <1>1 DEF Ends
<1>4. d \in Seq(Byte) /\ Len(d) = n
  BY <1>3 DEF Take
<1>5. v \in Int
  <2> HIDE DEF d
  <2>1. PICK r : Sums(r, d) /\ Unsigned(d) = r[Len(d)]
    BY <1>3, <1>4, UnsignedSums
  <2>2. Unsigned(d) \in Nat
    BY <1>3, <1>4, <2>1 DEF Sums
  <2> QED
    BY <2>2, Numbers DEF Signed
<1>6. bytes \o more \in Seq(Byte)
  OBVIOUS
<1>7. Ends(bytes \o more, n)
  BY <1>1, <1>3 DEF Ends
<1>8. Take(bytes \o more, n) = d /\ Drop(bytes \o more, n) = Drop(bytes, n) \o more
  <2>1. n \in 0 .. Len(bytes)
    BY <1>3
  <2> QED
    BY <2>1, FirstBytes
<1>9. ReadVarInt(bytes \o more) = Value(v, Drop(bytes, n) \o more)
  <2>1. ReadVarInt(bytes \o more)
          = Value(Signed(Unsigned(Take(bytes \o more, n))), Drop(bytes \o more, n))
    BY <1>6, <1>7, ReadsToItsEnd
  <2> QED
    BY <1>8, <2>1
<1> HIDE DEF v
<1> QED
  BY <1>2, <1>3, <1>5, <1>9

(***************************************************************************)
(* Strings and packets.                                                    *)
(***************************************************************************)

\* A number that is a digit is one byte.
LEMMA SmallNumbers ==
    ASSUME NEW value \in 0 .. 1
    PROVE  value \in Ints /\ WriteVarInt(value) \in Seq(Byte) /\ Len(WriteVarInt(value)) = 1
<1>1. value \in Ints /\ All(value) = value /\ value < Group
  BY Numbers DEF Ints, All
<1>2. PICK left, n : /\ Quotients(left, n, All(value))
                     /\ WriteVarInt(value) = [i \in 1 .. n |-> ByteOf(left[i], i, n)]
  BY <1>1, Written
<1>3. left[1] = value /\ n \in 1 .. MaxGroups /\ \A i \in 1 .. n - 1 : Group <= left[i]
  BY <1>1, <1>2 DEF Quotients
<1>4. n = 1
  <2>1. CASE 1 < n
    <3>1. 1 \in 1 .. n - 1
      BY <1>3, <2>1, Numbers
    <3> QED
      BY <1>1, <1>3, <3>1, Numbers
  <2> QED
    BY <1>3, <2>1, Numbers
<1>5. WriteVarInt(value) \in Seq(Byte)
  BY <1>1, Bytes
<1> QED
  BY <1>1, <1>2, <1>4, <1>5

\* More than the first of two parts.
LEMMA MoreThanTheFirst ==
    ASSUME NEW a \in Seq(Byte), NEW b \in Seq(Byte), NEW n \in Len(a) .. Len(a) + Len(b)
    PROVE  n - Len(a) \in 0 .. Len(b) /\ Take(a \o b, n) = a \o Take(b, n - Len(a))
<1> DEFINE k == n - Len(a)
           head == Take(b, k)
           long == Take(a \o b, n)
<1>1. k \in 0 .. Len(b) /\ n = Len(a) + k
  OBVIOUS
<1>2. head \in Seq(Byte) /\ Len(head) = k /\ \A i \in 1 .. k : head[i] = b[i]
  <2> HIDE DEF k
  <2> QED
    BY <1>1 DEF Take
<1>3. /\ a \o b \in Seq(Byte) /\ Len(a \o b) = Len(a) + Len(b)
      /\ \A i \in 1 .. Len(a) + Len(b) : (a \o b)[i] = IF i <= Len(a) THEN a[i] ELSE b[i - Len(a)]
  BY ConcatProperties
<1>4. long \in Seq(Byte) /\ Len(long) = n /\ \A i \in 1 .. n : long[i] = (a \o b)[i]
  BY <1>3 DEF Take
<1> HIDE DEF k, head, long
<1>5. /\ a \o head \in Seq(Byte) /\ Len(a \o head) = n
      /\ \A i \in 1 .. n : (a \o head)[i] = IF i <= Len(a) THEN a[i] ELSE head[i - Len(a)]
  BY <1>1, <1>2, ConcatProperties
<1>6. ASSUME NEW i \in 1 .. n PROVE long[i] = (a \o head)[i]
  <2>1. CASE i <= Len(a)
    BY <1>1, <1>3, <1>4, <1>5, <2>1
  <2>2. CASE ~(i <= Len(a))
    <3>1. i - Len(a) \in 1 .. k /\ i \in 1 .. Len(a) + Len(b)
      BY <1>1, <2>2
    <3> QED
      BY <1>2, <1>3, <1>4, <1>5, <2>2, <3>1
  <2> QED
    BY <2>1, <2>2
<1>7. long = a \o head
  BY <1>4, <1>5, <1>6, SeqEqual
<1> QED
  BY <1>1, <1>7 DEF k, head, long

\* Three parts.
LEMMA ThreeParts ==
    ASSUME NEW a \in Seq(Byte), NEW b \in Seq(Byte), NEW c \in Seq(Byte)
    PROVE  (a \o b) \o c = a \o (b \o c)
  BY ConcatAssociative

Reassociates(a, b, c, d) == ((a \o b) \o c) \o d = a \o (b \o (c \o d))

LEMMA FourParts ==
    ASSUME NEW a \in Seq(Byte), NEW b \in Seq(Byte), NEW c \in Seq(Byte), NEW d \in Seq(Byte)
    PROVE  Reassociates(a, b, c, d)
<1> DEFINE ab == a \o b
           cd == c \o d
<1>1. ab \in Seq(Byte) /\ cd \in Seq(Byte)
  OBVIOUS
<1>2. ab \o cd = a \o (b \o cd)
  <2> HIDE DEF cd
  <2>1. cd \in Seq(Byte)
    BY <1>1
  <2>2. (a \o b) \o cd = a \o (b \o cd)
    BY <2>1, ThreeParts, Zenon
  <2> QED
    BY <2>2, Zenon
<1>3. (ab \o c) \o d = ab \o cd
  <2> HIDE DEF ab
  <2>1. ab \in Seq(Byte)
    BY <1>1
  <2>2. (ab \o c) \o d = ab \o (c \o d)
    BY <2>1, ThreeParts, Zenon
  <2> QED
    BY <2>2, Zenon
<1> QED
  BY <1>2, <1>3, Zenon DEF Reassociates

\* A reader that goes by a length it reads first.
LEMMA UtfOf ==
    ASSUME NEW bytes, NEW length \in Nat, NEW rest, ReadVarInt(bytes) = Value(length, rest)
    PROVE  ReadUtf(bytes) =
             IF Len(rest) < length THEN Eof
             ELSE IF Undecodable \cap ToSet(Take(rest, length)) # {} THEN Bad
             ELSE Value(Take(rest, length), Drop(rest, length))
<1>1. ReadVarInt(bytes).outcome = "value" /\ ReadVarInt(bytes).value = length
      /\ ReadVarInt(bytes).rest = rest
  BY DEF Value
<1>2. ReadUtf(bytes) =
        LET n == IF length < 0 THEN Len(rest) ELSE length
        IN IF Len(rest) < n THEN Eof
           ELSE IF Undecodable \cap ToSet(Take(rest, n)) # {} THEN Bad
           ELSE Value(Take(rest, n), Drop(rest, n))
  BY <1>1, Zenon DEF ReadUtf, Then
<1>3. ~(length < 0)
  OBVIOUS
<1> QED
  BY <1>2, <1>3, Zenon

LEMMA NoUtfOf ==
    ASSUME NEW bytes, ReadVarInt(bytes) = Eof
    PROVE  ReadUtf(bytes) = Eof
<1>1. ReadVarInt(bytes).outcome # "value"
  BY DEF Eof
<1> QED
  BY <1>1, Zenon DEF ReadUtf, Then

LEMMA TextsAreBytes ==
    ASSUME NEW t \in Texts
    PROVE  /\ t \in Seq(Byte) /\ Undecodable \cap ToSet(t) = {}
           /\ Len(t) \in Nat /\ Len(t) < SignBit
  BY Numbers DEF Texts

LEMMA UtfReadsBack ==
    ASSUME NEW t \in Texts, NEW rest \in Seq(Byte)
    PROVE  /\ WriteUtf(t) \in Seq(Byte) /\ Len(t) <= Len(WriteUtf(t))
           /\ ReadUtf(WriteUtf(t) \o rest) = Value(t, rest)
<1> DEFINE w == WriteVarInt(Len(t))
           bytes == WriteUtf(t) \o rest
<1>1. t \in Seq(Byte) /\ Undecodable \cap ToSet(t) = {}
  BY TextsAreBytes
<1>2. Len(t) \in Ints /\ Len(t) \in Nat
  BY TextsAreBytes, Numbers DEF Ints
<1>3. w \in Seq(Byte)
  BY <1>2, Bytes
<1>4. bytes = w \o (t \o rest) /\ WriteUtf(t) \in Seq(Byte) /\ Len(t) <= Len(WriteUtf(t))
  <2> HIDE DEF w
  <2>1. WriteUtf(t) = w \o t
    BY DEF WriteUtf, w
  <2> QED
    BY <1>1, <1>3, <2>1, ThreeParts
<1>5. t \o rest \in Seq(Byte) /\ Take(t \o rest, Len(t)) = t /\ Drop(t \o rest, Len(t)) = rest
      /\ ~(Len(t \o rest) < Len(t))
  BY <1>1, FirstPart
<1>6. ReadVarInt(w \o (t \o rest)) = Value(Len(t), t \o rest)
  BY <1>2, <1>5, VarIntsReadBack
<1>7. ReadUtf(w \o (t \o rest)) =
        IF Len(t \o rest) < Len(t) THEN Eof
        ELSE IF Undecodable \cap ToSet(Take(t \o rest, Len(t))) # {} THEN Bad
        ELSE Value(Take(t \o rest, Len(t)), Drop(t \o rest, Len(t)))
  BY <1>2, <1>6, UtfOf, Zenon
<1> QED
  BY <1>1, <1>4, <1>5, <1>7, Zenon

\* Of a part of a string nothing is read.
LEMMA PartOfAString ==
    ASSUME NEW t \in Texts, NEW n \in 0 .. Len(WriteUtf(t)) - 1
    PROVE  ReadUtf(Take(WriteUtf(t), n)) = Eof
<1> DEFINE w == WriteVarInt(Len(t))
<1>1. t \in Seq(Byte)
  BY TextsAreBytes
<1>2. Len(t) \in Ints /\ Len(t) \in Nat
  BY TextsAreBytes, Numbers DEF Ints
<1>3. w \in Seq(Byte)
  BY <1>2, Bytes
<1>4. WriteUtf(t) = w \o t
  BY DEF WriteUtf
<1>5. CASE n < Len(w)
  <2>1. n \in 0 .. Len(w) - 1 /\ n \in 0 .. Len(w)
    BY <1>3, <1>5
  <2>2. Take(WriteUtf(t), n) = Take(w, n)
    <3> HIDE DEF w
    <3> QED
      BY <1>1, <1>3, <1>4, <2>1, FirstBytes
  <2>3. ReadVarInt(Take(w, n)) = Eof
    BY <1>2, <2>1, PartOfANumber
  <2> QED
    BY <2>2, <2>3, NoUtfOf
<1>6. CASE Len(w) <= n
  <2> DEFINE head == Take(t, n - Len(w))
  <2>1. n \in Len(w) .. Len(w) + Len(t) /\ n < Len(w) + Len(t)
    <3> HIDE DEF w
    <3> QED
      BY <1>1, <1>3, <1>4, <1>6
  <2>2. n - Len(w) \in 0 .. Len(t) /\ Take(WriteUtf(t), n) = w \o head
    <3> HIDE DEF w
    <3> QED
      BY <1>1, <1>3, <1>4, <2>1, MoreThanTheFirst
  <2>3. head \in Seq(Byte) /\ Len(head) < Len(t)
    <3> HIDE DEF w
    <3> QED
      BY <1>1, <1>3, <2>1, <2>2, FirstBytes
  <2>4. ReadVarInt(w \o head) = Value(Len(t), head)
    BY <1>2, <2>3, VarIntsReadBack
  <2>5. ReadUtf(w \o head) =
        IF Len(head) < Len(t) THEN Eof
        ELSE IF Undecodable \cap ToSet(Take(head, Len(t))) # {} THEN Bad
        ELSE Value(Take(head, Len(t)), Drop(head, Len(t)))
    BY <1>2, <2>4, UtfOf, Zenon
  <2> QED
    BY <2>2, <2>3, <2>5, Zenon
<1> QED
  BY <1>3, <1>5, <1>6

\* Bytes and their length in front of them.
Framed(inner) == WriteVarInt(Len(inner)) \o inner

\* What is read of a frame: its packet, or nothing if it is cut short.
LEMMA PacketOf ==
    ASSUME NEW bytes, NEW length \in 1 .. MaxPacket, NEW rest,
           ReadVarInt(bytes) = Value(length, rest)
    PROVE  /\ Len(rest) < length => ReadPacket(bytes) = Eof
           /\ \A id, payload :
                ~(Len(rest) < length) /\ ReadVarInt(Take(rest, length)) = Value(id, payload) =>
                    ReadPacket(bytes)
                        = Value([id |-> id, payload |-> payload], Drop(rest, length))
<1>1. ReadVarInt(bytes).outcome = "value" /\ ReadVarInt(bytes).value = length
      /\ ReadVarInt(bytes).rest = rest
  BY DEF Value
<1>2. ReadPacket(bytes) =
        IF length <= 0 THEN Eof
        ELSE IF length > MaxPacket THEN Bad
        ELSE IF Len(rest) < length THEN Eof
        ELSE Then(ReadVarInt(Take(rest, length)), LAMBDA id, payload :
                 Value([id |-> id, payload |-> payload], Drop(rest, length)))
  BY <1>1, Zenon DEF ReadPacket, Then
<1>3. ~(length <= 0) /\ ~(length > MaxPacket)
  BY Numbers
<1>4. Len(rest) < length => ReadPacket(bytes) = Eof
  BY <1>2, <1>3, Zenon
<1>5. ASSUME NEW id, NEW payload, ~(Len(rest) < length),
             ReadVarInt(Take(rest, length)) = Value(id, payload)
      PROVE  ReadPacket(bytes) = Value([id |-> id, payload |-> payload], Drop(rest, length))
  <2> DEFINE read == ReadVarInt(Take(rest, length))
  <2>1. read.outcome = "value" /\ read.value = id /\ read.rest = payload
    BY <1>5 DEF Value
  <2>2. ReadPacket(bytes) =
          IF read.outcome = "value"
          THEN Value([id |-> read.value, payload |-> read.rest], Drop(rest, length)) ELSE read
    BY <1>2, <1>3, <1>5, Zenon DEF Then
  <2> HIDE DEF read
  <2> QED
    BY <2>1, <2>2, Zenon
<1> QED
  BY <1>4, <1>5, Zenon

LEMMA NoPacketOf ==
    ASSUME NEW bytes, ReadVarInt(bytes) = Eof
    PROVE  ReadPacket(bytes) = Eof
<1>1. ReadVarInt(bytes).outcome # "value"
  BY DEF Eof
<1> QED
  BY <1>1, Zenon DEF ReadPacket, Then

LEMMA Lengths ==
    ASSUME NEW length \in 1 .. MaxPacket
    PROVE  length \in Ints /\ length \in Nat /\ WriteVarInt(length) \in Seq(Byte)
<1>1. length \in Ints /\ length \in Nat
  BY Numbers DEF Ints
<1> QED
  BY <1>1, Bytes

StartsWith(inner, id, payload) == ReadVarInt(inner) = Value(id, payload)

LEMMA FrameReadsBack ==
    ASSUME NEW inner \in Seq(Byte), Len(inner) \in 1 .. MaxPacket, NEW rest \in Seq(Byte),
           NEW id, NEW payload, StartsWith(inner, id, payload)
    PROVE  /\ Framed(inner) \in Seq(Byte)
           /\ ReadPacket(Framed(inner) \o rest) = Value([id |-> id, payload |-> payload], rest)
<1> DEFINE w == WriteVarInt(Len(inner))
           long == inner \o rest
<1>1. w \in Seq(Byte) /\ Len(inner) \in Ints
  BY Lengths
<1>2. Framed(inner) \o rest = w \o long /\ Framed(inner) \in Seq(Byte)
  <2> HIDE DEF w
  <2>1. Framed(inner) = w \o inner
    BY DEF Framed, w
  <2> QED
    BY <1>1, <2>1, ThreeParts
<1>3. /\ long \in Seq(Byte) /\ ~(Len(long) < Len(inner))
      /\ Take(long, Len(inner)) = inner /\ Drop(long, Len(inner)) = rest
  BY FirstPart
<1> HIDE DEF long
<1>4. ReadVarInt(w \o long) = Value(Len(inner), long)
  BY <1>1, <1>3, VarIntsReadBack
<1>5. ReadVarInt(Take(long, Len(inner))) = Value(id, payload)
  BY <1>3, Zenon DEF StartsWith
<1>6. ReadPacket(w \o long) = Value([id |-> id, payload |-> payload], Drop(long, Len(inner)))
  BY <1>3, <1>4, <1>5, PacketOf, Zenon
<1> QED
  BY <1>2, <1>3, <1>6, Zenon

LEMMA PartOfAFrame ==
    ASSUME NEW inner \in Seq(Byte), Len(inner) \in 1 .. MaxPacket,
           NEW n \in 0 .. Len(Framed(inner)) - 1
    PROVE  ReadPacket(Take(Framed(inner), n)) = Eof
<1> DEFINE w == WriteVarInt(Len(inner))
<1>1. w \in Seq(Byte) /\ Len(inner) \in Ints
  BY Lengths
<1>2. Framed(inner) = w \o inner
  BY DEF Framed
<1>3. CASE n < Len(w)
  <2>1. n \in 0 .. Len(w) - 1 /\ n \in 0 .. Len(w)
    <3> HIDE DEF w
    <3> QED
      BY <1>1, <1>2, <1>3
  <2>2. Take(Framed(inner), n) = Take(w, n)
    <3> HIDE DEF w
    <3> QED
      BY <1>1, <1>2, <2>1, FirstBytes
  <2>3. ReadVarInt(Take(w, n)) = Eof
    BY <1>1, <2>1, PartOfANumber
  <2> QED
    BY <2>2, <2>3, NoPacketOf
<1>4. CASE Len(w) <= n
  <2> DEFINE head == Take(inner, n - Len(w))
  <2>1. n \in Len(w) .. Len(w) + Len(inner) /\ n < Len(w) + Len(inner)
    <3> HIDE DEF w
    <3> QED
      BY <1>1, <1>2, <1>4
  <2>2. n - Len(w) \in 0 .. Len(inner) /\ Take(Framed(inner), n) = w \o head
    <3> HIDE DEF w
    <3> QED
      BY <1>1, <1>2, <2>1, MoreThanTheFirst
  <2>3. head \in Seq(Byte) /\ Len(head) < Len(inner)
    <3> DEFINE k == n - Len(w)
    <3>1. k \in 0 .. Len(inner) /\ k < Len(inner)
      <4> HIDE DEF w
      <4> QED
        BY <1>1, <2>1, <2>2
    <3> HIDE DEF k
    <3>2. Take(inner, k) \in Seq(Byte) /\ Len(Take(inner, k)) = k
      BY <3>1, FirstBytes, Zenon
    <3> QED
      BY <3>1, <3>2 DEF k
  <2> HIDE DEF head
  <2>4. ReadVarInt(w \o head) = Value(Len(inner), head)
    BY <1>1, <2>3, VarIntsReadBack
  <2>5. ReadPacket(w \o head) = Eof
    BY <2>3, <2>4, PacketOf, Zenon
  <2> QED
    BY <2>2, <2>5
<1> QED
  BY <1>1, <1>3, <1>4

\* A packet is a frame.
LEMMA PacketIsAFrame ==
    ASSUME NEW id \in 0 .. 1, NEW payload \in Seq(Byte), Len(payload) < MaxPacket
    PROVE  \E inner \in Seq(Byte) :
              /\ Len(inner) \in 1 .. MaxPacket /\ ReadVarInt(inner) = Value(id, payload)
              /\ BuildPacket(id, payload) = Framed(inner)
<1> DEFINE tag   == WriteVarInt(id)
           inner == tag \o payload
<1>1. tag \in Seq(Byte) /\ Len(tag) = 1 /\ id \in Ints
  BY SmallNumbers
<1>2. BuildPacket(id, payload) = Framed(inner)
  BY Zenon DEF BuildPacket, Framed
<1>3. ReadVarInt(inner) = Value(id, payload)
  BY <1>1, VarIntsReadBack
<1> HIDE DEF tag
<1>4. inner \in Seq(Byte) /\ Len(inner) = Len(tag) + Len(payload)
  BY <1>1, FirstPart
<1> HIDE DEF inner
<1>5. Len(inner) \in 1 .. MaxPacket
  BY <1>1, <1>4, Numbers
<1> QED
  BY <1>2, <1>3, <1>4, <1>5

\* read_packet of what build_packet made is the packet, and it leaves what
\* follows, so that several packets in one stream are told apart.
THEOREM PacketReadsBack ==
    ASSUME NEW id \in 0 .. 1, NEW payload \in Seq(Byte), Len(payload) < MaxPacket,
           NEW rest \in Seq(Byte)
    PROVE  /\ BuildPacket(id, payload) \in Seq(Byte)
           /\ ReadPacket(BuildPacket(id, payload) \o rest)
                = Value([id |-> id, payload |-> payload], rest)
<1>1. PICK inner \in Seq(Byte) :
         /\ Len(inner) \in 1 .. MaxPacket /\ ReadVarInt(inner) = Value(id, payload)
         /\ BuildPacket(id, payload) = Framed(inner)
  BY PacketIsAFrame
<1>2. /\ Framed(inner) \in Seq(Byte)
      /\ ReadPacket(Framed(inner) \o rest) = Value([id |-> id, payload |-> payload], rest)
  <2>1. Len(inner) \in 1 .. MaxPacket
    BY <1>1
  <2>2. StartsWith(inner, id, payload)
    BY <1>1, Zenon DEF StartsWith
  <2> QED
    BY <2>1, <2>2, FrameReadsBack, Zenon
<1> QED
  BY <1>1, <1>2, Zenon

\* read_packet of a stream that ends inside a packet, wherever, is an EOFError.
THEOREM PartOfAPacket ==
    ASSUME NEW id \in 0 .. 1, NEW payload \in Seq(Byte), Len(payload) < MaxPacket,
           NEW n \in 0 .. Len(BuildPacket(id, payload)) - 1
    PROVE  ReadPacket(Take(BuildPacket(id, payload), n)) = Eof
<1>1. PICK inner \in Seq(Byte) :
         /\ Len(inner) \in 1 .. MaxPacket /\ ReadVarInt(inner) = Value(id, payload)
         /\ BuildPacket(id, payload) = Framed(inner)
  BY PacketIsAFrame
<1>2. n \in 0 .. Len(Framed(inner)) - 1
  BY <1>1, Zenon
<1>3. ReadPacket(Take(Framed(inner), n)) = Eof
  BY <1>1, <1>2, PartOfAFrame, Zenon
<1> QED
  BY <1>1, <1>3, Zenon

\* The two bytes of a port.
PortBytes(port) == <<port \div (2 * Group), port % (2 * Group)>>

LEMMA PortReadsBack ==
    ASSUME NEW port \in 0 .. (2 * Group) * (2 * Group) - 1, NEW rest \in Seq(Byte)
    PROVE  /\ PortBytes(port) \in Seq(Byte)
           /\ ReadUnsignedShort(PortBytes(port) \o rest) = Value(port, rest)
<1> DEFINE b  == 2 * Group
           hi == port \div b
           lo == port % b
<1>1. b \in Nat \ {0} /\ port \in Nat
  BY Numbers
<1>2. hi \in Nat /\ lo \in 0 .. b - 1 /\ port = (b * hi) + lo
  <2> HIDE DEF b
  <2> QED
    BY <1>1, DivMod
<1>3. port < b * b
  BY Numbers
<1>4. Byte = 0 .. b - 1 /\ PortBytes(port) = <<hi, lo>>
  BY Zenon DEF Byte, PortBytes
<1>5. ReadUnsignedShort(<<hi, lo>> \o rest) =
        IF Len(<<hi, lo>> \o rest) < 2 THEN Eof
        ELSE Value((<<hi, lo>> \o rest)[1] * 2 * Group + (<<hi, lo>> \o rest)[2],
                   Drop(<<hi, lo>> \o rest, 2))
  BY Zenon DEF ReadUnsignedShort
<1> HIDE DEF hi, lo
<1>6. hi < b
  <2>1. CASE b <= hi
    <3> HIDE DEF b
    <3>1. b * b <= b * hi
      BY <1>1, <1>2, <2>1
    <3>2. b * b \in Nat /\ b * hi \in Nat
      BY <1>1, <1>2
    <3> QED
      BY <1>1, <1>2, <1>3, <3>1, <3>2
  <2> QED
    BY <1>1, <1>2, <2>1
<1>7. <<hi, lo>> \in Seq(Byte) /\ Len(<<hi, lo>>) = 2
  <2>1. hi \in Byte /\ lo \in Byte
    <3> HIDE DEF b
    <3> QED
      BY <1>1, <1>2, <1>4, <1>6
  <2> QED
    BY <2>1
<1> DEFINE s == <<hi, lo>> \o rest
<1>8. /\ ~(Len(s) < 2) /\ s[1] = hi /\ s[2] = lo /\ Drop(s, 2) = rest
  <2> DEFINE p == <<hi, lo>>
  <2>1. p[1] = hi /\ p[2] = lo
    OBVIOUS
  <2>2. p \in Seq(Byte) /\ Len(p) = 2
    BY <1>7
  <2> HIDE DEF p
  <2>3. /\ Len(p \o rest) = Len(p) + Len(rest) /\ Drop(p \o rest, Len(p)) = rest
        /\ \A i \in 1 .. Len(p) : (p \o rest)[i] = p[i]
    BY <2>2, FirstPart, Zenon
  <2>4. /\ ~(Len(p \o rest) < 2) /\ (p \o rest)[1] = hi /\ (p \o rest)[2] = lo
        /\ Drop(p \o rest, 2) = rest
    BY <2>1, <2>2, <2>3
  <2> QED
    BY <2>4 DEF p
<1>9. ReadUnsignedShort(s) = Value(s[1] * 2 * Group + s[2], Drop(s, 2))
  BY <1>5, <1>8, Zenon
<1> HIDE DEF s
<1>10. s[1] * 2 * Group + s[2] = port
  <2>1. hi * 2 * Group = (2 * Group) * hi
    BY <1>2, Numbers
  <2>2. hi * 2 * Group + lo = port
    BY <1>2, <2>1
  <2> QED
    BY <1>8, <2>2
<1> QED
  BY <1>4, <1>7, <1>8, <1>9, <1>10 DEF s

\* A greeting is read back.
LEMMA GreetingReadsBack ==
    ASSUME NEW h \in [protocol_version : Ints, server_address : Texts,
                      server_port : 0 .. (2 * Group) * (2 * Group) - 1, next_state : Ints]
    PROVE  Greeting(h) \in Seq(Byte) /\ ParseHandshake(Greeting(h)) = Value(h, <<>>)
<1> DEFINE v == WriteVarInt(h.protocol_version)
           u == WriteUtf(h.server_address)
           p == PortBytes(h.server_port)
           e == WriteVarInt(h.next_state)
           g == Greeting(h)
<1>1. /\ h.protocol_version \in Ints /\ h.server_address \in Texts /\ h.next_state \in Ints
      /\ h.server_port \in 0 .. (2 * Group) * (2 * Group) - 1
  OBVIOUS
<1>2. v \in Seq(Byte) /\ e \in Seq(Byte)
  BY <1>1, Bytes
<1>3. p \in Seq(Byte) /\ u \in Seq(Byte) /\ <<>> \in Seq(Byte)
  <2>1. <<>> \in Seq(Byte)
    OBVIOUS
  <2> QED
    BY <1>1, <2>1, PortReadsBack, UtfReadsBack, Zenon
<1>4. g = ((v \o u) \o p) \o e
  BY Zenon DEF Greeting, PortBytes
<1> DEFINE r3 == e
           r2 == p \o r3
           r1 == u \o r2
<1>5. r1 \in Seq(Byte) /\ r2 \in Seq(Byte) /\ e = e \o <<>> /\ g = v \o r1 /\ g \in Seq(Byte)
  <2> HIDE DEF v, u, p, e, g
  <2>1. p \o e \in Seq(Byte) /\ u \o (p \o e) \in Seq(Byte) /\ v \o (u \o (p \o e)) \in Seq(Byte)
    BY <1>2, <1>3
  <2>2. ((v \o u) \o p) \o e = v \o (u \o (p \o e))
    <3>1. Reassociates(v, u, p, e)
      BY <1>2, <1>3, FourParts, Zenon
    <3> QED
      BY <3>1, Zenon DEF Reassociates
  <2>4. e = e \o <<>>
    BY <1>2
  <2> QED
    BY <1>4, <2>1, <2>2, <2>4, Zenon
<1>6. ReadVarInt(e) = Value(h.next_state, <<>>)
  <2>1. ReadVarInt(e \o <<>>) = Value(h.next_state, <<>>)
    BY <1>1, <1>3, VarIntsReadBack, Zenon
  <2> QED
    BY <1>5, <2>1, Zenon
<1>7. ReadUnsignedShort(r2) = Value(h.server_port, r3)
  BY <1>1, <1>2, PortReadsBack, Zenon
<1>8. ReadUtf(r1) = Value(h.server_address, r2)
  BY <1>1, <1>5, UtfReadsBack, Zenon
<1>9. ReadVarInt(v \o r1) = Value(h.protocol_version, r1)
  BY <1>1, <1>5, VarIntsReadBack, Zenon
<1> HIDE DEF v, r1, r2, r3, e, g
<1>10. ReadVarInt(r3) = Value(h.next_state, <<>>)
  BY <1>6 DEF r3
<1>11. ReadVarInt(g) = Value(h.protocol_version, r1)
  BY <1>5, <1>9, Zenon
<1>12. ParseHandshake(g)
         = Value([protocol_version |-> h.protocol_version, server_address |-> h.server_address,
                  server_port |-> h.server_port, next_state |-> h.next_state], <<>>)
  <2>1. ReadVarInt(g).outcome = "value" /\ ReadVarInt(g).value = h.protocol_version
        /\ ReadVarInt(g).rest = r1
    BY <1>11 DEF Value
  <2>2. ReadUtf(r1).outcome = "value" /\ ReadUtf(r1).value = h.server_address
        /\ ReadUtf(r1).rest = r2
    BY <1>8 DEF Value
  <2>3. ReadUnsignedShort(r2).outcome = "value" /\ ReadUnsignedShort(r2).value = h.server_port
        /\ ReadUnsignedShort(r2).rest = r3
    BY <1>7 DEF Value
  <2>4. ReadVarInt(r3).outcome = "value" /\ ReadVarInt(r3).value = h.next_state
        /\ ReadVarInt(r3).rest = <<>>
    BY <1>10 DEF Value
  <2> QED
    BY <2>1, <2>2, <2>3, <2>4, Zenon DEF ParseHandshake, Then
<1>13. h = [protocol_version |-> h.protocol_version, server_address |-> h.server_address,
            server_port |-> h.server_port, next_state |-> h.next_state]
  OBVIOUS
<1> QED
  BY <1>5, <1>12, <1>13, Zenon DEF g

\* A login's packet is read back, and not if it is cut off inside.
LEMMA LoginReadsBack ==
    ASSUME NEW t \in Texts, NEW more \in Seq(Byte)
    PROVE  /\ WriteUtf(t) \o more \in Seq(Byte)
           /\ ParseLoginStart(WriteUtf(t) \o more) = Value(t, more)
<1>1. WriteUtf(t) \in Seq(Byte) /\ ReadUtf(WriteUtf(t) \o more) = Value(t, more)
  BY UtfReadsBack
<1>2. WriteUtf(t) \o more \in Seq(Byte)
  BY <1>1
<1> QED
  BY <1>1, <1>2, Zenon DEF ParseLoginStart

(***************************************************************************)
(* Sessions.                                                               *)
(***************************************************************************)

\* What is left of all that was sent: all of it, or for a client that broke off
\* a part.
Left(whole, bytes, all) ==
    IF whole THEN bytes = all ELSE \E n \in 0 .. Len(all) - 1 : bytes = Take(all, n)

HasPacket(bytes) == ReadPacket(bytes).outcome = "value"

ReadsFirst(whole, bytes, id, payload, others) ==
    /\ ReadPacket(bytes).value.id = id /\ ReadPacket(bytes).value.payload = payload
    /\ Left(whole, ReadPacket(bytes).rest, others)

\* If a packet is read, it is the first that was sent, and what is left is left
\* of the others.
LEMMA NextPacket ==
    ASSUME NEW id \in 0 .. 1, NEW payload \in Seq(Byte), Len(payload) < MaxPacket,
           NEW others \in Seq(Byte), NEW whole, NEW bytes,
           Left(whole, bytes, BuildPacket(id, payload) \o others), HasPacket(bytes)
    PROVE  ReadsFirst(whole, bytes, id, payload, others)
<1> DEFINE p == BuildPacket(id, payload)
<1>1. p \in Seq(Byte)
  <2>1. <<>> \in Seq(Byte)
    OBVIOUS
  <2> QED
    BY <2>1, PacketReadsBack, Zenon
<1>2. ASSUME NEW rest \in Seq(Byte), bytes = p \o rest, Left(whole, rest, others)
      PROVE  ReadsFirst(whole, bytes, id, payload, others)
  <2>1. ReadPacket(bytes) = Value([id |-> id, payload |-> payload], rest)
    BY <1>2, PacketReadsBack, Zenon
  <2>2. ReadPacket(bytes).value = [id |-> id, payload |-> payload] /\ ReadPacket(bytes).rest = rest
    BY <2>1 DEF Value
  <2>3. ReadPacket(bytes).value.id = id /\ ReadPacket(bytes).value.payload = payload
    BY <2>2
  <2> QED
    BY <1>2, <2>2, <2>3, Zenon DEF ReadsFirst
<1>3. CASE whole
  <2>1. bytes = p \o others /\ Left(whole, others, others)
    BY <1>3, Zenon DEF Left
  <2> QED
    BY <1>2, <2>1, Zenon
<1>4. CASE ~whole
  <2>1. PICK n \in 0 .. Len(p \o others) - 1 : bytes = Take(p \o others, n)
    BY <1>4, Zenon DEF Left
  <2>2. n \in 0 .. (Len(p) + Len(others)) - 1 /\ Len(p) \in Nat /\ Len(others) \in Nat
    <3>1. Len(p \o others) = Len(p) + Len(others)
      <4> HIDE DEF p
      <4> QED
        BY <1>1
    <3> HIDE DEF p
    <3> QED
      BY <1>1, <2>1, <3>1
  <2>3. CASE n < Len(p)
    <3>1. n \in 0 .. Len(p) - 1 /\ n \in 0 .. Len(p)
      <4> HIDE DEF p
      <4> QED
        BY <2>2, <2>3
    <3>2. Take(p \o others, n) = Take(p, n)
      <4> HIDE DEF p
      <4> QED
        BY <1>1, <3>1, FirstBytes, Zenon
    <3>3. ReadPacket(Take(p, n)) = Eof
      BY <3>1, PartOfAPacket, Zenon
    <3>4. ReadPacket(bytes) = Eof
      BY <2>1, <3>2, <3>3, Zenon
    <3>5. Eof.outcome # "value"
      BY DEF Eof
    <3> QED
      BY <3>4, <3>5, Zenon DEF HasPacket
  <2>4. CASE Len(p) <= n
    <3> DEFINE k == n - Len(p)
    <3>1. k \in 0 .. Len(others) /\ Take(p \o others, n) = p \o Take(others, k)
          /\ k \in 0 .. Len(others) - 1
      <4> HIDE DEF p
      <4>1. n \in Len(p) .. Len(p) + Len(others)
        BY <2>2, <2>4
      <4>2. n - Len(p) \in 0 .. Len(others) /\ Take(p \o others, n) = p \o Take(others, n - Len(p))
        BY <1>1, <4>1, MoreThanTheFirst, Zenon
      <4>3. n - Len(p) \in 0 .. Len(others) - 1
        BY <2>2, <2>4
      <4> QED
        BY <4>2, <4>3, Zenon DEF k
    <3> HIDE DEF k
    <3>2. Take(others, k) \in Seq(Byte)
      BY <3>1, FirstBytes, Zenon
    <3>3. Left(whole, Take(others, k), others)
      BY <1>4, <3>1, Zenon DEF Left
    <3>4. bytes = p \o Take(others, k)
      BY <2>1, <3>1, Zenon
    <3> QED
      BY <1>2, <3>2, <3>3, <3>4, Zenon
  <2> QED
    <3> HIDE DEF p
    <3>1. n < Len(p) \/ Len(p) <= n
      BY <2>2
    <3> QED
      BY <2>3, <2>4, <3>1, Zenon
<1> QED
  BY <1>3, <1>4, Zenon

\* Nothing is left of nothing by a client that broke off.
LEMMA NothingLeft ==
    ASSUME NEW whole, NEW bytes, Left(whole, bytes, <<>>)
    PROVE  whole
<1>1. Len(<<>>) = 0 /\ 0 .. 0 - 1 = {}
  OBVIOUS
<1> QED
  BY <1>1, Zenon DEF Left

Truthful(c) == Honest(c) \/ CutOff(c)

\* What a client that says something may say.
LEMMA Sayings ==
    ASSUME NEW says, Sayable(says)
    PROVE  /\ says.handshake \in [protocol_version : Ints, server_address : Texts,
                  server_port : 0 .. (2 * Group) * (2 * Group) - 1, next_state : Ints]
           /\ Len(Greeting(says.handshake)) < MaxPacket
           /\ says.handshake.next_state = 1 =>
                 says.ping \in Seq(Byte) /\ Len(says.ping) < MaxPacket /\ Len(says.ping) <= LongBytes
           /\ says.handshake.next_state = 2 =>
                 /\ says.name \in Texts \ {Unheard} /\ says.more \in Seq(Byte)
                 /\ Len(Login(says)) < MaxPacket
<1> DEFINE next == says.handshake.next_state
           pings == says.ping \in Seq(Byte) /\ Len(says.ping) < MaxPacket
                       /\ Len(says.ping) <= LongBytes
           logs == says.name \in Texts \ {Unheard} /\ says.more \in Seq(Byte)
                       /\ Len(Login(says)) < MaxPacket
<1>1. /\ says.handshake \in [protocol_version : Ints, server_address : Texts,
                  server_port : 0 .. (2 * Group) * (2 * Group) - 1, next_state : Ints]
      /\ Len(Greeting(says.handshake)) < MaxPacket
      /\ CASE next = 1 -> pings [] next = 2 -> logs [] OTHER -> TRUE
  BY Zenon DEF Sayable
<1> HIDE DEF next, pings, logs
<1>2. next = 1 => pings
  BY <1>1
<1>3. next = 2 => logs
  BY <1>1
<1> QED
  BY <1>1, <1>2, <1>3, Zenon DEF next, pings, logs

\* The packets after the first.
Later(says) ==
    CASE says.handshake.next_state = 1 -> BuildPacket(0, <<>>) \o BuildPacket(1, says.ping)
      [] says.handshake.next_state = 2 -> BuildPacket(0, Login(says))
      [] OTHER                         -> <<>>

LEMMA LaterPackets ==
    ASSUME NEW says, Sayable(says)
    PROVE  /\ Later(says) \in Seq(Byte)
           /\ Sent(says) = BuildPacket(0, Greeting(says.handshake)) \o Later(says)
           /\ says.handshake.next_state = 1 =>
                Later(says) = BuildPacket(0, <<>>) \o (BuildPacket(1, says.ping) \o <<>>)
           /\ says.handshake.next_state = 2 => Later(says) = BuildPacket(0, Login(says)) \o <<>>
<1> DEFINE next == says.handshake.next_state
           s == BuildPacket(0, <<>>)
           g == BuildPacket(1, says.ping)
           l == BuildPacket(0, Login(says))
<1>1. <<>> \in Seq(Byte) /\ Len(<<>>) < MaxPacket /\ 0 \in 0 .. 1 /\ 1 \in 0 .. 1
  BY Numbers
<1>2. s \in Seq(Byte)
  BY <1>1, PacketReadsBack, Zenon
<1>3. next = 1 => g \in Seq(Byte)
  BY <1>1, Sayings, PacketReadsBack, Zenon
<1>4. next = 2 => l \in Seq(Byte)
  <2>1. SUFFICES ASSUME next = 2 PROVE l \in Seq(Byte)
    OBVIOUS
  <2>2. says.name \in Texts /\ says.more \in Seq(Byte) /\ Len(Login(says)) < MaxPacket
    BY <2>1, Sayings
  <2>3. Login(says) \in Seq(Byte)
    BY <2>2, LoginReadsBack, Zenon DEF Login
  <2> QED
    BY <1>1, <2>2, <2>3, PacketReadsBack, Zenon
<1>5. Later(says) = CASE next = 1 -> s \o g [] next = 2 -> l [] OTHER -> <<>>
  BY Zenon DEF Later
<1>6. Sent(says) = BuildPacket(0, Greeting(says.handshake)) \o Later(says)
  BY Zenon DEF Sent, Later
<1> HIDE DEF next, s, g, l
<1>7. Later(says) \in Seq(Byte)
  BY <1>2, <1>3, <1>4, <1>5
<1>8. next = 1 => Later(says) = s \o (g \o <<>>)
  BY <1>2, <1>3, <1>5
<1>9. next = 2 => Later(says) = l \o <<>>
  BY <1>4, <1>5
<1> QED
  BY <1>6, <1>7, <1>8, <1>9, Zenon DEF next, s, g, l

\* What is left of a login that may also break off inside.
LoginLeft(c, bytes) ==
    \/ Left(c.whole, bytes, BuildPacket(0, Login(c.says)) \o <<>>)
    \/ /\ ~c.whole
       /\ \E n \in 0 .. Len(WriteUtf(c.says.name)) - 1 :
              bytes = BuildPacket(0, Take(WriteUtf(c.says.name), n))

\* A name that breaks off fits in a packet, and is none.
LEMMA PartOfALogin ==
    ASSUME NEW says, Sayable(says), says.handshake.next_state = 2,
           NEW n \in 0 .. Len(WriteUtf(says.name)) - 1
    PROVE  /\ Take(WriteUtf(says.name), n) \in Seq(Byte)
           /\ Len(Take(WriteUtf(says.name), n)) < MaxPacket
           /\ ReadUtf(Take(WriteUtf(says.name), n)) = Eof
<1> DEFINE w == WriteUtf(says.name)
           more == says.more
<1>1. says.name \in Texts /\ more \in Seq(Byte) /\ Len(Login(says)) < MaxPacket
  BY Sayings
<1>2. w \in Seq(Byte)
  BY <1>1, UtfReadsBack, Zenon
<1>3. ReadUtf(Take(w, n)) = Eof
  BY <1>1, PartOfAString, Zenon
<1>4. Login(says) = w \o more
  BY Zenon DEF Login
<1> HIDE DEF w, more
<1>5. Len(w) <= Len(Login(says)) /\ n \in 0 .. Len(w)
  <2>1. n \in 0 .. Len(w) - 1
    BY DEF w
  <2> QED
    BY <1>1, <1>2, <1>4, <2>1
<1>6. Take(w, n) \in Seq(Byte) /\ Len(Take(w, n)) = n
  BY <1>2, <1>5, FirstBytes
<1>7. Len(Login(says)) \in Nat
  BY <1>1, <1>2, <1>4
<1>8. Len(Take(w, n)) < MaxPacket
  BY <1>1, <1>2, <1>5, <1>6, <1>7, Numbers
<1> QED
  BY <1>3, <1>6, <1>8 DEF w

\* The first packet that is read of a client is its greeting.
LEMMA FirstPacket ==
    ASSUME NEW c, Truthful(c), HasPacket(c.bytes)
    PROVE  /\ ReadPacket(c.bytes).value.payload = Greeting(c.says.handshake)
           /\ \/ Left(c.whole, ReadPacket(c.bytes).rest, Later(c.says))
              \/ /\ c.says.handshake.next_state = 2
                 /\ LoginLeft(c, ReadPacket(c.bytes).rest)
<1> DEFINE says  == c.says
           greet == Greeting(says.handshake)
           first == BuildPacket(0, greet)
           read  == ReadPacket(c.bytes)
<1>1. Sayable(says)
  BY Zenon DEF Truthful, Honest, CutOff
<1>2. greet \in Seq(Byte) /\ Len(greet) < MaxPacket /\ 0 \in 0 .. 1
  BY <1>1, Sayings, GreetingReadsBack
<1>3. Later(says) \in Seq(Byte) /\ Sent(says) = first \o Later(says)
  BY <1>1, LaterPackets, Zenon
<1>4. CASE Left(c.whole, c.bytes, first \o Later(says))
  <2>1. read.value.payload = greet /\ Left(c.whole, read.rest, Later(says))
    <3>1. ReadsFirst(c.whole, c.bytes, 0, greet, Later(says))
      BY <1>2, <1>3, <1>4, NextPacket, Zenon
    <3> QED
      BY <3>1, Zenon DEF ReadsFirst
  <2> QED
    BY <2>1, Zenon
<1>5. CASE ~ Left(c.whole, c.bytes, first \o Later(says))
  <2>1. ~c.whole /\ says.handshake.next_state = 2
        /\ \E n \in 0 .. Len(WriteUtf(says.name)) - 1 :
                c.bytes = first \o BuildPacket(0, Take(WriteUtf(says.name), n))
    BY <1>3, <1>5, Zenon DEF Truthful, Honest, CutOff, Left
  <2>2. PICK n \in 0 .. Len(WriteUtf(says.name)) - 1 :
            c.bytes = first \o BuildPacket(0, Take(WriteUtf(says.name), n))
    BY <2>1
  <2> DEFINE part == Take(WriteUtf(says.name), n)
             rest == BuildPacket(0, part)
  <2>3. part \in Seq(Byte) /\ Len(part) < MaxPacket
    BY <1>1, <2>1, PartOfALogin
  <2>4. rest \in Seq(Byte)
    BY <1>2, <2>3, PacketReadsBack, Zenon
  <2>5. read = Value([id |-> 0, payload |-> greet], rest)
    BY <1>2, <2>2, <2>4, PacketReadsBack, Zenon
  <2>6. read.value = [id |-> 0, payload |-> greet] /\ read.rest = rest
    BY <2>5 DEF Value
  <2>7. read.value.payload = greet
    BY <2>6
  <2>8. LoginLeft(c, read.rest)
    BY <2>1, <2>6, Zenon DEF LoginLeft
  <2> QED
    BY <2>1, <2>7, <2>8, Zenon
<1> QED
  BY <1>4, <1>5, Zenon

\* Only of a whole login is there a name, the client's.
LEMMA LoginPacket ==
    ASSUME NEW c, Truthful(c), c.says.handshake.next_state = 2,
           NEW bytes, LoginLeft(c, bytes), HasPacket(bytes),
           ParseLoginStart(ReadPacket(bytes).value.payload).outcome = "value"
    PROVE  /\ c.whole /\ c.says.name # Unheard
           /\ ParseLoginStart(ReadPacket(bytes).value.payload).value = c.says.name
<1> DEFINE says == c.says
           login == Login(says)
           read  == ReadPacket(bytes)
<1>1. Sayable(says) /\ 0 \in 0 .. 1 /\ <<>> \in Seq(Byte)
  <2>1. Sayable(says)
    BY Zenon DEF Truthful, Honest, CutOff
  <2> QED
    BY <2>1
<1>2. says.name \in Texts /\ says.name # Unheard /\ says.more \in Seq(Byte) /\ Len(login) < MaxPacket
  BY <1>1, Sayings
<1>3. login \in Seq(Byte) /\ ParseLoginStart(login) = Value(says.name, says.more)
  BY <1>2, LoginReadsBack, Zenon DEF Login
<1>4. CASE Left(c.whole, bytes, BuildPacket(0, login) \o <<>>)
  <2>1. read.value.payload = login /\ Left(c.whole, read.rest, <<>>)
    <3>1. ReadsFirst(c.whole, bytes, 0, login, <<>>)
      BY <1>1, <1>2, <1>3, <1>4, NextPacket, Zenon
    <3> QED
      BY <3>1, Zenon DEF ReadsFirst
  <2>2. c.whole
    BY <2>1, NothingLeft
  <2>3. Value(says.name, says.more).value = says.name
    BY DEF Value
  <2> QED
    BY <1>2, <1>3, <2>1, <2>2, <2>3, Zenon
<1>5. CASE ~ Left(c.whole, bytes, BuildPacket(0, login) \o <<>>)
  <2>1. PICK n \in 0 .. Len(WriteUtf(says.name)) - 1 :
            bytes = BuildPacket(0, Take(WriteUtf(says.name), n))
    BY <1>5, Zenon DEF LoginLeft
  <2> DEFINE part == Take(WriteUtf(says.name), n)
             packet == BuildPacket(0, part)
  <2>2. part \in Seq(Byte) /\ Len(part) < MaxPacket /\ ReadUtf(part) = Eof
    BY <1>1, <1>2, <2>1, PartOfALogin
  <2>3. packet \in Seq(Byte)
        /\ ReadPacket(packet \o <<>>) = Value([id |-> 0, payload |-> part], <<>>)
    BY <1>1, <2>2, PacketReadsBack, Zenon
  <2>4. packet \o <<>> = packet
    <3> HIDE DEF packet
    <3> QED
      BY <2>3
  <2>5. read = Value([id |-> 0, payload |-> part], <<>>)
    BY <2>1, <2>3, <2>4, Zenon
  <2>6. read.value = [id |-> 0, payload |-> part]
    BY <2>5 DEF Value
  <2>7. read.value.payload = part
    BY <2>6
  <2>8. Eof.outcome # "value"
    BY DEF Eof
  <2> QED
    BY <2>2, <2>7, <2>8, Zenon DEF ParseLoginStart
<1> QED
  BY <1>4, <1>5, Zenon

(***************************************************************************)
(* The invariant: how far the client's words have come.                    *)
(***************************************************************************)

StatusAnswer     == [kind |-> "status", payload |-> <<>>]
PongAnswer(says) == [kind |-> "pong", payload |-> says.ping]

Hearing(says) ==
    \/ /\ at = "handshake" /\ unread = client.bytes
       /\ handshake = Unheard /\ name = Unheard /\ answers = <<>>
    \/ /\ at = "request" /\ says.handshake.next_state = 1
       /\ Left(client.whole, unread, Later(says))
       /\ handshake = says.handshake /\ name = Unheard /\ answers = <<>>
    \/ /\ at = "ping" /\ says.handshake.next_state = 1
       /\ Left(client.whole, unread, BuildPacket(1, says.ping) \o <<>>)
       /\ handshake = says.handshake /\ name = Unheard /\ answers = <<StatusAnswer>>
    \/ /\ at = "login" /\ says.handshake.next_state = 2 /\ LoginLeft(client, unread)
       /\ handshake = says.handshake /\ name = Unheard /\ answers = <<>>
    \/ /\ at = "checking" /\ client.whole /\ says.name # Unheard
       /\ handshake = says.handshake /\ name = says.name /\ answers = <<>>
    \/ /\ at = "closed" /\ name = Unheard /\ handshake \in {Unheard, says.handshake}
       /\ answers \in {<<>>, <<StatusAnswer>>, <<StatusAnswer, PongAnswer(says)>>}

SessionInv == Truthful(client) => Hearing(client.says)

\* What stays of it when the connection breaks.
LEMMA BrokenHearing ==
    ASSUME Truthful(client), Hearing(client.says), Breaks
    PROVE  Hearing(client.says)'
<1>1. /\ at' = "closed" /\ at # "checking" /\ handshake' = handshake /\ name' = name
      /\ answers' = answers /\ client' = client
  BY DEF Breaks
<1>2. name = Unheard /\ handshake \in {Unheard, client.says.handshake}
      /\ answers \in {<<>>, <<StatusAnswer>>, <<StatusAnswer, PongAnswer(client.says)>>}
  BY <1>1, Zenon DEF Hearing
<1> QED
  BY <1>1, <1>2, Zenon DEF Hearing

LEMMA GreetedHearing ==
    ASSUME Truthful(client), Hearing(client.says), Handshakes
    PROVE  Hearing(client.says)'
<1> DEFINE says == client.says
           next == says.handshake.next_state
<1>1. /\ at = "handshake" /\ Packet.outcome = "value" /\ unread' = Packet.rest
      /\ ParseHandshake(Packet.value.payload).outcome = "value"
      /\ handshake' = ParseHandshake(Packet.value.payload).value
      /\ at' = CASE ParseHandshake(Packet.value.payload).value.next_state = 1 -> "request"
                 [] ParseHandshake(Packet.value.payload).value.next_state = 2 -> "login"
                 [] OTHER -> "closed"
      /\ client' = client /\ name' = name /\ answers' = answers
  BY Zenon DEF Handshakes, Arrives
<1>2. unread = client.bytes /\ name = Unheard /\ answers = <<>>
  <2>1. at # "request" /\ at # "ping" /\ at # "login" /\ at # "checking" /\ at # "closed"
    BY <1>1
  <2> QED
    BY <2>1, Zenon DEF Hearing
<1>3. HasPacket(client.bytes) /\ Packet = ReadPacket(client.bytes)
  BY <1>1, <1>2, Zenon DEF HasPacket, Packet
<1>4. /\ Packet.value.payload = Greeting(says.handshake)
      /\ Left(client.whole, unread', Later(says)) \/ (next = 2 /\ LoginLeft(client, unread'))
  BY <1>1, <1>3, FirstPacket, Zenon
<1>5. Sayable(says)
  BY Zenon DEF Truthful, Honest, CutOff
<1>6. ParseHandshake(Packet.value.payload) = Value(says.handshake, <<>>)
  <2>1. ParseHandshake(Greeting(says.handshake)) = Value(says.handshake, <<>>)
    BY <1>5, Sayings, GreetingReadsBack, Zenon
  <2> QED
    BY <1>4, <2>1, Zenon
<1>7. handshake' = says.handshake
      /\ at' = CASE next = 1 -> "request" [] next = 2 -> "login" [] OTHER -> "closed"
  <2>1. Value(says.handshake, <<>>).value = says.handshake
    BY DEF Value
  <2> QED
    BY <1>1, <1>6, <2>1, Zenon
<1>8. (next = 1 /\ at' = "request") \/ (next = 2 /\ at' = "login") \/ (next # 1 /\ next # 2 /\ at' = "closed")
  <2> HIDE DEF next
  <2>1. at' = CASE next = 1 -> "request" [] next = 2 -> "login" [] OTHER -> "closed"
    BY <1>7 DEF next
  <2>2. next # 1 \/ next # 2
    OBVIOUS
  <2> QED
    BY <2>1, <2>2
<1>9. CASE next = 1 /\ at' = "request"
  <2>1. next # 2
    BY <1>9
  <2> QED
    BY <1>1, <1>2, <1>4, <1>7, <1>9, <2>1, Zenon DEF Hearing
<1>10. CASE next = 2 /\ at' = "login"
  <2>1. LoginLeft(client, unread')
    BY <1>4, <1>5, <1>10, LaterPackets, Zenon DEF LoginLeft
  <2>2. LoginLeft(client, unread)'
    BY <1>1, <2>1, Zenon DEF LoginLeft
  <2> QED
    BY <1>1, <1>2, <1>7, <1>10, <2>2, Zenon DEF Hearing
<1>11. CASE at' = "closed"
  <2>1. answers' \in {<<>>, <<StatusAnswer>>, <<StatusAnswer, PongAnswer(says)>>}
        /\ handshake' \in {Unheard, says.handshake}
    BY <1>1, <1>2, <1>7, Zenon
  <2> QED
    BY <1>1, <1>2, <1>11, <2>1, Zenon DEF Hearing
<1> QED
  BY <1>8, <1>9, <1>10, <1>11, Zenon

LEMMA AskedHearing ==
    ASSUME Truthful(client), Hearing(client.says), AnswersStatus
    PROVE  Hearing(client.says)'
<1> DEFINE says == client.says
<1>1. /\ at = "request" /\ Packet.outcome = "value" /\ unread' = Packet.rest /\ at' = "ping"
      /\ answers' = Append(answers, StatusAnswer)
      /\ client' = client /\ name' = name /\ handshake' = handshake
  BY Zenon DEF AnswersStatus, StatusAnswer
<1>2. /\ says.handshake.next_state = 1 /\ Left(client.whole, unread, Later(says))
      /\ handshake = says.handshake /\ name = Unheard /\ answers = <<>>
  <2>1. at # "handshake" /\ at # "ping" /\ at # "login" /\ at # "checking" /\ at # "closed"
    BY <1>1
  <2> QED
    BY <2>1, Zenon DEF Hearing
<1> DEFINE pong == BuildPacket(1, says.ping) \o <<>>
<1>3. Sayable(says)
  BY Zenon DEF Truthful, Honest, CutOff
<1>4. says.ping \in Seq(Byte) /\ Len(says.ping) < MaxPacket /\ <<>> \in Seq(Byte)
      /\ Len(<<>>) < MaxPacket /\ 0 \in 0 .. 1 /\ 1 \in 0 .. 1
  BY <1>2, <1>3, Sayings, Numbers
<1>5. pong \in Seq(Byte)
  <2>1. BuildPacket(1, says.ping) \in Seq(Byte)
    BY <1>4, PacketReadsBack, Zenon
  <2> QED
    BY <2>1
<1>6. Left(client.whole, unread, BuildPacket(0, <<>>) \o pong)
  BY <1>2, <1>3, LaterPackets, Zenon
<1>7. HasPacket(unread)
  BY <1>1, Zenon DEF HasPacket, Packet
<1>8. ReadsFirst(client.whole, unread, 0, <<>>, pong)
  BY <1>4, <1>5, <1>6, <1>7, NextPacket, Zenon
<1>9. Left(client.whole, unread', pong)
  BY <1>1, <1>8, Zenon DEF ReadsFirst, Packet
<1>10. answers' = <<StatusAnswer>>
  BY <1>1, <1>2
<1> QED
  BY <1>1, <1>2, <1>9, <1>10, Zenon DEF Hearing

LEMMA TwoAppended ==
    ASSUME NEW S, NEW s \in S, NEW p \in S
    PROVE  Append(<<s>>, p) = <<s, p>>
<1> DEFINE one  == <<s>>
           two  == <<s, p>>
           long == Append(one, p)
<1>1. one \in Seq(S) /\ Len(one) = 1 /\ one[1] = s
  OBVIOUS
<1>2. two \in Seq(S) /\ Len(two) = 2 /\ two[1] = s /\ two[2] = p
  OBVIOUS
<1> HIDE DEF one, two
<1>3. /\ long \in Seq(S) /\ Len(long) = Len(one) + 1 /\ long[Len(one) + 1] = p
      /\ \A i \in 1 .. Len(one) : long[i] = one[i]
  <2>1. one \in Seq(S)
    BY <1>1
  <2> QED
    BY <2>1
<1> HIDE DEF long
<1>4. Len(one) + 1 = 2 /\ 1 \in 1 .. Len(one)
  BY <1>1
<1>5. Len(long) = 2 /\ long[1] = s /\ long[2] = p
  BY <1>1, <1>3, <1>4, Zenon
<1>6. long = two
  BY <1>2, <1>3, <1>5, SeqEqual
<1> QED
  BY <1>6 DEF one, two, long

LEMMA PingedHearing ==
    ASSUME Truthful(client), Hearing(client.says), AnswersPing
    PROVE  Hearing(client.says)'
<1> DEFINE says == client.says
           long == Packet.value.payload
           n    == Min({LongBytes, Len(long)})
<1>1. /\ at = "ping" /\ Packet.outcome = "value" /\ at' = "closed"
      /\ answers' = Append(answers, [kind |-> "pong", payload |-> SubSeq(long, 1, n)])
      /\ client' = client /\ name' = name /\ handshake' = handshake
  BY Zenon DEF AnswersPing, Arrives
<1>2. /\ says.handshake.next_state = 1
      /\ Left(client.whole, unread, BuildPacket(1, says.ping) \o <<>>)
      /\ handshake = says.handshake /\ name = Unheard /\ answers = <<StatusAnswer>>
  <2>1. at # "handshake" /\ at # "request" /\ at # "login" /\ at # "checking" /\ at # "closed"
    BY <1>1
  <2> QED
    BY <2>1, Zenon DEF Hearing
<1>3. Sayable(says)
  BY Zenon DEF Truthful, Honest, CutOff
<1>4. says.ping \in Seq(Byte) /\ Len(says.ping) < MaxPacket /\ Len(says.ping) <= LongBytes
      /\ <<>> \in Seq(Byte) /\ 1 \in 0 .. 1
  BY <1>2, <1>3, Sayings
<1>5. HasPacket(unread)
  BY <1>1, Zenon DEF HasPacket, Packet
<1>6. ReadsFirst(client.whole, unread, 1, says.ping, <<>>)
  BY <1>2, <1>4, <1>5, NextPacket, Zenon
<1>7. long = says.ping
  BY <1>6, Zenon DEF ReadsFirst, Packet
<1> HIDE DEF long
<1>8. n = Len(long)
  <2> DEFINE both == {LongBytes, Len(long)}
             m == Min(both)
  <2>1. both \subseteq Nat /\ both # {} /\ Len(long) \in Nat /\ LongBytes \in Nat
        /\ Len(long) <= LongBytes
    BY <1>4, <1>7, LongAssumption
  <2>2. m \in both /\ \A y \in both : m <= y
    <3> HIDE DEF both
    <3> QED
      BY <2>1, LeastExists, Zenon
  <2> HIDE DEF m
  <2> QED
    BY <2>1, <2>2 DEF m
<1> HIDE DEF n
<1>9. SubSeq(long, 1, n) = says.ping
  BY <1>4, <1>7, <1>8
<1>10. answers' = <<StatusAnswer, PongAnswer(says)>>
  <2>1. answers' = Append(<<StatusAnswer>>, PongAnswer(says))
    BY <1>1, <1>2, <1>9, Zenon DEF PongAnswer
  <2>2. Append(<<StatusAnswer>>, PongAnswer(says)) = <<StatusAnswer, PongAnswer(says)>>
    <3> DEFINE both == {StatusAnswer, PongAnswer(says)}
    <3>1. StatusAnswer \in both /\ PongAnswer(says) \in both
      OBVIOUS
    <3> HIDE DEF both
    <3> QED
      BY <3>1, TwoAppended, Zenon
  <2> QED
    BY <2>1, <2>2, Zenon
<1> QED
  BY <1>1, <1>2, <1>10, Zenon DEF Hearing

LEMMA LoggedInHearing ==
    ASSUME Truthful(client), Hearing(client.says), Logins
    PROVE  Hearing(client.says)'
<1> DEFINE says == client.says
           login == ParseLoginStart(Packet.value.payload)
<1>1. /\ at = "login" /\ Packet.outcome = "value" /\ at' = "checking"
      /\ login.outcome = "value" /\ name' = login.value
      /\ client' = client /\ answers' = answers /\ handshake' = handshake
  BY Zenon DEF Logins, Arrives
<1>2. /\ says.handshake.next_state = 2 /\ LoginLeft(client, unread)
      /\ handshake = says.handshake /\ answers = <<>>
  <2>1. at # "handshake" /\ at # "request" /\ at # "ping" /\ at # "checking" /\ at # "closed"
    BY <1>1
  <2> QED
    BY <2>1, Zenon DEF Hearing
<1>3. HasPacket(unread) /\ Packet = ReadPacket(unread)
  BY <1>1, Zenon DEF HasPacket, Packet
<1>4. client.whole /\ says.name # Unheard /\ login.value = says.name
  <2>1. ParseLoginStart(ReadPacket(unread).value.payload).outcome = "value"
    BY <1>1, <1>3, Zenon
  <2> QED
    BY <1>2, <1>3, <2>1, LoginPacket
<1> QED
  BY <1>1, <1>2, <1>4, Zenon DEF Hearing

\* While the client says what is in its bytes, the session has heard so far
\* what it said so far.
LEMMA SessionInvariant == SessionSpec => []SessionInv
<1>1. SessionInit => SessionInv
  BY Zenon DEF SessionInit, SessionInv, Hearing
<1>2. SessionInv /\ [SessionNext]_sessionVars => SessionInv'
  <2> SUFFICES ASSUME SessionInv, [SessionNext]_sessionVars, Truthful(client)'
               PROVE  Hearing(client.says)'
    BY DEF SessionInv
  <2>1. client' = client
    BY Zenon DEF SessionNext, sessionVars, Breaks, Handshakes, AnswersStatus, AnswersPing, Logins
  <2>2. Truthful(client)
    BY <2>1, Zenon DEF Truthful, Honest, CutOff, Sayable
  <2>3. Hearing(client.says)
    BY <2>2 DEF SessionInv
  <2>4. CASE SessionNext
    BY <2>2, <2>3, <2>4, BrokenHearing, GreetedHearing, AskedHearing, PingedHearing,
       LoggedInHearing, Zenon DEF SessionNext
  <2>5. CASE UNCHANGED sessionVars
    BY <2>3, <2>5, Zenon DEF sessionVars, Hearing, LoginLeft
  <2> QED
    BY <2>4, <2>5, Zenon
<1> QED
  BY <1>1, <1>2, PTL DEF SessionSpec

\* Whatever a client says that one can say, and wherever its connection breaks,
\* also inside a number, a string or a packet, the proxy hears nothing else: not
\* another version, name or ping (_handle_client and mc_protocol.py).
THEOREM ClientsAreUnderstood ==
    SessionSpec => [](Honest(client) \/ CutOff(client) => UnderstoodAsSent)
<1>1. SessionInv => (Honest(client) \/ CutOff(client) => UnderstoodAsSent)
  <2> SUFFICES ASSUME Hearing(client.says) PROVE UnderstoodAsSent
    BY Zenon DEF SessionInv, Truthful
  <2>1. handshake # Unheard => handshake = client.says.handshake
    BY Zenon DEF Hearing
  <2>2. name # Unheard => name = client.says.name
    BY Zenon DEF Hearing
  <2>3. answers \in {<<>>, <<StatusAnswer>>, <<StatusAnswer, PongAnswer(client.says)>>}
    BY Zenon DEF Hearing
  <2>4. ASSUME NEW i \in DOMAIN answers, answers[i].kind = "pong"
        PROVE  answers[i].payload = client.says.ping
    BY <2>3, <2>4 DEF StatusAnswer, PongAnswer
  <2> QED
    BY <2>1, <2>2, <2>4, Zenon DEF UnderstoodAsSent
<1> QED
  BY <1>1, SessionInvariant, PTL

\* Of those clients only one whose login came through whole gets as far as the
\* whitelist and the server's start (_handle_login).
THEOREM OnlyWholeLoginsWake ==
    SessionSpec => [](Honest(client) \/ CutOff(client) => WholeLoginsWake)
<1>1. SessionInv => (Honest(client) \/ CutOff(client) => WholeLoginsWake)
  <2> SUFFICES ASSUME Hearing(client.says), at = "checking"
               PROVE  client.whole /\ client.says.name # Unheard
    BY Zenon DEF SessionInv, Truthful, WholeLoginsWake
  <2>1. at # "handshake" /\ at # "request" /\ at # "ping" /\ at # "login" /\ at # "closed"
    OBVIOUS
  <2> QED
    BY <2>1, Zenon DEF Hearing
<1> QED
  BY <1>1, SessionInvariant, PTL

(***************************************************************************)
(* Sequences of sequences.                                                 *)
(***************************************************************************)

LEMMA ConcatSet ==
    ASSUME NEW S, NEW a \in Seq(S), NEW b \in Seq(S)
    PROVE  a \o b \in Seq(S) /\ ToSet(a \o b) = ToSet(a) \cup ToSet(b)
<1>1. /\ a \o b \in Seq(S) /\ Len(a \o b) = Len(a) + Len(b)
      /\ \A i \in 1 .. Len(a) + Len(b) : (a \o b)[i] = IF i <= Len(a) THEN a[i] ELSE b[i - Len(a)]
  BY ConcatProperties, Zenon
<1> DEFINE c == a \o b
<1> HIDE DEF c
<1>2. ASSUME NEW x \in ToSet(c) PROVE x \in ToSet(a) \cup ToSet(b)
  <2>1. PICK i \in 1 .. Len(a) + Len(b) : x = c[i]
    BY <1>1, <1>2 DEF ToSet, c
  <2>2. CASE i <= Len(a)
    <3>1. i \in DOMAIN a /\ c[i] = a[i]
      BY <1>1, <2>1, <2>2 DEF c
    <3> QED
      BY <2>1, <3>1 DEF ToSet
  <2>3. CASE ~(i <= Len(a))
    <3>1. i - Len(a) \in DOMAIN b /\ c[i] = b[i - Len(a)]
      BY <1>1, <2>1, <2>3 DEF c
    <3> QED
      BY <2>1, <3>1 DEF ToSet
  <2> QED
    BY <2>2, <2>3
<1>3. ASSUME NEW x \in ToSet(a) PROVE x \in ToSet(c)
  <2>1. PICK i \in DOMAIN a : x = a[i]
    BY <1>3 DEF ToSet
  <2>2. i \in DOMAIN c /\ c[i] = a[i]
    BY <1>1 DEF c
  <2> QED
    BY <2>1, <2>2 DEF ToSet
<1>4. ASSUME NEW x \in ToSet(b) PROVE x \in ToSet(c)
  <2>1. PICK i \in DOMAIN b : x = b[i]
    BY <1>4 DEF ToSet
  <2> DEFINE k == Len(a) + i
  <2>2. k \in DOMAIN c /\ c[k] = b[i]
    <3>1. k \in 1 .. Len(a) + Len(b) /\ ~(k <= Len(a)) /\ k - Len(a) = i
      OBVIOUS
    <3> HIDE DEF k
    <3>2. DOMAIN c = 1 .. Len(a) + Len(b)
      BY <1>1 DEF c
    <3>3. c[k] = b[k - Len(a)]
      BY <1>1, <3>1, Zenon DEF c
    <3> QED
      BY <3>1, <3>2, <3>3
  <2> HIDE DEF k
  <2> QED
    BY <2>1, <2>2 DEF ToSet
<1>5. ToSet(c) = ToSet(a) \cup ToSet(b)
  BY <1>2, <1>3, <1>4
<1> QED
  BY <1>1, <1>5 DEF c

\* Sequences one after the other.
Flattens(f, seqs) ==
    f = [i \in 1 .. Len(seqs) |-> IF i = 1 THEN seqs[i] ELSE f[i - 1] \o seqs[i]]

LEMMA FlattenExists ==
    ASSUME NEW S, NEW seqs \in Seq(Seq(S)), Len(seqs) # 0
    PROVE  \E f : Flattens(f, seqs)
<1> DEFINE n == Len(seqs)
           m == n - 1
           step == [i \in 1 .. m |-> [x \in Seq(S) |-> x \o seqs[i + 1]]]
<1>1. n \in Nat /\ m \in Nat /\ 1 \in 1 .. n /\ \A i \in 1 .. n : seqs[i] \in Seq(S)
  OBVIOUS
<1>2. ASSUME NEW i \in 1 .. m, NEW x \in Seq(S)
      PROVE  x \o seqs[i + 1] \in Seq(S)
  <2>1. seqs[i + 1] \in Seq(S)
    BY <1>1
  <2> QED
    BY <2>1, ConcatProperties, Zenon
<1>3. step \in [1 .. m -> [Seq(S) -> Seq(S)]]
  BY <1>2
<1>4. \A i \in 1 .. m : \A x \in Seq(S) : step[i][x] = x \o seqs[i + 1]
  OBVIOUS
<1> DEFINE start == seqs[1]
<1>5. start \in Seq(S)
  BY <1>1
<1> HIDE DEF step, m, start
<1>6. PICK g : Iterates(g, Seq(S), m, start, step)
  BY <1>1, <1>3, <1>5, IterationExists, Zenon
<1> DEFINE f == [i \in 1 .. n |-> g[i - 1]]
<1>7. ASSUME NEW i \in 1 .. n
      PROVE  g[i - 1] = IF i = 1 THEN seqs[i] ELSE f[i - 1] \o seqs[i]
  <2>1. CASE i = 1
    BY <1>6, <2>1 DEF Iterates, start
  <2>2. CASE i # 1
    <3> DEFINE k == i - 1
    <3>1. k \in 1 .. m /\ k \in 1 .. n /\ k - 1 \in 0 .. m /\ k + 1 = i
      BY <2>2 DEF m
    <3>2. f[k] = g[k - 1]
      BY <3>1
    <3> HIDE DEF k, f
    <3>3. g[k] = step[k][g[k - 1]] /\ g[k - 1] \in Seq(S)
      BY <1>6, <3>1 DEF Iterates
    <3>4. g[k] = g[k - 1] \o seqs[i]
      BY <1>4, <3>1, <3>3
    <3> QED
      BY <2>2, <3>2, <3>4, Zenon DEF k
  <2> QED
    BY <2>1, <2>2
<1>8. Flattens(f, seqs)
  BY <1>7 DEF Flattens
<1> QED
  BY <1>8

LEMMA FlatSet ==
    ASSUME NEW S, NEW seqs \in Seq(Seq(S))
    PROVE  /\ FlattenSeq(seqs) \in Seq(S)
           /\ \A x : x \in ToSet(FlattenSeq(seqs)) <=> \E i \in DOMAIN seqs : x \in ToSet(seqs[i])
<1> DEFINE n == Len(seqs)
           f == CHOOSE f : Flattens(f, seqs)
<1>1. FlattenSeq(seqs) = IF n = 0 THEN seqs ELSE f[n]
  BY Zenon DEF FlattenSeq, Flattens
<1>2. CASE n = 0
  <2> DEFINE flat == FlattenSeq(seqs)
  <2> HIDE DEF f, flat
  <2>1. flat = <<>> /\ DOMAIN seqs = {}
    BY <1>1, <1>2 DEF flat
  <2>2. flat \in Seq(S) /\ ToSet(flat) = {}
    BY <2>1 DEF ToSet
  <2> QED
    BY <2>1, <2>2 DEF flat
<1>3. CASE n # 0
  <2>1. Flattens(f, seqs)
    BY <1>3, FlattenExists, Zenon
  <2> HIDE DEF f
  <2> DEFINE Made(i) == \A x : x \in ToSet(f[i]) <=> \E j \in 1 .. i : x \in ToSet(seqs[j])
             good == {i \in 1 .. n : f[i] \in Seq(S) /\ Made(i)}
  <2>2. n \in Nat /\ 1 \in 1 .. n /\ n \in 1 .. n /\ DOMAIN seqs = 1 .. n
        /\ \A i \in 1 .. n : seqs[i] \in Seq(S)
    BY <1>3
  <2>3. 1 \in good
    <3>1. f[1] = seqs[1] /\ 1 .. 1 = {1}
      BY <2>1, <2>2 DEF Flattens
    <3> QED
      BY <2>2, <3>1
  <2>4. ASSUME NEW i \in 1 + 1 .. n, i - 1 \in good PROVE i \in good
    <3> DEFINE k == i - 1
    <3>1. i \in 1 .. n /\ k \in 1 .. n /\ f[i] = f[k] \o seqs[i] /\ f[k] \in Seq(S) /\ Made(k)
      <4>1. i \in 1 .. n /\ f[i] = f[k] \o seqs[i]
        <5> HIDE DEF good, Made
        <5>1. i \in 1 .. Len(seqs) /\ i # 1
          OBVIOUS
        <5>2. \A j \in 1 .. Len(seqs) : f[j] = IF j = 1 THEN seqs[j] ELSE f[j - 1] \o seqs[j]
          BY <2>1, Zenon DEF Flattens
        <5> QED
          BY <5>1, <5>2, Zenon
      <4>2. k \in good
        BY <2>4, Zenon
      <4>3. k \in 1 .. n /\ f[k] \in Seq(S) /\ Made(k)
        <5> HIDE DEF k, Made
        <5> QED
          BY <4>2
      <4> QED
        BY <4>1, <4>3, Zenon
    <3>2. 1 .. i = (1 .. k) \cup {i}
      OBVIOUS
    <3> HIDE DEF k
    <3>3. f[i] \in Seq(S) /\ ToSet(f[i]) = ToSet(f[k]) \cup ToSet(seqs[i])
      BY <2>2, <3>1, ConcatSet
    <3>4. Made(i)
      BY <3>1, <3>2, <3>3
    <3> QED
      BY <3>1, <3>3, <3>4
  <2> HIDE DEF good
  <2>5. 1 .. n \subseteq good
    <3>1. 1 \in Nat /\ n \in Int /\ \A i \in 1 + 1 .. n : i - 1 \in good => i \in good
      BY <2>2, <2>4
    <3> QED
      BY <2>3, <3>1, Induction, Zenon
  <2>6. f[n] \in Seq(S) /\ Made(n)
    BY <2>2, <2>5 DEF good
  <2> QED
    BY <1>1, <1>3, <2>2, <2>6, Zenon
<1> QED
  BY <1>2, <1>3

(***************************************************************************)
(* Payloads.                                                               *)
(***************************************************************************)

\* A level further down.
Deeper(nodes) == UNION {ToSet(Inside(node)) : node \in nodes}

AreLevels(f, payload, depth) ==
    f = [d \in 0 .. depth |-> IF d = 0 THEN {payload} ELSE Deeper(f[d - 1])]

LEMMA LevelsExist ==
    ASSUME NEW payload, NEW depth \in Nat
    PROVE  \E f : AreLevels(f, payload, depth)
<1> DEFINE good == {m \in 0 .. depth : \E f : AreLevels(f, payload, m)}
<1>1. 0 \in good
  <2> DEFINE f == [d \in 0 .. 0 |-> {payload}]
  <2>1. AreLevels(f, payload, 0)
    BY DEF AreLevels
  <2> HIDE DEF f
  <2> QED
    BY <2>1
<1>2. ASSUME NEW m \in 0 + 1 .. depth, m - 1 \in good PROVE m \in good
  <2> DEFINE k == m - 1
  <2>1. PICK f : AreLevels(f, payload, k)
    BY <1>2
  <2>2. k \in Nat /\ k + 1 = m /\ 0 .. m = (0 .. k) \cup {m} /\ m \in 0 .. depth /\ m \notin 0 .. k
    OBVIOUS
  <2> DEFINE g == [d \in 0 .. m |-> IF d = m THEN Deeper(f[k]) ELSE f[d]]
  <2>3. ASSUME NEW d \in 0 .. m
        PROVE  g[d] = IF d = 0 THEN {payload} ELSE Deeper(g[d - 1])
    <3>1. CASE d = m
      <4>1. d # 0 /\ d - 1 = k /\ g[k] = f[k]
        BY <2>2, <3>1
      <4>2. g[d] = Deeper(f[k])
        BY <3>1
      <4> HIDE DEF g, k
      <4> QED
        BY <4>1, <4>2, Zenon
    <3>2. CASE d # m
      <4>1. d \in 0 .. k
        BY <2>2, <3>2
      <4>2. g[d] = f[d] /\ (d # 0 => g[d - 1] = f[d - 1])
        BY <4>1
      <4>3. f[d] = IF d = 0 THEN {payload} ELSE Deeper(f[d - 1])
        <5>1. \A i \in 0 .. k : f[i] = IF i = 0 THEN {payload} ELSE Deeper(f[i - 1])
          BY <2>1, Zenon DEF AreLevels
        <5> QED
          BY <4>1, <5>1, Zenon
      <4> HIDE DEF g
      <4> QED
        BY <4>2, <4>3, Zenon
    <3> QED
      BY <3>1, <3>2
  <2>4. AreLevels(g, payload, m)
    <3>1. g = [d \in 0 .. m |-> g[d]]
      OBVIOUS
    <3> HIDE DEF g
    <3> QED
      BY <2>3, <3>1 DEF AreLevels
  <2> HIDE DEF g
  <2> QED
    BY <2>2, <2>4
<1> HIDE DEF good
<1>3. 0 .. depth \subseteq good
  <2>1. 0 \in Nat /\ depth \in Int /\ \A m \in 0 + 1 .. depth : m - 1 \in good => m \in good
    BY <1>2
  <2> QED
    BY <1>1, <2>1, Induction, Zenon
<1>4. depth \in good
  BY <1>3
<1> QED
  BY <1>4 DEF good

LEMMA LevelIs ==
    ASSUME NEW payload, NEW depth \in Nat
    PROVE  \E f : /\ f[0] = {payload} /\ \A d \in 1 .. depth : f[d] = Deeper(f[d - 1])
                  /\ Level(payload, depth) = f[depth]
<1> DEFINE f == CHOOSE f : AreLevels(f, payload, depth)
<1>1. AreLevels(f, payload, depth)
  BY LevelsExist, Zenon
<1>2. Level(payload, depth) = f[depth]
  BY Zenon DEF Level, AreLevels, Deeper
<1> HIDE DEF f
<1>3. \A d \in 0 .. depth : f[d] = IF d = 0 THEN {payload} ELSE Deeper(f[d - 1])
  BY <1>1, Zenon DEF AreLevels
<1>4. f[0] = {payload} /\ \A d \in 1 .. depth : f[d] = Deeper(f[d - 1])
  <2>1. 0 \in 0 .. depth /\ \A d \in 1 .. depth : d \in 0 .. depth /\ d # 0
    OBVIOUS
  <2> QED
    BY <1>3, <2>1, Zenon
<1> QED
  BY <1>2, <1>4

LEMMA Levels ==
    ASSUME NEW payload, NEW depth \in Nat
    PROVE  /\ Level(payload, 0) = {payload}
           /\ Level(payload, depth + 1) = Deeper(Level(payload, depth))
<1> DEFINE Leveled(f, n) == f[0] = {payload} /\ \A d \in 1 .. n : f[d] = Deeper(f[d - 1])
<1>1. Level(payload, 0) = {payload}
  <2>1. 0 \in Nat
    OBVIOUS
  <2> QED
    BY <2>1, LevelIs, Zenon
<1>2. PICK f : Leveled(f, depth) /\ Level(payload, depth) = f[depth]
  BY LevelIs, Zenon
<1>3. depth + 1 \in Nat
  OBVIOUS
<1>4. PICK g : Leveled(g, depth + 1) /\ Level(payload, depth + 1) = g[depth + 1]
  BY <1>3, LevelIs, Zenon
<1> DEFINE good == {d \in 0 .. depth : f[d] = g[d]}
<1>5. 0 \in good
  BY <1>2, <1>4
<1>6. ASSUME NEW d \in 0 + 1 .. depth, d - 1 \in good PROVE d \in good
  <2>1. f[d - 1] = g[d - 1] /\ d \in 1 .. depth /\ d \in 1 .. depth + 1 /\ d \in 0 .. depth
    BY <1>6
  <2>2. f[d] = g[d]
    BY <1>2, <1>4, <2>1, Zenon
  <2> QED
    BY <2>1, <2>2, Zenon
<1> HIDE DEF good
<1>7. 0 .. depth \subseteq good
  <2>1. 0 \in Nat /\ depth \in Int /\ \A d \in 0 + 1 .. depth : d - 1 \in good => d \in good
    BY <1>6
  <2> QED
    BY <1>5, <2>1, Induction, Zenon
<1>8. depth \in good /\ depth + 1 \in 1 .. depth + 1 /\ (depth + 1) - 1 = depth
  BY <1>7
<1>9. g[depth + 1] = Deeper(g[depth]) /\ f[depth] = g[depth]
  <2>1. f[depth] = g[depth]
    BY <1>8 DEF good
  <2>2. g[depth + 1] = Deeper(g[(depth + 1) - 1])
    BY <1>4, <1>8, Zenon
  <2> QED
    BY <1>8, <2>1, <2>2, Zenon
<1> QED
  BY <1>1, <1>2, <1>4, <1>9, Zenon

\* The strings of the nodes of a level, given those of the next.
StringsAt(next, payload, depth, d) ==
    [node \in Level(payload, d) |->
        IF node.kind = "string" THEN <<node.text>>
        ELSE IF d = depth THEN <<>>
        ELSE FlattenSeq([i \in DOMAIN Inside(node) |-> next[Inside(node)[i]]])]

AreStrings(f, payload, depth, first) ==
    f = [d \in first .. depth |-> StringsAt(f[d + 1], payload, depth, d)]

\* After the deepest level there is none.
LEMMA Deepest ==
    ASSUME NEW payload, NEW depth, NEW x, NEW y
    PROVE  StringsAt(x, payload, depth, depth) = StringsAt(y, payload, depth, depth)
<1>1. \A z : StringsAt(z, payload, depth, depth)
               = [node \in Level(payload, depth) |->
                    IF node.kind = "string" THEN <<node.text>> ELSE <<>>]
  BY DEF StringsAt
<1> QED
  BY <1>1, Zenon

LEMMA StringsExist ==
    ASSUME NEW payload, NEW depth \in Nat
    PROVE  \E f : AreStrings(f, payload, depth, 0)
<1> DEFINE good == {m \in 0 .. depth : \E f : AreStrings(f, payload, depth, depth - m)}
<1>1. 0 \in good
  <2> DEFINE f == [d \in depth .. depth |-> StringsAt(<<>>, payload, depth, d)]
  <2>1. \A d \in depth .. depth : d = depth
    OBVIOUS
  <2>2. ASSUME NEW d \in depth .. depth
        PROVE  StringsAt(<<>>, payload, depth, d) = StringsAt(f[d + 1], payload, depth, d)
    BY <2>1, Deepest, Zenon
  <2>3. AreStrings(f, payload, depth, depth)
    BY <2>2, Zenon DEF AreStrings
  <2> HIDE DEF f
  <2>4. depth - 0 = depth /\ 0 \in 0 .. depth
    OBVIOUS
  <2> QED
    BY <2>3, <2>4
<1>2. ASSUME NEW m \in 0 + 1 .. depth, m - 1 \in good PROVE m \in good
  <2> DEFINE k == depth - (m - 1)
             l == depth - m
  <2>1. PICK f : AreStrings(f, payload, depth, k)
    BY <1>2
  <2>2. /\ k \in 1 .. depth /\ l + 1 = k /\ l .. depth = {l} \cup (k .. depth) /\ m \in 0 .. depth
        /\ l # depth /\ \A d \in k .. depth : d # l /\ (d # depth => d + 1 \in k .. depth /\ d + 1 # l)
    OBVIOUS
  <2> DEFINE g == [d \in l .. depth |->
                     IF d = l THEN StringsAt(f[k], payload, depth, l) ELSE f[d]]
  <2>3. ASSUME NEW d \in l .. depth
        PROVE  g[d] = StringsAt(g[d + 1], payload, depth, d)
    <3>1. CASE d = l
      <4>1. k \in l .. depth /\ k # l /\ d + 1 = k
        BY <2>2, <3>1
      <4>2. g[k] = f[k] /\ g[d] = StringsAt(f[k], payload, depth, d)
        BY <3>1, <4>1
      <4> HIDE DEF g
      <4> QED
        BY <4>1, <4>2, Zenon
    <3>2. CASE d # l
      <4>1. d \in k .. depth
        BY <2>2, <3>2
      <4>2. g[d] = f[d] /\ (d # depth => g[d + 1] = f[d + 1])
        BY <2>2, <4>1
      <4>3. f[d] = StringsAt(f[d + 1], payload, depth, d)
        <5>1. \A i \in k .. depth : f[i] = StringsAt(f[i + 1], payload, depth, i)
          BY <2>1, Zenon DEF AreStrings
        <5> QED
          BY <4>1, <5>1, Zenon
      <4> HIDE DEF g
      <4>4. CASE d = depth
        BY <4>2, <4>3, <4>4, Deepest, Zenon
      <4> QED
        BY <4>2, <4>3, <4>4, Zenon
    <3> QED
      BY <3>1, <3>2
  <2>4. AreStrings(g, payload, depth, l)
    <3>1. g = [d \in l .. depth |-> g[d]]
      OBVIOUS
    <3> HIDE DEF g
    <3> QED
      BY <2>3, <3>1 DEF AreStrings
  <2> HIDE DEF g
  <2> QED
    BY <2>2, <2>4
<1> HIDE DEF good
<1>3. 0 .. depth \subseteq good
  <2>1. 0 \in Nat /\ depth \in Int /\ \A m \in 0 + 1 .. depth : m - 1 \in good => m \in good
    BY <1>2
  <2> QED
    BY <1>1, <2>1, Induction, Zenon
<1>4. depth \in good /\ depth - depth = 0
  BY <1>3
<1>5. \E f : AreStrings(f, payload, depth, depth - depth)
  BY <1>4 DEF good
<1> QED
  BY <1>4, <1>5, Zenon

LEMMA StringsIs ==
    ASSUME NEW payload, NEW depth \in Nat
    PROVE  \E f : /\ \A d \in 0 .. depth : f[d] = StringsAt(f[d + 1], payload, depth, d)
                  /\ StringsTo(payload, depth) = f[0][payload]
<1> DEFINE f == CHOOSE f : AreStrings(f, payload, depth, 0)
<1>1. AreStrings(f, payload, depth, 0)
  BY StringsExist, Zenon
<1>2. StringsTo(payload, depth) = f[0][payload]
  BY Zenon DEF StringsTo, AreStrings, StringsAt
<1> HIDE DEF f
<1>3. \A d \in 0 .. depth : f[d] = StringsAt(f[d + 1], payload, depth, d)
  BY <1>1, Zenon DEF AreStrings
<1> QED
  BY <1>2, <1>3

\* The values in each node are a sequence.
IsTree(payload) ==
    \A d \in 0 .. MaxDepth : \A node \in Level(payload, d) : Inside(node) \in Seq(ToSet(Inside(node)))

\* What is inside a node is on the next level.
LEMMA OneDeeper ==
    ASSUME NEW payload, NEW d \in Nat, NEW node \in Level(payload, d), NEW i \in DOMAIN Inside(node)
    PROVE  Inside(node)[i] \in Level(payload, d + 1)
<1>1. Inside(node)[i] \in ToSet(Inside(node))
  BY Zenon DEF ToSet
<1>2. Inside(node)[i] \in Deeper(Level(payload, d))
  BY <1>1, Zenon DEF Deeper
<1> QED
  BY <1>2, Levels, Zenon

Occurs(t, payload) ==
    \E d \in 0 .. MaxDepth : \E node \in Level(payload, d) : node.kind = "string" /\ t = node.text

LEMMA TextsAre ==
    ASSUME NEW payload
    PROVE  \A t : t \in TextsIn(payload) <=> Occurs(t, payload)
<1>1. ASSUME NEW t \in TextsIn(payload) PROVE Occurs(t, payload)
  BY <1>1, Zenon DEF TextsIn, Occurs
<1>2. ASSUME NEW d \in 0 .. MaxDepth, NEW node \in Level(payload, d), node.kind = "string"
      PROVE  node.text \in TextsIn(payload)
  <2>1. node \in UNION {Level(payload, e) : e \in 0 .. MaxDepth}
    BY Zenon
  <2> QED
    BY <1>2, <2>1, Zenon DEF TextsIn
<1> QED
  BY <1>1, <1>2, Zenon DEF Occurs

\* What the strings inside a node are, one after the other.
Inner(next, node) == [i \in DOMAIN Inside(node) |-> next[Inside(node)[i]]]

Strung(f, payload) == \A d \in 0 .. MaxDepth : f[d] = StringsAt(f[d + 1], payload, MaxDepth, d)

Gathers(f, d, node) ==
    f[d][node] = IF node.kind = "string" THEN <<node.text>>
                 ELSE IF d = MaxDepth THEN <<>>
                 ELSE FlattenSeq(Inner(f[d + 1], node))

LEMMA NodeStrings ==
    ASSUME NEW payload, NEW f, Strung(f, payload), NEW d \in 0 .. MaxDepth,
           NEW node \in Level(payload, d)
    PROVE  Gathers(f, d, node)
<1>1. f[d] = StringsAt(f[d + 1], payload, MaxDepth, d)
  BY Zenon DEF Strung
<1>2. \A next : StringsAt(next, payload, MaxDepth, d)[node]
        = IF node.kind = "string" THEN <<node.text>>
          ELSE IF d = MaxDepth THEN <<>>
          ELSE FlattenSeq(Inner(next, node))
  BY Zenon DEF StringsAt, Inner
<1> DEFINE next == f[d + 1]
<1>3. f[d] = StringsAt(next, payload, MaxDepth, d)
  BY <1>1
<1> HIDE DEF next
<1>4. f[d][node] = StringsAt(next, payload, MaxDepth, d)[node]
  BY <1>3, Zenon
<1>5. f[d][node] = IF node.kind = "string" THEN <<node.text>>
                   ELSE IF d = MaxDepth THEN <<>>
                   ELSE FlattenSeq(Inner(next, node))
  BY <1>2, <1>4, Zenon
<1> QED
  BY <1>5, Zenon DEF next, Gathers

LEMMA StringsAreTexts ==
    ASSUME NEW payload, IsTree(payload), NEW f, Strung(f, payload)
    PROVE  \A d \in 0 .. MaxDepth : \A node \in Level(payload, d) : f[d][node] \in Seq(TextsIn(payload))
<1> DEFINE T == TextsIn(payload)
           Fine(d) == \A node \in Level(payload, d) : f[d][node] \in Seq(T)
           good == {m \in 0 .. MaxDepth : Fine(MaxDepth - m)}
<1>1. MaxDepth \in Nat
  BY DepthAssumption
<1>2. ASSUME NEW d \in 0 .. MaxDepth, d # MaxDepth => Fine(d + 1)
      PROVE  Fine(d)
  <2> SUFFICES ASSUME NEW node \in Level(payload, d) PROVE f[d][node] \in Seq(T)
    BY Zenon
  <2>1. f[d][node] = IF node.kind = "string" THEN <<node.text>>
                     ELSE IF d = MaxDepth THEN <<>> ELSE FlattenSeq(Inner(f[d + 1], node))
    <3>1. Gathers(f, d, node)
      BY NodeStrings, Zenon
    <3> QED
      BY <3>1, Zenon DEF Gathers
  <2>2. CASE node.kind = "string"
    <3>1. f[d][node] = <<node.text>>
      BY <2>1, <2>2, Zenon
    <3>2. node.text \in T
      <4>1. Occurs(node.text, payload)
        BY <2>2, Zenon DEF Occurs
      <4> QED
        BY <4>1, TextsAre, Zenon
    <3> HIDE DEF T
    <3>3. <<node.text>> \in Seq(T)
      BY <3>2
    <3> QED
      BY <3>1, <3>3, Zenon
  <2>3. CASE node.kind # "string" /\ d = MaxDepth
    <3>1. f[d][node] = <<>>
      BY <2>1, <2>3, Zenon
    <3> HIDE DEF T
    <3>2. <<>> \in Seq(T)
      OBVIOUS
    <3> QED
      BY <3>1, <3>2, Zenon
  <2>4. CASE node.kind # "string" /\ d # MaxDepth
    <3> DEFINE in == Inside(node)
               inner == Inner(f[d + 1], node)
    <3>1. f[d][node] = FlattenSeq(inner)
      BY <2>1, <2>4, Zenon
    <3>2. in \in Seq(ToSet(in))
      BY Zenon DEF IsTree
    <3>3. \A i \in DOMAIN in : f[d + 1][in[i]] \in Seq(T)
      <4>1. d \in Nat
        BY <1>1
      <4>2. \A i \in DOMAIN in : in[i] \in Level(payload, d + 1)
        BY <4>1, OneDeeper, Zenon
      <4> QED
        BY <1>2, <2>4, <4>2, Zenon
    <3>4. inner = [i \in DOMAIN in |-> f[d + 1][in[i]]]
      BY Zenon DEF Inner
    <3> HIDE DEF in, inner, T
    <3>5. DOMAIN in = 1 .. Len(in) /\ Len(in) \in Nat
      BY <3>2
    <3>6. inner \in Seq(Seq(T))
      BY <3>3, <3>4, <3>5
    <3>7. FlattenSeq(inner) \in Seq(T)
      BY <3>6, FlatSet, Zenon
    <3> QED
      BY <3>1, <3>7, Zenon
  <2> QED
    BY <2>2, <2>3, <2>4, Zenon
<1> HIDE DEF Fine
<1>3. 0 \in good
  BY <1>1, <1>2
<1>4. ASSUME NEW m \in 0 + 1 .. MaxDepth, m - 1 \in good PROVE m \in good
  <2> DEFINE d == MaxDepth - m
  <2>1. d \in 0 .. MaxDepth /\ d + 1 = MaxDepth - (m - 1) /\ m \in 0 .. MaxDepth
    BY <1>1
  <2>2. Fine(MaxDepth - (m - 1))
    BY <1>4
  <2>3. Fine(d + 1)
    BY <2>1, <2>2, Zenon
  <2>4. Fine(d)
    <3> HIDE DEF d
    <3> QED
      BY <1>2, <2>1, <2>3, Zenon
  <2> QED
    BY <2>1, <2>4
<1> HIDE DEF good
<1>5. 0 .. MaxDepth \subseteq good
  <2>1. 0 \in Nat /\ MaxDepth \in Int /\ \A m \in 0 + 1 .. MaxDepth : m - 1 \in good => m \in good
    BY <1>1, <1>4
  <2> QED
    BY <1>3, <2>1, Induction, Zenon
<1>6. ASSUME NEW d \in 0 .. MaxDepth PROVE Fine(d)
  <2>1. MaxDepth - d \in 0 .. MaxDepth /\ MaxDepth - (MaxDepth - d) = d
    BY <1>1
  <2>2. Fine(MaxDepth - (MaxDepth - d))
    BY <1>5, <2>1 DEF good
  <2> QED
    BY <2>1, <2>2, Zenon
<1> QED
  BY <1>6, Zenon DEF Fine

LEMMA AllTextsAreStrings ==
    ASSUME NEW payload, IsTree(payload), NEW f, Strung(f, payload)
    PROVE  \A t \in TextsIn(payload) : t \in ToSet(f[0][payload])
<1> DEFINE T == TextsIn(payload)
           all == ToSet(f[0][payload])
           Kept(d) == \A node \in Level(payload, d) : ToSet(f[d][node]) \subseteq all
           good == {d \in 0 .. MaxDepth : Kept(d)}
<1>1. MaxDepth \in Nat /\ 0 \in 0 .. MaxDepth
  BY DepthAssumption
<1>2. \A d \in 0 .. MaxDepth : \A node \in Level(payload, d) : f[d][node] \in Seq(T)
  BY StringsAreTexts, Zenon
<1>3. Kept(0)
  <2>1. \A node \in Level(payload, 0) : node = payload
    <3>1. Level(payload, 0) = {payload} /\ 0 \in Nat
      BY <1>1, Levels
    <3> QED
      BY <3>1
  <2> QED
    BY <2>1, Zenon
<1>4. ASSUME NEW d \in 0 + 1 .. MaxDepth, d - 1 \in good PROVE d \in good
  <2> DEFINE e == d - 1
  <2>1. e \in 0 .. MaxDepth /\ e \in Nat /\ e + 1 = d /\ e # MaxDepth /\ d \in 0 .. MaxDepth
    BY <1>1
  <2>2. Kept(e)
    BY <1>4
  <2> HIDE DEF e
  <2>3. ASSUME NEW node \in Level(payload, d) PROVE ToSet(f[d][node]) \subseteq all
    <3>1. Level(payload, d) = Deeper(Level(payload, e))
      <4>1. Level(payload, e + 1) = Deeper(Level(payload, e))
        BY <2>1, Levels, Zenon
      <4> QED
        BY <2>1, <4>1, Zenon
    <3>2. PICK parent \in Level(payload, e) : node \in ToSet(Inside(parent))
      BY <3>1, Zenon DEF Deeper
    <3> DEFINE in == Inside(parent)
               inner == Inner(f[d], parent)
    <3>3. PICK i \in DOMAIN in : node = in[i]
      BY <3>2, Zenon DEF ToSet
    <3>4. parent.kind # "string"
      <4>1. CASE parent.kind = "string"
        <5>1. in = <<>>
          BY <4>1 DEF Inside
        <5>2. DOMAIN in = {}
          BY <5>1
        <5> QED
          BY <5>2
      <4> QED
        BY <4>1
    <3>5. f[e][parent] = FlattenSeq(inner)
      <4>1. f[e][parent] = IF parent.kind = "string" THEN <<parent.text>>
                           ELSE IF e = MaxDepth THEN <<>> ELSE FlattenSeq(Inner(f[e + 1], parent))
        <5>1. Gathers(f, e, parent)
          BY <2>1, NodeStrings, Zenon
        <5> QED
          BY <5>1, Zenon DEF Gathers
      <4> QED
        BY <2>1, <3>4, <4>1, Zenon
    <3>6. inner = [j \in DOMAIN in |-> f[d][in[j]]]
      BY Zenon DEF Inner
    <3>7. in \in Seq(ToSet(in))
      BY <2>1, Zenon DEF IsTree
    <3>8. \A j \in DOMAIN in : f[d][in[j]] \in Seq(T)
      <4>1. \A j \in DOMAIN in : in[j] \in Level(payload, e + 1)
        BY <2>1, OneDeeper, Zenon
      <4>2. \A j \in DOMAIN in : in[j] \in Level(payload, d)
        BY <2>1, <4>1, Zenon
      <4> QED
        BY <1>2, <2>1, <4>2, Zenon
    <3> HIDE DEF in, inner, T, all
    <3>9. DOMAIN in = 1 .. Len(in) /\ Len(in) \in Nat
      BY <3>7
    <3>10. inner \in Seq(Seq(T)) /\ DOMAIN inner = DOMAIN in /\ inner[i] = f[d][node]
      BY <3>3, <3>6, <3>8, <3>9
    <3>11. \A x : x \in ToSet(inner[i]) => x \in ToSet(FlattenSeq(inner))
      BY <3>3, <3>10, FlatSet, Zenon
    <3>12. ToSet(f[e][parent]) \subseteq all
      BY <2>2, <3>2, Zenon
    <3> QED
      BY <3>5, <3>10, <3>11, <3>12, Zenon
  <2> QED
    BY <2>1, <2>3, Zenon
<1> HIDE DEF good
<1>5. 0 .. MaxDepth \subseteq good
  <2>1. 0 \in Nat /\ MaxDepth \in Int /\ \A d \in 0 + 1 .. MaxDepth : d - 1 \in good => d \in good
    BY <1>1, <1>4
  <2>2. 0 \in good
    BY <1>1, <1>3, Zenon DEF good
  <2> QED
    BY <2>1, <2>2, Induction, Zenon
<1>6. ASSUME NEW t \in T PROVE t \in all
  <2>1. PICK d \in 0 .. MaxDepth : \E node \in Level(payload, d) : node.kind = "string" /\ t = node.text
    <3>1. Occurs(t, payload)
      BY TextsAre, Zenon
    <3> QED
      BY <3>1, Zenon DEF Occurs
  <2>2. PICK node \in Level(payload, d) : node.kind = "string" /\ t = node.text
    BY <2>1
  <2>3. f[d][node] = <<t>>
    <3>1. f[d][node] = IF node.kind = "string" THEN <<node.text>>
                       ELSE IF d = MaxDepth THEN <<>> ELSE FlattenSeq(Inner(f[d + 1], node))
      <4>1. Gathers(f, d, node)
        BY NodeStrings, Zenon
      <4> QED
        BY <4>1, Zenon DEF Gathers
    <3> QED
      BY <2>2, <3>1, Zenon
  <2>4. t \in ToSet(<<t>>)
    BY DEF ToSet
  <2>5. ToSet(f[d][node]) \subseteq all
    BY <1>5, <2>2, Zenon DEF good
  <2> QED
    BY <2>3, <2>4, <2>5, Zenon
<1> QED
  BY <1>6, Zenon

\* _iter_strings: every text that is not too deep, and no other.
LEMMA StringsAre ==
    ASSUME NEW payload, IsTree(payload)
    PROVE  /\ Strings(payload) \in Seq(TextsIn(payload))
           /\ \A t \in TextsIn(payload) : t \in ToSet(Strings(payload))
<1>1. MaxDepth \in Nat /\ 0 \in 0 .. MaxDepth
  BY DepthAssumption
<1>2. PICK f : Strung(f, payload) /\ StringsTo(payload, MaxDepth) = f[0][payload]
  BY <1>1, StringsIs, Zenon DEF Strung
<1>3. Strings(payload) = f[0][payload]
  BY <1>2, Zenon DEF Strings
<1>4. payload \in Level(payload, 0)
  <2>1. Level(payload, 0) = {payload}
    <3>1. 0 \in Nat
      OBVIOUS
    <3> QED
      BY <3>1, Levels, Zenon
  <2> QED
    BY <2>1
<1>5. f[0][payload] \in Seq(TextsIn(payload))
  BY <1>1, <1>2, <1>4, StringsAreTexts, Zenon
<1>6. \A t \in TextsIn(payload) : t \in ToSet(f[0][payload])
  BY <1>2, AllTextsAreStrings, Zenon
<1> QED
  BY <1>3, <1>5, <1>6, Zenon

\* What is looked into, and in which order: what the texts hold, and last the
\* payload.
Ordered(payload, last) ==
    /\ DOMAIN Objects(payload) = 1 .. last /\ Objects(payload)[last] = payload
    /\ DOMAIN Strings(payload) = 1 .. last - 1
    /\ \A i \in 1 .. last - 1 : Objects(payload)[i] = Strings(payload)[i].holds
    /\ \A i \in 1 .. last - 1 : \E t \in TextsIn(payload) : Objects(payload)[i] = t.holds
    /\ \A t \in TextsIn(payload) : \E i \in 1 .. last - 1 : Objects(payload)[i] = t.holds

LEMMA ObjectsInOrder ==
    ASSUME NEW payload, payload # Nothing, IsTree(payload)
    PROVE  \E last \in Nat : 1 <= last /\ Ordered(payload, last)
<1> DEFINE strings == Strings(payload)
           T       == TextsIn(payload)
           held    == [i \in DOMAIN strings |-> strings[i].holds]
           A       == {text.holds : text \in T} \cup {payload}
           all     == Append(held, payload)
<1>1. strings \in Seq(T) /\ \A t \in T : t \in ToSet(strings)
  BY StringsAre, Zenon
<1>2. Objects(payload) = all
  BY Zenon DEF Objects
<1>3. /\ held \in Seq(A) /\ DOMAIN held = DOMAIN strings
      /\ \A i \in DOMAIN strings : strings[i] \in T /\ held[i] = strings[i].holds
  <2> HIDE DEF strings, T
  <2> QED
    BY <1>1
<1>4. payload \in A
  OBVIOUS
<1> HIDE DEF held
<1>5. /\ all \in Seq(A) /\ Len(all) = Len(held) + 1 /\ all[Len(held) + 1] = payload
      /\ \A i \in 1 .. Len(held) : all[i] = held[i]
  <2> HIDE DEF A
  <2> QED
    BY <1>3, <1>4
<1>6. DOMAIN held = 1 .. Len(held) /\ DOMAIN all = 1 .. Len(held) + 1 /\ Len(held) \in Nat
  <2> HIDE DEF A, all
  <2> QED
    BY <1>3, <1>5
<1> DEFINE last == Len(held) + 1
<1>7. last \in Nat /\ 1 <= last /\ 1 .. last - 1 = 1 .. Len(held)
  BY <1>6
<1> HIDE DEF all, strings, T, A
<1>8. \A i \in 1 .. Len(held) : \E t \in T : all[i] = t.holds
  BY <1>3, <1>5, <1>6, Zenon
<1>9. ASSUME NEW t \in T PROVE \E i \in 1 .. Len(held) : all[i] = t.holds
  <2>1. PICK i \in DOMAIN strings : strings[i] = t
    BY <1>1, Zenon DEF ToSet
  <2>2. i \in 1 .. Len(held)
    BY <1>3, <1>6
  <2>3. all[i] = t.holds
    BY <1>3, <1>5, <2>1, <2>2, Zenon
  <2> QED
    BY <2>2, <2>3
<1>10. DOMAIN all = 1 .. last /\ all[last] = payload
  BY <1>5, <1>6, Zenon
<1>11. DOMAIN strings = 1 .. last - 1 /\ \A i \in 1 .. last - 1 : all[i] = strings[i].holds
  <2>1. DOMAIN strings = 1 .. last - 1
    BY <1>3, <1>6, <1>7, Zenon
  <2> SUFFICES ASSUME NEW i \in 1 .. last - 1 PROVE all[i] = strings[i].holds
    BY <2>1
  <2>2. i \in 1 .. Len(held) /\ i \in DOMAIN strings
    BY <1>7, <2>1
  <2>3. all[i] = held[i] /\ held[i] = strings[i].holds
    BY <1>3, <1>5, <2>2, Zenon
  <2> QED
    BY <2>3
<1> HIDE DEF last
<1>12. Ordered(payload, last)
  BY <1>2, <1>7, <1>8, <1>9, <1>10, <1>11, Zenon DEF Ordered, T, strings
<1> QED
  BY <1>7, <1>12

\* The objects among them.
LEMMA ObjectsAre ==
    ASSUME NEW payload, payload # Nothing, IsTree(payload)
    PROVE  /\ DOMAIN Objects(payload) \subseteq Nat
           /\ \A i \in DOMAIN Objects(payload) :
                 IsObject(Objects(payload)[i]) => Objects(payload)[i] \in ObjectsIn(payload)
           /\ \A o \in ObjectsIn(payload) :
                 IsObject(o) /\ \E i \in DOMAIN Objects(payload) : Objects(payload)[i] = o
<1> DEFINE all == Objects(payload)
<1>1. PICK last \in Nat : 1 <= last /\ Ordered(payload, last)
  BY ObjectsInOrder, Zenon
<1>2. /\ DOMAIN all = 1 .. last /\ all[last] = payload
      /\ \A i \in 1 .. last - 1 : \E t \in TextsIn(payload) : all[i] = t.holds
      /\ \A t \in TextsIn(payload) : \E i \in 1 .. last - 1 : all[i] = t.holds
  BY <1>1, Zenon DEF Ordered
<1>3. \A o : o \in ObjectsIn(payload) <=>
               IsObject(o) /\ (o = payload \/ \E t \in TextsIn(payload) : o = t.holds)
  BY DEF ObjectsIn, Held
<1> HIDE DEF all
<1>4. DOMAIN all \subseteq Nat /\ last \in DOMAIN all /\ 1 .. last - 1 \subseteq DOMAIN all
  BY <1>1, <1>2
<1>5. ASSUME NEW i \in DOMAIN all PROVE i = last \/ i \in 1 .. last - 1
  BY <1>1, <1>2
<1>6. \A i \in DOMAIN all : IsObject(all[i]) => all[i] \in ObjectsIn(payload)
  BY <1>2, <1>3, <1>5, Zenon
<1>7. ASSUME NEW o \in ObjectsIn(payload)
      PROVE  IsObject(o) /\ \E i \in DOMAIN all : all[i] = o
  <2>1. CASE o = payload
    BY <1>2, <1>3, <1>4, <2>1
  <2>2. CASE o # payload
    <3>1. PICK t \in TextsIn(payload) : o = t.holds
      BY <1>3, <2>2
    <3>2. PICK i \in 1 .. last - 1 : all[i] = t.holds
      BY <1>2
    <3> QED
      BY <1>3, <1>4, <3>1, <3>2
  <2> QED
    BY <2>1, <2>2
<1> QED
  BY <1>4, <1>6, <1>7, Zenon DEF all

\* The id of the first object that names one, and the event.
LEMMA FirstId ==
    ASSUME NEW payload, payload # Nothing, IsTree(payload)
    PROVE  \/ /\ FirstWith(Objects(payload), IdIn) = Nothing
              /\ \A o \in ObjectsIn(payload) : IdIn(o) = Nothing
           \/ \E o \in ObjectsIn(payload) :
                 IdIn(o) # Nothing /\ FirstWith(Objects(payload), IdIn) = IdIn(o)
<1> DEFINE all    == Objects(payload)
           having == {i \in DOMAIN all : IsObject(all[i]) /\ IdIn(all[i]) # Nothing}
           first  == FirstWith(all, IdIn)
<1>1. first = IF having = {} THEN Nothing ELSE IdIn(all[Min(having)])
  BY Zenon DEF FirstWith
<1>2. /\ DOMAIN all \subseteq Nat
      /\ \A i \in DOMAIN all : IsObject(all[i]) => all[i] \in ObjectsIn(payload)
      /\ \A o \in ObjectsIn(payload) : IsObject(o) /\ \E i \in DOMAIN all : all[i] = o
  BY ObjectsAre, Zenon
<1> HIDE DEF all, first
<1>3. CASE having = {}
  <2>1. \A o \in ObjectsIn(payload) : IdIn(o) = Nothing
    BY <1>2, <1>3
  <2> QED
    BY <1>1, <1>3, <2>1, Zenon DEF first, all
<1>4. CASE having # {}
  <2>1. having \subseteq Nat
    BY <1>2
  <2>2. Min(having) \in having
    <3> HIDE DEF having
    <3> QED
      BY <1>4, <2>1, LeastExists, Zenon
  <2> DEFINE o == all[Min(having)]
  <2>3. o \in ObjectsIn(payload) /\ IdIn(o) # Nothing
    BY <1>2, <2>2
  <2>4. first = IdIn(o)
    BY <1>1, <1>4, Zenon
  <2> QED
    BY <2>3, <2>4, Zenon DEF first, all
<1> QED
  BY <1>3, <1>4, Zenon

LEMMA FirstEvent ==
    ASSUME NEW payload, payload # Nothing, IsTree(payload)
    PROVE  \/ /\ FirstWith(Objects(payload), EventIn) = Nothing
              /\ \A o \in ObjectsIn(payload) : EventIn(o) = Nothing
           \/ \E o \in ObjectsIn(payload) :
                 EventIn(o) # Nothing /\ FirstWith(Objects(payload), EventIn) = EventIn(o)
<1> DEFINE all    == Objects(payload)
           having == {i \in DOMAIN all : IsObject(all[i]) /\ EventIn(all[i]) # Nothing}
           first  == FirstWith(all, EventIn)
<1>1. first = IF having = {} THEN Nothing ELSE EventIn(all[Min(having)])
  BY Zenon DEF FirstWith
<1>2. /\ DOMAIN all \subseteq Nat
      /\ \A i \in DOMAIN all : IsObject(all[i]) => all[i] \in ObjectsIn(payload)
      /\ \A o \in ObjectsIn(payload) : IsObject(o) /\ \E i \in DOMAIN all : all[i] = o
  BY ObjectsAre, Zenon
<1> HIDE DEF all, first
<1>3. CASE having = {}
  <2>1. \A o \in ObjectsIn(payload) : EventIn(o) = Nothing
    BY <1>2, <1>3
  <2> QED
    BY <1>1, <1>3, <2>1, Zenon DEF first, all
<1>4. CASE having # {}
  <2>1. having \subseteq Nat
    BY <1>2
  <2>2. Min(having) \in having
    <3> HIDE DEF having
    <3> QED
      BY <1>4, <2>1, LeastExists, Zenon
  <2> DEFINE o == all[Min(having)]
  <2>3. o \in ObjectsIn(payload) /\ EventIn(o) # Nothing
    BY <1>2, <2>2
  <2>4. first = EventIn(o)
    BY <1>1, <1>4, Zenon
  <2> QED
    BY <2>3, <2>4, Zenon DEF first, all
<1> QED
  BY <1>3, <1>4, Zenon

\* Without a payload there is none.
LEMMA FirstOfNone ==
    FirstWith(Objects(Nothing), IdIn) = Nothing /\ FirstWith(Objects(Nothing), EventIn) = Nothing
<1>1. Objects(Nothing) = <<>>
  BY DEF Objects
<1>2. DOMAIN <<>> = {}
  OBVIOUS
<1>3. FirstWith(<<>>, IdIn) = Nothing
  BY <1>2, Zenon DEF FirstWith
<1>4. FirstWith(<<>>, EventIn) = Nothing
  BY <1>2, Zenon DEF FirstWith
<1> QED
  BY <1>1, <1>3, <1>4, Zenon

\* What an object of a body names is one of the body's names.
LEMMA NamesInBody ==
    ASSUME NEW b, IsBody(b), b.holds # Nothing, NEW o \in ObjectsIn(b.holds)
    PROVE  IdIn(o) \in b.names \cup {Nothing} /\ EventIn(o) \in b.names \cup {Nothing}
<1>1. \A i \in DOMAIN o.fields : Named(o.fields[i].value) \in b.names \cup {Nothing}
  BY Zenon DEF IsBody
<1>2. Named(Nothing) = Nothing
  BY DEF Named
<1>3. ASSUME NEW key PROVE Named(Get(o, key)) \in b.names \cup {Nothing}
  <2> DEFINE at0 == {i \in DOMAIN o.fields : o.fields[i].key = key}
             i0  == CHOOSE i \in at0 : TRUE
  <2>1. Get(o, key) = IF at0 = {} THEN Nothing ELSE o.fields[i0].value
    BY Zenon DEF Get
  <2>2. CASE at0 = {}
    BY <1>2, <2>1, <2>2
  <2>3. CASE at0 # {}
    <3>1. i0 \in at0
      <4> HIDE DEF at0
      <4> QED
        BY <2>3, Zenon
    <3> HIDE DEF i0
    <3>2. i0 \in DOMAIN o.fields
      BY <3>1
    <3> QED
      BY <1>1, <2>1, <2>3, <3>2, Zenon
  <2> QED
    BY <2>2, <2>3
<1>4. IdIn(o) \in b.names \cup {Nothing}
  BY <1>3, Zenon DEF IdIn
<1>5. EventIn(o) \in b.names \cup {Nothing}
  BY <1>3, Zenon DEF EventIn
<1> QED
  BY <1>4, <1>5

(***************************************************************************)
(* Requests.                                                               *)
(***************************************************************************)

\* A text is the body that was sent, or what is left of it says less and holds
\* nothing.
ReadOf(b) == b = request.body \/ (b.holds = Nothing /\ b.says \subseteq request.body.says)

Accepted == request.method = "POST" /\ Found /\ Authorised

\* The call an event is made into.
CallFor(e) ==
    IF e # Nothing /\ e.server_id \in KnownIds /\ e.event \in PortEvents
    THEN [name |-> NameOf(e.server_id),
          way  |-> IF e.event = "start_server" THEN "release" ELSE "reclaim"]
    ELSE Nothing

Heard == ReadOf(body) /\ event \in Parsed(body, KnownIds) /\ call = CallFor(event)

Blank == body = EmptyText /\ event = Nothing /\ call = Nothing

\* The invariant: what is read, heard and called is the request's.
ReceiverInv ==
    /\ request \in Requests
    /\ \/ stage = "head" /\ Blank
       \/ stage = "body" /\ Accepted /\ Blank
       \/ stage = "parsing" /\ Accepted /\ ReadOf(body) /\ event = Nothing /\ call = Nothing
       \/ stage = "moving" /\ Accepted /\ Heard
       \/ stage = "closed" /\ Blank
       \/ stage = "closed" /\ Accepted /\ Heard /\ reply = 200

LEMMA RefusedKeepsIt ==
    ASSUME ReceiverInv, NEW status, stage = "head", Replies(status)
    PROVE  ReceiverInv'
<1>1. Blank /\ stage' = "closed"
      /\ request' = request /\ body' = body /\ event' = event /\ call' = call
  <2>1. stage # "body" /\ stage # "parsing" /\ stage # "moving" /\ stage # "closed"
    OBVIOUS
  <2> QED
    BY <2>1, Zenon DEF ReceiverInv, Replies
<1> QED
  BY <1>1, Zenon DEF ReceiverInv, Blank

LEMMA PostedKeepsIt ==
    ASSUME ReceiverInv, Posts
    PROVE  ReceiverInv'
<1>1. /\ stage = "head" /\ stage' = "body" /\ Accepted
      /\ request' = request /\ body' = body /\ event' = event /\ call' = call
  BY Zenon DEF Posts, Accepted
<1>2. Blank
  <2>1. stage # "body" /\ stage # "parsing" /\ stage # "moving" /\ stage # "closed"
    BY <1>1
  <2> QED
    BY <2>1, Zenon DEF ReceiverInv
<1>3. Accepted'
  BY <1>1, Zenon DEF Accepted, Found, Authorised
<1> QED
  BY <1>1, <1>2, <1>3, Zenon DEF ReceiverInv, Blank

LEMMA ReadKeepsIt ==
    ASSUME ReceiverInv, ReadsBody
    PROVE  ReceiverInv'
<1> DEFINE cuts == {Mangled(part) : part \in SUBSET request.body.says}
<1>1. /\ stage = "body" /\ stage' = "parsing"
      /\ request' = request /\ event' = event /\ call' = call
      /\ body' \in CASE request.length = "right" -> {request.body, EmptyText}
                     [] request.length = "long"  -> {request.body} \cup cuts
                     [] OTHER                    -> {EmptyText}
  BY Zenon DEF ReadsBody
<1>2. body' \in {request.body, EmptyText} \cup cuts
  <2> DEFINE right == request.length = "right"
             long  == request.length = "long"
             whole == {request.body, EmptyText}
  <2>1. body' \in CASE right -> whole [] long -> {request.body} \cup cuts [] OTHER -> {EmptyText}
    BY <1>1, Zenon
  <2>2. EmptyText \in whole /\ request.body \in whole
    OBVIOUS
  <2> HIDE DEF right, long, whole, cuts
  <2>3. body' \in whole \cup {request.body} \cup cuts \cup {EmptyText}
    BY <2>1
  <2> QED
    BY <2>2, <2>3 DEF whole
<1>3. ReadOf(body')
  <2>1. CASE body' = request.body
    BY <2>1, Zenon DEF ReadOf
  <2>2. CASE body' = EmptyText
    <3>1. EmptyText.holds = Nothing /\ EmptyText.says = {}
      BY DEF EmptyText, Mangled
    <3>2. body'.holds = Nothing /\ body'.says \subseteq request.body.says
      BY <2>2, <3>1
    <3> QED
      BY <3>2, Zenon DEF ReadOf
  <2>3. CASE body' \in cuts
    <3>1. PICK part \in SUBSET request.body.says : body' = Mangled(part)
      BY <2>3
    <3>2. Mangled(part).holds = Nothing /\ Mangled(part).says = part
      BY DEF Mangled
    <3>3. body'.holds = Nothing /\ body'.says \subseteq request.body.says
      BY <3>1, <3>2, Zenon
    <3> QED
      BY <3>3, Zenon DEF ReadOf
  <2> QED
    BY <1>2, <2>1, <2>2, <2>3
<1>4. Accepted /\ Blank /\ request \in Requests
  <2>1. stage # "head" /\ stage # "parsing" /\ stage # "moving" /\ stage # "closed"
    BY <1>1
  <2> QED
    BY <2>1, Zenon DEF ReceiverInv
<1>5. ReadOf(body)' /\ Accepted'
  BY <1>1, <1>3, <1>4, Zenon DEF ReadOf, Accepted, Found, Authorised
<1> QED
  BY <1>1, <1>4, <1>5, Zenon DEF ReceiverInv, Blank

LEMMA ProcessedKeepsIt ==
    ASSUME ReceiverInv, Processes
    PROVE  ReceiverInv'
<1> DEFINE Moves == event' # Nothing /\ event'.server_id \in KnownIds /\ event'.event \in PortEvents
<1>1. /\ stage = "parsing" /\ event' \in Parsed(body, KnownIds)
      /\ request' = request /\ body' = body
      /\ \/ /\ Moves /\ stage' = "moving"
            /\ call' = [name |-> NameOf(event'.server_id),
                        way  |-> IF event'.event = "start_server" THEN "release" ELSE "reclaim"]
         \/ ~Moves /\ stage' = "closed" /\ reply' = 200 /\ call' = call
  BY Zenon DEF Processes
<1>2. Accepted /\ ReadOf(body) /\ call = Nothing /\ request \in Requests
  <2>1. stage # "head" /\ stage # "body" /\ stage # "moving" /\ stage # "closed"
    BY <1>1
  <2> QED
    BY <2>1, Zenon DEF ReceiverInv
<1>3. call' = CallFor(event')
  BY <1>1, <1>2, Zenon DEF CallFor
<1>4. Heard'
  <2>1. ReadOf(body)' /\ (event \in Parsed(body, KnownIds))' /\ (call = CallFor(event))'
    <3>1. ReadOf(body)'
      BY <1>1, <1>2, Zenon DEF ReadOf
    <3>2. (event \in Parsed(body, KnownIds))'
      BY <1>1, Zenon
    <3>3. (call = CallFor(event))'
      BY <1>3, Zenon DEF CallFor
    <3> QED
      BY <3>1, <3>2, <3>3
  <2> QED
    BY <2>1, Zenon DEF Heard
<1>5. Accepted'
  BY <1>1, <1>2, Zenon DEF Accepted, Found, Authorised
<1> QED
  BY <1>1, <1>2, <1>4, <1>5, Zenon DEF ReceiverInv

LEMMA ReturnKeepsIt ==
    ASSUME ReceiverInv, CallReturns
    PROVE  ReceiverInv'
<1>1. /\ stage = "moving" /\ stage' = "closed" /\ reply' = 200
      /\ request' = request /\ body' = body /\ event' = event /\ call' = call
  BY Zenon DEF CallReturns, Replies
<1>2. Accepted /\ Heard /\ request \in Requests
  <2>1. stage # "head" /\ stage # "body" /\ stage # "parsing" /\ stage # "closed"
    BY <1>1
  <2> QED
    BY <2>1, Zenon DEF ReceiverInv
<1>3. Accepted' /\ Heard'
  BY <1>1, <1>2, Zenon DEF Accepted, Found, Authorised, Heard, ReadOf, CallFor
<1> QED
  BY <1>1, <1>2, <1>3, Zenon DEF ReceiverInv

LEMMA ReceiverInvariant == ReceiverSpec => []ReceiverInv
<1>1. ReceiverInit => ReceiverInv
  BY Zenon DEF ReceiverInit, ReceiverInv, Blank
<1>2. ReceiverInv /\ [ReceiverNext]_receiverVars => ReceiverInv'
  <2> SUFFICES ASSUME ReceiverInv, [ReceiverNext]_receiverVars PROVE ReceiverInv'
    OBVIOUS
  <2>1. CASE HeadBreaks
    BY <2>1, RefusedKeepsIt, Zenon DEF HeadBreaks
  <2>2. CASE HeadIsBad
    BY <2>2, RefusedKeepsIt, Zenon DEF HeadIsBad
  <2>3. CASE Gets
    BY <2>3, RefusedKeepsIt, Zenon DEF Gets
  <2>4. CASE OtherMethod
    BY <2>4, RefusedKeepsIt, Zenon DEF OtherMethod
  <2>5. CASE PostIsRefused
    BY <2>5, RefusedKeepsIt, Zenon DEF PostIsRefused
  <2>6. CASE TokenRaises
    BY <2>6, RefusedKeepsIt, Zenon DEF TokenRaises
  <2>7. CASE Posts \/ ReadsBody \/ Processes \/ CallReturns
    BY <2>7, PostedKeepsIt, ReadKeepsIt, ProcessedKeepsIt, ReturnKeepsIt, Zenon
  <2>8. CASE UNCHANGED receiverVars
    BY <2>8, Zenon DEF receiverVars, ReceiverInv, Blank, Accepted, Found, Authorised, Heard,
       ReadOf, CallFor
  <2> QED
    BY <2>1, <2>2, <2>3, <2>4, <2>5, <2>6, <2>7, <2>8, Zenon DEF ReceiverNext
<1> QED
  BY <1>1, <1>2, PTL DEF ReceiverSpec

\* What parse_event finds, it finds in the body's names.
LEMMA FoundInBody ==
    ASSUME NEW b, b.says \subseteq request.body.names,
           b.holds # Nothing => IsBody(b) /\ b.names = request.body.names,
           NEW e \in Parsed(b, KnownIds), e # Nothing
    PROVE  e.server_id \in request.body.names /\ e.event \in request.body.names
<1> DEFINE names  == request.body.names
           id0    == FirstWith(Objects(b.holds), IdIn)
           event0 == FirstWith(Objects(b.holds), EventIn)
           found  == {i \in DOMAIN KnownEvents : KnownEvents[i] \in b.says}
<1>1. id0 \in names \cup {Nothing} /\ event0 \in names \cup {Nothing}
  <2>1. CASE b.holds = Nothing
    BY <2>1, FirstOfNone, Zenon
  <2>2. CASE b.holds # Nothing
    <3>1. IsTree(b.holds) /\ IsBody(b)
      BY <2>2, Zenon DEF IsTree, IsBody
    <3>2. \A o \in ObjectsIn(b.holds) :
             IdIn(o) \in names \cup {Nothing} /\ EventIn(o) \in names \cup {Nothing}
      BY <2>2, <3>1, NamesInBody, Zenon
    <3>3. id0 \in names \cup {Nothing}
      <4>1. id0 = Nothing \/ \E o \in ObjectsIn(b.holds) : id0 = IdIn(o)
        BY <2>2, <3>1, FirstId, Zenon
      <4> QED
        BY <3>2, <4>1 DEF id0
    <3>4. event0 \in names \cup {Nothing}
      <4>1. event0 = Nothing \/ \E o \in ObjectsIn(b.holds) : event0 = EventIn(o)
        BY <2>2, <3>1, FirstEvent, Zenon
      <4> QED
        BY <3>2, <4>1
    <3> QED
      BY <3>3, <3>4
  <2> QED
    BY <2>1, <2>2
<1>2. Ids(b, KnownIds) = IF id0 # Nothing THEN {id0} ELSE (KnownIds \ {""}) \cap b.says
  BY Zenon DEF Ids
<1>3. Event(b) = IF event0 # Nothing THEN event0
                 ELSE IF found = {} THEN Nothing ELSE KnownEvents[Min(found)]
  BY Zenon DEF Event
<1>4. e \in [server_id : Ids(b, KnownIds), event : {Event(b)}] /\ Event(b) # Nothing
  BY Zenon DEF Parsed
<1> HIDE DEF id0, event0
<1>5. e.server_id \in Ids(b, KnownIds) /\ e.event = Event(b)
  BY <1>4
<1>6. e.server_id \in names
  BY <1>1, <1>2, <1>5
<1>7. e.event \in names
  <2>1. CASE event0 # Nothing
    BY <1>1, <1>3, <1>5, <2>1
  <2>2. CASE event0 = Nothing
    <3>1. found # {} /\ e.event = KnownEvents[Min(found)]
      BY <1>3, <1>4, <1>5, <2>2
    <3>2. found \subseteq Nat
      BY KnownAssumption
    <3>3. Min(found) \in found
      <4> HIDE DEF found
      <4> QED
        BY <3>1, <3>2, LeastExists, Zenon
    <3> QED
      BY <3>1, <3>3
  <2> QED
    BY <2>1, <2>2
<1> QED
  BY <1>6, <1>7

\* Of servers with one id there is a last.
LEMMA LastNamed ==
    ASSUME NEW id \in KnownIds
    PROVE  \E i \in DOMAIN Managed : Managed[i].id = id /\ NameOf(id) = Managed[i].name
<1> DEFINE having == {i \in DOMAIN Managed : Managed[i].id = id}
           n      == Len(Managed)
           after  == {n - i : i \in having}
<1>1. DOMAIN Managed = 1 .. n /\ n \in Nat
  BY ManagedAssumption
<1>2. having # {}
  BY DEF KnownIds
<1> HIDE DEF n
<1>3. after \subseteq Nat /\ after # {}
  BY <1>1, <1>2
<1>4. Min(after) \in after /\ \A y \in after : Min(after) <= y
  <2> HIDE DEF after
  <2> QED
    BY <1>3, LeastExists, Zenon
<1>5. PICK last \in having : Min(after) = n - last
  BY <1>4
<1>6. \A i \in having : last >= i
  <2> SUFFICES ASSUME NEW i \in having PROVE last >= i
    OBVIOUS
  <2>1. n - i \in after
    OBVIOUS
  <2>2. n - last <= n - i
    BY <1>4, <1>5, <2>1, Zenon
  <2>3. i \in Int /\ last \in Int
    BY <1>1
  <2> QED
    BY <1>1, <2>2, <2>3
<1>7. Max(having) \in having
  <2> HIDE DEF having
  <2> QED
    BY <1>5, <1>6, Zenon DEF Max
<1>8. NameOf(id) = Managed[Max(having)].name
  BY Zenon DEF NameOf
<1> QED
  BY <1>7, <1>8

LEMMA BodiesAre ==
    ASSUME ReceiverInv
    PROVE  IsBody(request.body)
<1>1. request \in Requests
  BY Zenon DEF ReceiverInv
<1>2. \A r \in Requests : IsBody(r.body)
  BY RequestAssumption, SMT
<1> QED
  BY <1>1, <1>2, SMT

LEMMA CallsAreMeant ==
    ASSUME ReceiverInv, call # Nothing
    PROVE  MovesAreMeant
<1>1. Accepted /\ Heard
  <2>1. ~Blank
    BY Zenon DEF Blank
  <2> QED
    BY <2>1, Zenon DEF ReceiverInv
<1>2. IsBody(request.body)
  BY BodiesAre, Zenon
<1>3. request.body.says \subseteq request.body.names
  BY <1>2, Zenon DEF IsBody
<1>4. ReadOf(body) /\ event \in Parsed(body, KnownIds) /\ call = CallFor(event)
  BY <1>1, Zenon DEF Heard
<1>5. /\ body.says \subseteq request.body.names
      /\ body.holds # Nothing => IsBody(body) /\ body.names = request.body.names
  <2>1. CASE body = request.body
    BY <1>2, <1>3, <2>1
  <2>2. CASE body.holds = Nothing /\ body.says \subseteq request.body.says
    BY <1>3, <2>2
  <2> QED
    BY <1>4, <2>1, <2>2, Zenon DEF ReadOf
<1>6. event # Nothing /\ event.server_id \in KnownIds /\ event.event \in PortEvents
  BY <1>4, Zenon DEF CallFor
<1>7. event.server_id \in request.body.names /\ event.event \in request.body.names
  BY <1>4, <1>5, <1>6, FoundInBody, Zenon
<1>8. call = [name |-> NameOf(event.server_id),
              way  |-> IF event.event = "start_server" THEN "release" ELSE "reclaim"]
  BY <1>4, <1>6, Zenon DEF CallFor
<1>9. request.method = "POST" /\ Found
  BY <1>1, Zenon DEF Accepted
<1>10. Token # "" => request.token = Token
  BY <1>1, Zenon DEF Accepted, Authorised
<1>11. PICK i \in DOMAIN Managed : Managed[i].id = event.server_id /\ NameOf(event.server_id) = Managed[i].name
  BY <1>6, LastNamed, Zenon
<1>12. call.name = NameOf(event.server_id)
       /\ call.way = IF event.event = "start_server" THEN "release" ELSE "reclaim"
  BY <1>8
<1>13. Managed[i].name = call.name /\ Managed[i].id \in request.body.names
  BY <1>7, <1>11, <1>12
<1>14. event.event \in request.body.names \cap PortEvents
  BY <1>6, <1>7
<1> QED
  BY <1>9, <1>10, <1>12, <1>13, <1>14, Zenon DEF MovesAreMeant

\* The half that leads is the one that is taken.
LEMMA LeadingId ==
    ASSUME NEW payload, payload # Nothing, IsTree(payload), NEW half, half # Nothing,
           Leads(payload, IdIn, half)
    PROVE  FirstWith(Objects(payload), IdIn) = half
<1> DEFINE all     == Objects(payload)
           strings == Strings(payload)
           Has(i)  == IsObject(strings[i].holds) /\ IdIn(strings[i].holds) # Nothing
           having  == {i \in DOMAIN all : IsObject(all[i]) /\ IdIn(all[i]) # Nothing}
           first   == FirstWith(all, IdIn)
<1>1. first = IF having = {} THEN Nothing ELSE IdIn(all[Min(having)])
  BY Zenon DEF FirstWith
<1>2. PICK last \in Nat : 1 <= last /\ Ordered(payload, last)
  BY ObjectsInOrder, Zenon
<1>3. /\ DOMAIN all = 1 .. last /\ DOMAIN strings = 1 .. last - 1
      /\ \A i \in 1 .. last - 1 : all[i] = strings[i].holds
      /\ \A t \in TextsIn(payload) : \E i \in 1 .. last - 1 : all[i] = t.holds
  BY <1>2, Zenon DEF Ordered
<1>4. \/ /\ \E o \in Held(payload) : IdIn(o) = half
         /\ \A i \in DOMAIN strings : Has(i) /\ IdIn(strings[i].holds) # half =>
               \E j \in DOMAIN strings : j < i /\ Has(j) /\ IdIn(strings[j].holds) = half
      \/ IsObject(payload) /\ IdIn(payload) = half /\ \A o \in Held(payload) : IdIn(o) = Nothing
  BY Zenon DEF Leads, Strings
<1>5. CASE /\ \E o \in Held(payload) : IdIn(o) = half
           /\ \A i \in DOMAIN strings : Has(i) /\ IdIn(strings[i].holds) # half =>
                 \E j \in DOMAIN strings : j < i /\ Has(j) /\ IdIn(strings[j].holds) = half
  <2>1. PICK h \in Held(payload) : IdIn(h) = half
    BY <1>5
  <2>2. PICK t \in TextsIn(payload) : IsObject(h) /\ h = t.holds
    BY DEF Held
  <2> HIDE DEF all, strings, first
  <2>3. PICK i \in 1 .. last - 1 : all[i] = t.holds
    BY <1>3
  <2>4. having \subseteq Nat
    BY <1>2, <1>3
  <2>5. i \in having
    BY <1>2, <1>3, <2>1, <2>2, <2>3
  <2> DEFINE m == Min(having)
  <2>6. m \in having /\ \A y \in having : m <= y
    <3> HIDE DEF having
    <3> QED
      BY <2>4, <2>5, LeastExists, Zenon
  <2> HIDE DEF m
  <2>7. m \in 1 .. last - 1 /\ m \in DOMAIN strings
    BY <1>2, <1>3, <2>5, <2>6
  <2>8. all[m] = strings[m].holds /\ IsObject(all[m]) /\ IdIn(all[m]) # Nothing
    BY <1>3, <2>6, <2>7
  <2>9. Has(m)
    BY <2>8
  <2>10. IdIn(all[m]) = half
    <3> SUFFICES ASSUME IdIn(all[m]) # half PROVE FALSE
      OBVIOUS
    <3>1. IdIn(strings[m].holds) # half
      BY <2>8
    <3>2. PICK j \in DOMAIN strings : j < m /\ Has(j)
      <4> HIDE DEF Has
      <4> QED
        BY <1>5, <2>7, <2>9, <3>1, Zenon
    <3>3. j \in 1 .. last - 1 /\ j \in DOMAIN all
      BY <1>2, <1>3
    <3>4. all[j] = strings[j].holds
      BY <1>3, <3>3, Zenon
    <3>5. j \in having
      BY <3>2, <3>3, <3>4
    <3>6. m <= j
      BY <2>6, <3>5, Zenon
    <3>7. j \in Int /\ m \in Int
      BY <1>2, <2>7, <3>3
    <3> QED
      BY <3>2, <3>6, <3>7
  <2>11. first = IdIn(all[m])
    BY <1>1, <2>5, Zenon DEF m
  <2> QED
    BY <2>10, <2>11, Zenon DEF first, all
<1>6. CASE /\ IsObject(payload) /\ IdIn(payload) = half
           /\ \A o \in Held(payload) : IdIn(o) = Nothing
  <2>1. payload \in ObjectsIn(payload)
    BY <1>6 DEF ObjectsIn
  <2>2. PICK o \in ObjectsIn(payload) :
           IdIn(o) # Nothing /\ FirstWith(Objects(payload), IdIn) = IdIn(o)
    BY <1>6, <2>1, FirstId, Zenon
  <2>3. o = payload \/ o \in Held(payload)
    BY DEF ObjectsIn
  <2> QED
    BY <1>6, <2>2, <2>3
<1> QED
  BY <1>4, <1>5, <1>6, Zenon

LEMMA LeadingEvent ==
    ASSUME NEW payload, payload # Nothing, IsTree(payload), NEW half, half # Nothing,
           Leads(payload, EventIn, half)
    PROVE  FirstWith(Objects(payload), EventIn) = half
<1> DEFINE all     == Objects(payload)
           strings == Strings(payload)
           Has(i)  == IsObject(strings[i].holds) /\ EventIn(strings[i].holds) # Nothing
           having  == {i \in DOMAIN all : IsObject(all[i]) /\ EventIn(all[i]) # Nothing}
           first   == FirstWith(all, EventIn)
<1>1. first = IF having = {} THEN Nothing ELSE EventIn(all[Min(having)])
  BY Zenon DEF FirstWith
<1>2. PICK last \in Nat : 1 <= last /\ Ordered(payload, last)
  BY ObjectsInOrder, Zenon
<1>3. /\ DOMAIN all = 1 .. last /\ DOMAIN strings = 1 .. last - 1
      /\ \A i \in 1 .. last - 1 : all[i] = strings[i].holds
      /\ \A t \in TextsIn(payload) : \E i \in 1 .. last - 1 : all[i] = t.holds
  BY <1>2, Zenon DEF Ordered
<1>4. \/ /\ \E o \in Held(payload) : EventIn(o) = half
         /\ \A i \in DOMAIN strings : Has(i) /\ EventIn(strings[i].holds) # half =>
               \E j \in DOMAIN strings : j < i /\ Has(j) /\ EventIn(strings[j].holds) = half
      \/ IsObject(payload) /\ EventIn(payload) = half /\ \A o \in Held(payload) : EventIn(o) = Nothing
  BY Zenon DEF Leads, Strings
<1>5. CASE /\ \E o \in Held(payload) : EventIn(o) = half
           /\ \A i \in DOMAIN strings : Has(i) /\ EventIn(strings[i].holds) # half =>
                 \E j \in DOMAIN strings : j < i /\ Has(j) /\ EventIn(strings[j].holds) = half
  <2>1. PICK h \in Held(payload) : EventIn(h) = half
    BY <1>5
  <2>2. PICK t \in TextsIn(payload) : IsObject(h) /\ h = t.holds
    BY DEF Held
  <2> HIDE DEF all, strings, first
  <2>3. PICK i \in 1 .. last - 1 : all[i] = t.holds
    BY <1>3
  <2>4. having \subseteq Nat
    BY <1>2, <1>3
  <2>5. i \in having
    BY <1>2, <1>3, <2>1, <2>2, <2>3
  <2> DEFINE m == Min(having)
  <2>6. m \in having /\ \A y \in having : m <= y
    <3> HIDE DEF having
    <3> QED
      BY <2>4, <2>5, LeastExists, Zenon
  <2> HIDE DEF m
  <2>7. m \in 1 .. last - 1 /\ m \in DOMAIN strings
    BY <1>2, <1>3, <2>5, <2>6
  <2>8. all[m] = strings[m].holds /\ IsObject(all[m]) /\ EventIn(all[m]) # Nothing
    BY <1>3, <2>6, <2>7
  <2>9. Has(m)
    BY <2>8
  <2>10. EventIn(all[m]) = half
    <3> SUFFICES ASSUME EventIn(all[m]) # half PROVE FALSE
      OBVIOUS
    <3>1. EventIn(strings[m].holds) # half
      BY <2>8
    <3>2. PICK j \in DOMAIN strings : j < m /\ Has(j)
      <4> HIDE DEF Has
      <4> QED
        BY <1>5, <2>7, <2>9, <3>1, Zenon
    <3>3. j \in 1 .. last - 1 /\ j \in DOMAIN all
      BY <1>2, <1>3
    <3>4. all[j] = strings[j].holds
      BY <1>3, <3>3, Zenon
    <3>5. j \in having
      BY <3>2, <3>3, <3>4
    <3>6. m <= j
      BY <2>6, <3>5, Zenon
    <3>7. j \in Int /\ m \in Int
      BY <1>2, <2>7, <3>3
    <3> QED
      BY <3>2, <3>6, <3>7
  <2>11. first = EventIn(all[m])
    BY <1>1, <2>5, Zenon DEF m
  <2> QED
    BY <2>10, <2>11, Zenon DEF first, all
<1>6. CASE /\ IsObject(payload) /\ EventIn(payload) = half
           /\ \A o \in Held(payload) : EventIn(o) = Nothing
  <2>1. payload \in ObjectsIn(payload)
    BY <1>6 DEF ObjectsIn
  <2>2. PICK o \in ObjectsIn(payload) :
           EventIn(o) # Nothing /\ FirstWith(Objects(payload), EventIn) = EventIn(o)
    BY <1>6, <2>1, FirstEvent, Zenon
  <2>3. o = payload \/ o \in Held(payload)
    BY DEF ObjectsIn
  <2> QED
    BY <1>6, <2>2, <2>3
<1> QED
  BY <1>4, <1>5, <1>6, Zenon

LEMMA TemplateParsed ==
    ASSUME IsBody(request.body), Unrivalled(request), request.carries # Nothing
    PROVE  request.body.holds # Nothing /\ Parsed(request.body, KnownIds) = {request.carries}
<1> DEFINE payload  == request.body.holds
           template == request.carries
           id       == template.server_id
           name0    == template.event
<1>1. /\ payload # Nothing
      /\ template \in [server_id : {id}, event : {name0}]
      /\ Nothing \notin {id, name0}
      /\ Leads(payload, IdIn, id)
      /\ Leads(payload, EventIn, name0)
  BY Zenon DEF Unrivalled
<1>2. IsTree(payload)
  BY <1>1, Zenon DEF IsBody, IsTree
<1>3. id # Nothing /\ name0 # Nothing
  BY <1>1
<1> HIDE DEF payload, template, id, name0
<1>4. FirstWith(Objects(payload), IdIn) = id
  BY <1>1, <1>2, <1>3, LeadingId, Zenon
<1>5. FirstWith(Objects(payload), EventIn) = name0
  BY <1>1, <1>2, <1>3, LeadingEvent, Zenon
<1>6. Ids(request.body, KnownIds) = {id}
  BY <1>3, <1>4, Zenon DEF Ids, payload
<1>7. Event(request.body) = name0
  BY <1>3, <1>5, Zenon DEF Event, payload
<1>8. {id} # {}
  OBVIOUS
<1>9. Parsed(request.body, KnownIds) = [server_id : {id}, event : {name0}]
  BY <1>3, <1>6, <1>7, <1>8, Zenon DEF Parsed
<1>10. \A r \in [server_id : {id}, event : {name0}] : r = template
  BY <1>1
<1> QED
  BY <1>1, <1>9, <1>10, Zenon DEF payload, template

\* _handle_post, _read_body and _process_crafty_event: only a request with the
\* method, the path and the token moves a port, and however its body is cut
\* off, only that of a server whose id it has and for an event it has.
THEOREM OnlyMeantMoves == ReceiverSpec => []MovesAreMeant
<1>1. ReceiverInv => MovesAreMeant
  BY CallsAreMeant, Zenon DEF MovesAreMeant
<1> QED
  BY <1>1, ReceiverInvariant, PTL

\* parse_event and _process_crafty_event: a rendered template that no string
\* before it contradicts is what is heard, wherever it is and whatever its
\* envelope has beside it, and is answered with 200.
THEOREM TemplatesAreHeard == ReceiverSpec => [](Unrivalled(request) => TemplateIsHeard)
<1>1. ReceiverInv => (Unrivalled(request) => TemplateIsHeard)
  <2> SUFFICES ASSUME ReceiverInv, Unrivalled(request),
                      stage = "closed", request.carries # Nothing, body = request.body
               PROVE  reply = 200 /\ event = request.carries
    BY DEF TemplateIsHeard
  <2>1. IsBody(request.body)
    BY BodiesAre, Zenon
  <2>2. request.body.holds # Nothing /\ Parsed(request.body, KnownIds) = {request.carries}
    BY <2>1, TemplateParsed, Zenon
  <2>3. ~Blank
    <3>1. EmptyText.holds = Nothing
      BY DEF EmptyText, Mangled
    <3> QED
      BY <2>2, <3>1, Zenon DEF Blank
  <2>4. Heard /\ reply = 200
    <3>1. stage # "head" /\ stage # "body" /\ stage # "parsing" /\ stage # "moving"
      OBVIOUS
    <3> QED
      BY <2>3, <3>1, Zenon DEF ReceiverInv
  <2> QED
    BY <2>2, <2>4 DEF Heard
<1> QED
  BY <1>1, ReceiverInvariant, PTL
=============================================================================
