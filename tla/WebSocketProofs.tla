-------------------------- MODULE WebSocketProofs --------------------------
(***************************************************************************)
(* Proofs about WebSocket, for any messages, mask keys, limits of the      *)
(* forms of a length, size of a read, and cut of the stream.               *)
(***************************************************************************)
EXTENDS WebSocket, Integers, SequenceTheorems, TLAPS

-----------------------------------------------------------------------------
(***************************************************************************)
(* What a frame looks like.                                                *)
(***************************************************************************)
\* The code of a length, the number of bytes of a head with it, and the bytes
\* of the key of an end.
Code(n) == IF n <= SmallMax THEN n ELSE IF n > MediumMax THEN 127 ELSE 126
HeadLen(n) == IF n <= SmallMax THEN 2 ELSE IF n > MediumMax THEN 10 ELSE 4
KeyLen(p) == IF p = "client" THEN 4 ELSE 0
MaskBit(p) == IF p = "client" THEN 128 ELSE 0

\* Message k of p, its body as it is sent and the whole frame.
Message(p, k) == Messages[p][k]
Body(p, k, key) == IF p = "client" THEN Masked(Message(p, k), key) ELSE Message(p, k)
Frame(p, k, key) ==
    IF p = "server" THEN FrameHead(Len(Message(p, k)), FALSE) \o Message(p, k)
    ELSE FrameHead(Len(Message(p, k)), TRUE) \o key \o Masked(Message(p, k), key)

\* The two ends.
LEMMA TwoEnds ==
    /\ "client" \in Ends /\ "server" \in Ends
    /\ Peer("client") = "server" /\ Peer("server") = "client"
    /\ \A e \in Ends : Peer(e) \in Ends /\ Peer(e) # e /\ Peer(Peer(e)) = e
    /\ \A e, f \in Ends : f = e \/ f = Peer(e)
BY DEF Ends, Peer

\* A concatenation, position by position.
LEMMA Joined ==
    ASSUME NEW s \in Seq(Nat), NEW t \in Seq(Nat)
    PROVE  /\ s \o t \in Seq(Nat) /\ Len(s \o t) = Len(s) + Len(t)
           /\ Len(s) \in Nat /\ Len(t) \in Nat
           /\ \A i \in 1 .. Len(s) : (s \o t)[i] = s[i]
           /\ \A i \in 1 .. Len(t) : (s \o t)[Len(s) + i] = t[i]
<1>1. /\ s \o t \in Seq(Nat) /\ Len(s \o t) = Len(s) + Len(t)
      /\ \A i \in 1 .. Len(s) + Len(t) : (s \o t)[i] = IF i <= Len(s) THEN s[i] ELSE t[i - Len(s)]
  BY ConcatProperties
<1>2. Len(s) \in Nat /\ Len(t) \in Nat OBVIOUS
<1>3. PICK m \in Nat, n \in Nat : m = Len(s) /\ n = Len(t) BY <1>2
<1>4. ASSUME NEW i \in 1 .. m PROVE (s \o t)[i] = s[i]
  <2>1. i \in 1 .. m + n /\ i <= m OBVIOUS
  <2> QED BY <1>1, <1>3, <2>1
<1>5. ASSUME NEW i \in 1 .. n PROVE (s \o t)[m + i] = t[i]
  <2>1. m + i \in 1 .. m + n /\ ~(m + i <= m) /\ (m + i) - m = i OBVIOUS
  <2> QED BY <1>1, <1>3, <2>1
<1> QED BY <1>1, <1>2, <1>3, <1>4, <1>5

\* A function on 1 .. n is a sequence of length n.
LEMMA FunctionIsSeq ==
    ASSUME NEW S, NEW n \in Nat, NEW f \in [1 .. n -> S]
    PROVE  f \in Seq(S) /\ Len(f) = n
<1>1. f \in Seq(S) BY SeqDef
<1>2. DOMAIN f = 1 .. n OBVIOUS
<1>3. Len(f) \in Nat /\ DOMAIN f = 1 .. Len(f) BY <1>1, LenProperties
<1>4. \A m \in Nat : 1 .. m = 1 .. n => m = n
  <2> SUFFICES ASSUME NEW m \in Nat, 1 .. m = 1 .. n PROVE m = n OBVIOUS
  <2>1. CASE m < n
    <3>1. n \in 1 .. n /\ n \notin 1 .. m BY <2>1
    <3> QED BY <3>1
  <2>2. CASE n < m
    <3>1. m \in 1 .. m /\ m \notin 1 .. n BY <2>2
    <3> QED BY <3>1
  <2> QED BY <2>1, <2>2
<1> QED BY <1>1, <1>2, <1>3, <1>4

\* A part of a sequence, position by position.
LEMMA Cut ==
    ASSUME NEW s \in Seq(Nat), NEW a \in Nat, NEW b \in Nat, a <= b, b <= Len(s)
    PROVE  /\ SubSeq(s, a + 1, b) \in Seq(Nat) /\ Len(SubSeq(s, a + 1, b)) = b - a
           /\ \A i \in 1 .. b - a : SubSeq(s, a + 1, b)[i] = s[a + i]
<1>1. Len(s) \in Nat /\ \A i \in (a + 1) .. b : s[i] \in Nat OBVIOUS
<1>2. /\ SubSeq(s, a + 1, b) \in Seq(Nat)
      /\ Len(SubSeq(s, a + 1, b)) = IF a + 1 <= b THEN b - (a + 1) + 1 ELSE 0
      /\ \A i \in 1 .. b - (a + 1) + 1 : SubSeq(s, a + 1, b)[i] = s[a + 1 + i - 1]
  BY <1>1, SubSeqProperties
<1>3. Len(SubSeq(s, a + 1, b)) = b - a BY <1>2
<1>4. ASSUME NEW i \in 1 .. b - a PROVE SubSeq(s, a + 1, b)[i] = s[a + i]
  <2>1. i \in 1 .. b - (a + 1) + 1 /\ a + 1 + i - 1 = a + i OBVIOUS
  <2> QED BY <1>2, <2>1
<1> QED BY <1>2, <1>3, <1>4

LEMMA CutFirst ==
    ASSUME NEW s \in Seq(Nat), NEW b \in Nat, b <= Len(s)
    PROVE  /\ SubSeq(s, 1, b) \in Seq(Nat) /\ Len(SubSeq(s, 1, b)) = b
           /\ \A i \in 1 .. b : SubSeq(s, 1, b)[i] = s[i]
<1> DEFINE t == SubSeq(s, 0 + 1, b)
<1>1. t \in Seq(Nat) /\ Len(t) = b - 0 /\ \A i \in 1 .. b - 0 : t[i] = s[0 + i] BY Cut
<1>2. t = SubSeq(s, 1, b) OBVIOUS
<1> HIDE DEF t
<1>3. t \in Seq(Nat) /\ Len(t) = b /\ \A i \in 1 .. b : t[i] = s[i] BY <1>1
<1> QED BY <1>2, <1>3

\* The bytes of a length are bytes, and read as the length again.
LEMMA BigTypes ==
    ASSUME NEW n \in 0 .. TwoBytes, NEW w \in {2, 8}
    PROVE  /\ Big(n, w) \in Seq(Nat) /\ Len(Big(n, w)) = w
           /\ \A i \in 1 .. w : i < w - 1 => Big(n, w)[i] = 0
           /\ Big(n, w)[w - 1] = n \div 256 /\ Big(n, w)[w] = n % 256
<1>1. n % 256 \in Nat /\ n \div 256 \in Nat OBVIOUS
<1>2. \A i \in 1 .. w : (IF i = w THEN n % 256 ELSE IF i = w - 1 THEN n \div 256 ELSE 0) \in Nat
  BY <1>1
<1>3. Big(n, w) \in [1 .. w -> Nat] BY <1>2 DEF Big
<1>4. Big(n, w) \in Seq(Nat) /\ Len(Big(n, w)) = w BY <1>3, FunctionIsSeq, w \in Nat
<1>5. w \in 1 .. w /\ w - 1 \in 1 .. w /\ w # w - 1 OBVIOUS
<1>6. Big(n, w)[w - 1] = n \div 256 /\ Big(n, w)[w] = n % 256 BY <1>5 DEF Big
<1>7. ASSUME NEW i \in 1 .. w, i < w - 1 PROVE Big(n, w)[i] = 0
  <2>1. i # w /\ i # w - 1 BY <1>7
  <2> QED BY <2>1 DEF Big
<1> QED BY <1>4, <1>6, <1>7

LEMMA LengthReadBack ==
    ASSUME NEW n \in 0 .. TwoBytes, NEW w \in {2, 8}, NEW s \in Seq(Nat), Len(s) = w,
           \A i \in 1 .. w : s[i] = Big(n, w)[i]
    PROVE  FromBig(s) = n
<1>1. \A i \in 1 .. w - 2 : s[i] = 0
  <2> SUFFICES ASSUME NEW i \in 1 .. w - 2 PROVE s[i] = 0 OBVIOUS
  <2>1. i \in 1 .. w /\ i # w /\ i # w - 1 OBVIOUS
  <2> QED BY <2>1 DEF Big
<1>2. s[w - 1] = n \div 256 /\ s[w] = n % 256
  <2>1. w \in 1 .. w /\ w - 1 \in 1 .. w /\ w - 1 # w OBVIOUS
  <2> QED BY <2>1 DEF Big
<1>3. 256 * (n \div 256) + (n % 256) = n OBVIOUS
<1> QED BY <1>1, <1>2, <1>3 DEF FromBig

\* Masking twice with the same key gives the message back.
LEMMA MaskUndone ==
    ASSUME NEW m \in Seq({0, 1}), NEW key \in [1 .. 4 -> {0, 1}]
    PROVE  /\ Masked(m, key) \in Seq(Nat) /\ Len(Masked(m, key)) = Len(m)
           /\ Masked(Masked(m, key), key) = m
<1> DEFINE x == Masked(m, key)
<1>1. \A i \in 1 .. Len(m) : 1 + ((i - 1) % 4) \in 1 .. 4
  <2> SUFFICES ASSUME NEW i \in Nat, i >= 1 PROVE 1 + ((i - 1) % 4) \in 1 .. 4 OBVIOUS
  <2> QED OBVIOUS
<1>2. \A a, b \in {0, 1} : (a + b) % 2 \in {0, 1} /\ (((a + b) % 2) + b) % 2 = a
  OBVIOUS
<1>3. \A i \in 1 .. Len(m) : m[i] \in {0, 1} /\ key[1 + ((i - 1) % 4)] \in {0, 1} BY <1>1
<1>4. /\ \A i \in 1 .. Len(m) : x[i] = (m[i] + key[1 + ((i - 1) % 4)]) % 2
      /\ x \in [1 .. Len(m) -> {0, 1}]
  BY <1>2, <1>3 DEF Masked
<1>5. x \in Seq({0, 1}) /\ Len(x) = Len(m) BY <1>4, FunctionIsSeq, Len(m) \in Nat
<1>6. x \in Seq(Nat) BY <1>5, SeqMonotonic, {0, 1} \subseteq Nat
<1>7. Masked(x, key) = m
  <2>1. Masked(x, key) = [i \in 1 .. Len(m) |-> (x[i] + key[1 + ((i - 1) % 4)]) % 2]
    BY <1>5 DEF Masked
  <2>2. \A i \in 1 .. Len(m) : (x[i] + key[1 + ((i - 1) % 4)]) % 2 = m[i]
    BY <1>2, <1>3, <1>4
  <2>3. m = [i \in 1 .. Len(m) |-> m[i]] OBVIOUS
  <2> QED BY <2>1, <2>2, <2>3
<1> QED BY <1>5, <1>6, <1>7

\* What a length of two bytes can say.
LEMMA TwoBytesNat == TwoBytes \in Nat
BY DEF TwoBytes

\* The head of a frame with a body of n bytes.
LEMMA HeadShape ==
    ASSUME NEW n \in 1 .. Room, NEW masked \in BOOLEAN
    PROVE  LET h == FrameHead(n, masked)
           IN  /\ h \in Seq(Nat) /\ Len(h) = HeadLen(n) /\ HeadLen(n) \in {2, 4, 10}
               /\ h[2] = Code(n) + (IF masked THEN 128 ELSE 0) /\ Code(n) \in 1 .. 127
               /\ HeadLen(n) = 2 => Code(n) = n /\ n <= 125
               /\ HeadLen(n) > 2 => /\ Code(n) = IF HeadLen(n) = 4 THEN 126 ELSE 127
                                    /\ HeadLen(n) - 2 \in {2, 8}
                                    /\ \A i \in 1 .. HeadLen(n) - 2 :
                                           h[2 + i] = Big(n, HeadLen(n) - 2)[i]
<1> DEFINE c == Code(n) + (IF masked THEN 128 ELSE 0)
           x == <<Binary, c>>
           y == IF n <= SmallMax THEN <<>> ELSE Big(n, HeadLen(n) - 2)
<1>0. /\ n \in Nat /\ SmallMax \in Nat /\ MediumMax \in Nat
      /\ 1 <= n /\ n <= TwoBytes /\ SmallMax <= 125 /\ SmallMax <= MediumMax
  BY RoomAssumption, LengthAssumption, TwoBytesNat
<1>1. /\ n \in 0 .. TwoBytes /\ n >= 1 /\ Code(n) \in 1 .. 127 /\ HeadLen(n) \in {2, 4, 10}
      /\ HeadLen(n) = 2 => Code(n) = n /\ n <= 125 /\ n <= SmallMax
      /\ HeadLen(n) > 2 => /\ Code(n) = IF HeadLen(n) = 4 THEN 126 ELSE 127
                           /\ HeadLen(n) - 2 \in {2, 8} /\ ~(n <= SmallMax)
  <2>1. CASE n <= SmallMax BY <1>0, <2>1 DEF Code, HeadLen
  <2>2. CASE n > SmallMax /\ n > MediumMax BY <1>0, <2>2 DEF Code, HeadLen
  <2>3. CASE n > SmallMax /\ ~(n > MediumMax) BY <1>0, <2>3 DEF Code, HeadLen
  <2>4. n <= SmallMax \/ (n > SmallMax /\ n > MediumMax) \/ (n > SmallMax /\ ~(n > MediumMax))
    BY <1>0
  <2> HIDE DEF c, x, y
  <2> QED BY <2>1, <2>2, <2>3, <2>4, Zenon
<1>2. c \in Nat BY <1>1
<1>3. FrameHead(n, masked) = x \o y
  <2>1. CASE n <= SmallMax BY <1>0, <2>1 DEF FrameHead, Code, HeadLen
  <2>2. CASE n > SmallMax /\ n > MediumMax
    <3>1. HeadLen(n) - 2 = 8 /\ Code(n) = 127 /\ ~(n <= SmallMax) BY <1>0, <2>2 DEF Code, HeadLen
    <3> QED BY <2>2, <3>1 DEF FrameHead
  <2>3. CASE n > SmallMax /\ ~(n > MediumMax)
    <3>1. HeadLen(n) - 2 = 2 /\ Code(n) = 126 /\ ~(n <= SmallMax) BY <1>0, <2>3 DEF Code, HeadLen
    <3> QED BY <2>3, <3>1 DEF FrameHead
  <2> QED BY <1>0, <2>1, <2>2, <2>3
<1>4. x \in Seq(Nat) /\ Len(x) = 2 /\ x[2] = c BY <1>2 DEF Binary
<1>5. /\ y \in Seq(Nat) /\ Len(y) = HeadLen(n) - 2
      /\ HeadLen(n) > 2 => y = Big(n, HeadLen(n) - 2)
  <2>1. CASE HeadLen(n) = 2 BY <1>1, <2>1
  <2>2. CASE HeadLen(n) > 2
    <3>1. y = Big(n, HeadLen(n) - 2) /\ HeadLen(n) - 2 \in {2, 8} BY <1>1, <2>2
    <3> HIDE DEF y
    <3>2. PICK w \in {2, 8} : w = HeadLen(n) - 2 BY <3>1
    <3>3. Big(n, w) \in Seq(Nat) /\ Len(Big(n, w)) = w BY <1>1, BigTypes, ZenonT(30)
    <3> QED BY <3>1, <3>2, <3>3
  <2> QED BY <1>1, <2>1, <2>2
<1> HIDE DEF x, y, c
<1>6. /\ x \o y \in Seq(Nat) /\ Len(x \o y) = 2 + Len(y)
      /\ \A i \in 1 .. 2 : (x \o y)[i] = x[i]
      /\ \A i \in 1 .. Len(y) : (x \o y)[2 + i] = y[i]
  <2>1. Len(y) \in Nat /\ \A i \in 1 .. Len(x) : (x \o y)[i] = x[i] BY <1>4, <1>5, Joined
  <2>2. /\ x \o y \in Seq(Nat) /\ Len(x \o y) = Len(x) + Len(y)
        /\ \A i \in 1 .. Len(y) : (x \o y)[Len(x) + i] = y[i]
    BY <1>4, <1>5, Joined
  <2> QED BY <1>4, <2>1, <2>2
<1>7. Len(x \o y) = HeadLen(n) /\ (x \o y)[2] = c
  <2>1. 2 \in 1 .. 2 /\ HeadLen(n) \in Nat BY <1>1
  <2>2. Len(x \o y) = HeadLen(n) BY <1>5, <1>6, <2>1
  <2> QED BY <1>4, <1>6, <2>1, <2>2
<1>8. HeadLen(n) > 2 => \A i \in 1 .. HeadLen(n) - 2 : (x \o y)[2 + i] = Big(n, HeadLen(n) - 2)[i]
  BY <1>5, <1>6
<1>9. (x \o y)[2] = Code(n) + (IF masked THEN 128 ELSE 0) BY <1>7 DEF c
<1>10. PICK z : z = x \o y OBVIOUS
<1>11. FrameHead(n, masked) = z /\ z \in Seq(Nat) /\ Len(z) = HeadLen(n) BY <1>3, <1>6, <1>7, <1>10
<1>12. z[2] = Code(n) + (IF masked THEN 128 ELSE 0) BY <1>9, <1>10
<1>13. HeadLen(n) > 2 => \A i \in 1 .. HeadLen(n) - 2 : z[2 + i] = Big(n, HeadLen(n) - 2)[i]
  BY <1>8, <1>10
<1>14. /\ HeadLen(n) \in {2, 4, 10} /\ Code(n) \in 1 .. 127
       /\ HeadLen(n) = 2 => Code(n) = n /\ n <= 125
  BY <1>1, Zenon
<1>15. HeadLen(n) > 2 => /\ Code(n) = IF HeadLen(n) = 4 THEN 126 ELSE 127
                         /\ HeadLen(n) - 2 \in {2, 8}
                         /\ \A i \in 1 .. HeadLen(n) - 2 : z[2 + i] = Big(n, HeadLen(n) - 2)[i]
  BY <1>1, <1>13, Zenon
<1> QED BY <1>11, <1>12, <1>14, <1>15, Zenon

\* A frame: its head, its key, its body.
LEMMA FrameShape ==
    ASSUME NEW p \in Ends, NEW k \in 1 .. Len(Messages[p]), NEW key \in MaskKeys
    PROVE  LET f == Frame(p, k, key)
               n == Len(Message(p, k))
               h == HeadLen(n)
               b == Body(p, k, key)
           IN  /\ n \in 1 .. Room /\ Message(p, k) \in Seq({0, 1})
               /\ f \in Seq(Nat) /\ Len(f) = h + KeyLen(p) + n /\ b \in Seq(Nat) /\ Len(b) = n
               /\ f[2] = Code(n) + MaskBit(p)
               /\ h > 2 => \A i \in 1 .. h - 2 : f[2 + i] = Big(n, h - 2)[i]
               /\ p = "client" => key \in Seq(Nat) /\ Len(key) = 4
                                  /\ \A i \in 1 .. 4 : f[h + i] = key[i]
               /\ \A i \in 1 .. n : f[h + KeyLen(p) + i] = b[i]
<1> DEFINE n == Len(Message(p, k))
           h == HeadLen(n)
           b == Body(p, k, key)
           m == Message(p, k)
<1>1. n \in 1 .. Room /\ m \in Seq({0, 1})
  <2>1. Messages[p] \in Seq(Seq({0, 1})) /\ Len(Messages[p][k]) \in 1 .. Room
    BY MessagesAssumption
  <2>2. Messages[p][k] \in Seq({0, 1}) BY <2>1, ElementOfSeq
  <2> QED BY <2>1, <2>2 DEF Message
<1>2. key \in [1 .. 4 -> {0, 1}] BY MaskAssumption
<1>3. key \in [1 .. 4 -> Nat] BY <1>2
<1>4. key \in Seq(Nat) /\ Len(key) = 4 BY <1>3, FunctionIsSeq, 4 \in Nat, ZenonT(30)
<1>5. m \in Seq(Nat) BY <1>1, SeqMonotonic, {0, 1} \subseteq Nat
<1>6. b \in Seq(Nat) /\ Len(b) = n
  BY <1>1, <1>2, <1>5, MaskUndone DEF Body
<1> HIDE DEF m, b
<1>7. CASE p = "server"
  <2> DEFINE x == FrameHead(n, FALSE)
  <2>1. Frame(p, k, key) = x \o b BY <1>7 DEF Frame, Body, b
  <2>2. /\ x \in Seq(Nat) /\ Len(x) = h /\ h \in {2, 4, 10} /\ x[2] = Code(n)
        /\ h > 2 => \A i \in 1 .. h - 2 : x[2 + i] = Big(n, h - 2)[i]
    <3>1. Code(n) \in Nat BY <1>1, LengthAssumption, RoomAssumption DEF Code
    <3>2. /\ x \in Seq(Nat) /\ Len(x) = h /\ h \in {2, 4, 10}
          /\ x[2] = Code(n) + (IF FALSE THEN 128 ELSE 0)
          /\ h > 2 => \A i \in 1 .. h - 2 : x[2 + i] = Big(n, h - 2)[i]
      BY <1>1, HeadShape, FALSE \in BOOLEAN
    <3> HIDE DEF x, h, n
    <3> QED BY <3>1, <3>2
  <2> HIDE DEF x, h, n
  <2>3. /\ x \o b \in Seq(Nat) /\ Len(x \o b) = h + n
        /\ \A i \in 1 .. h : (x \o b)[i] = x[i]
        /\ \A i \in 1 .. n : (x \o b)[h + i] = b[i]
    BY <1>6, <2>2, Joined
  <2>4. KeyLen(p) = 0 /\ MaskBit(p) = 0 /\ p # "client" BY <1>7 DEF KeyLen, MaskBit
  <2>5. n \in Nat /\ h \in Nat /\ Code(n) \in Nat
    BY <1>1, <2>2, LengthAssumption, RoomAssumption DEF Code
  <2>6. (x \o b)[2] = Code(n) + MaskBit(p)
    <3>1. 2 \in 1 .. h BY <2>2
    <3> QED BY <2>2, <2>3, <2>4, <2>5, <3>1
  <2>7. h > 2 => \A i \in 1 .. h - 2 : (x \o b)[2 + i] = Big(n, h - 2)[i]
    <3> SUFFICES ASSUME h > 2, NEW i \in 1 .. h - 2 PROVE (x \o b)[2 + i] = Big(n, h - 2)[i]
      OBVIOUS
    <3>1. 2 + i \in 1 .. h BY <2>5
    <3> QED BY <2>2, <2>3, <3>1
  <2>8. h + KeyLen(p) + n = h + n /\ \A i \in 1 .. n : h + KeyLen(p) + i = h + i BY <2>4, <2>5
  <2> QED BY <1>1, <1>6, <2>1, <2>3, <2>4, <2>6, <2>7, <2>8 DEF m, n, h, b
<1>8. CASE p = "client"
  <2> DEFINE x == FrameHead(n, TRUE)
             y == x \o key
  <2>1. Frame(p, k, key) = y \o b BY <1>8 DEF Frame, Body, b
  <2>2. /\ x \in Seq(Nat) /\ Len(x) = h /\ h \in {2, 4, 10} /\ x[2] = Code(n) + 128
        /\ h > 2 => \A i \in 1 .. h - 2 : x[2 + i] = Big(n, h - 2)[i]
    BY <1>1, HeadShape, TRUE \in BOOLEAN
  <2> HIDE DEF x, h, n
  <2>3. /\ y \in Seq(Nat) /\ Len(y) = h + 4
        /\ \A i \in 1 .. h : y[i] = x[i]
        /\ \A i \in 1 .. 4 : y[h + i] = key[i]
    <3>1. /\ y \in Seq(Nat) /\ Len(y) = Len(x) + Len(key)
          /\ \A i \in 1 .. Len(x) : y[i] = x[i]
          /\ \A i \in 1 .. Len(key) : y[Len(x) + i] = key[i]
      BY <1>4, <2>2, Joined, ZenonT(30)
    <3> QED BY <1>4, <2>2, <3>1
  <2> HIDE DEF y
  <2>4. /\ y \o b \in Seq(Nat) /\ Len(y \o b) = h + 4 + n
        /\ \A i \in 1 .. h + 4 : (y \o b)[i] = y[i]
        /\ \A i \in 1 .. n : (y \o b)[h + 4 + i] = b[i]
    <3>1. /\ y \o b \in Seq(Nat) /\ Len(y \o b) = Len(y) + Len(b)
          /\ \A i \in 1 .. Len(y) : (y \o b)[i] = y[i]
          /\ \A i \in 1 .. Len(b) : (y \o b)[Len(y) + i] = b[i]
      BY <1>6, <2>3, Joined
    <3> QED BY <1>6, <2>3, <3>1
  <2>5. KeyLen(p) = 4 /\ MaskBit(p) = 128 BY <1>8 DEF KeyLen, MaskBit
  <2>6. n \in Nat /\ h \in Nat BY <1>1, <2>2
  <2>7. (y \o b)[2] = Code(n) + MaskBit(p)
    <3>1. 2 \in 1 .. h /\ 2 \in 1 .. h + 4 BY <2>2
    <3> QED BY <2>2, <2>3, <2>4, <2>5, <3>1
  <2>8. h > 2 => \A i \in 1 .. h - 2 : (y \o b)[2 + i] = Big(n, h - 2)[i]
    <3> SUFFICES ASSUME h > 2, NEW i \in 1 .. h - 2 PROVE (y \o b)[2 + i] = Big(n, h - 2)[i]
      OBVIOUS
    <3>1. 2 + i \in 1 .. h /\ 2 + i \in 1 .. h + 4 BY <2>6
    <3> QED BY <2>2, <2>3, <2>4, <3>1
  <2>9. \A i \in 1 .. 4 : (y \o b)[h + i] = key[i]
    <3> SUFFICES ASSUME NEW i \in 1 .. 4 PROVE (y \o b)[h + i] = key[i] OBVIOUS
    <3>1. h + i \in 1 .. h + 4 BY <2>6
    <3> QED BY <2>3, <2>4, <3>1
  <2>10. h + KeyLen(p) + n = h + 4 + n /\ \A i \in 1 .. n : h + KeyLen(p) + i = h + 4 + i BY <2>5
  <2> QED BY <1>1, <1>4, <1>6, <2>1, <2>4, <2>7, <2>8, <2>9, <2>10 DEF m, n, h, b
<1> QED BY <1>7, <1>8 DEF Ends

-----------------------------------------------------------------------------
(***************************************************************************)
(* A read under way.                                                       *)
(***************************************************************************)
Rec(st, nd, gt, mk, ln, ky) ==
    [stage |-> st, need |-> nd, got |-> gt, mask |-> mk, len |-> ln, key |-> ky]

LEMMA ReadingRec == Reading = Rec("head", 2, <<>>, FALSE, 0, <<>>)
BY DEF Reading, Rec

\* What Stage makes of each.
LEMMA StageKey ==
    ASSUME NEW gt, NEW ln
    PROVE  Stage(Rec("key", 4, gt, TRUE, ln, <<>>)) = Rec("body", ln, <<>>, TRUE, ln, gt)
BY DEF Stage, Rec

LEMMA StageLen ==
    ASSUME NEW nd, NEW gt
    PROVE  /\ Stage(Rec("len", nd, gt, TRUE, 0, <<>>)) = Rec("key", 4, <<>>, TRUE, FromBig(gt), <<>>)
           /\ Stage(Rec("len", nd, gt, FALSE, 0, <<>>))
                  = Rec("body", FromBig(gt), <<>>, FALSE, FromBig(gt), <<>>)
<1>1. Stage(Rec("len", nd, gt, TRUE, 0, <<>>)) = Rec("key", 4, <<>>, TRUE, FromBig(gt), <<>>)
  BY DEF Stage, Rec
<1>2. Stage(Rec("len", nd, gt, FALSE, 0, <<>>)) = Rec("body", FromBig(gt), <<>>, FALSE, FromBig(gt), <<>>)
  BY DEF Stage, Rec
<1> QED BY <1>1, <1>2

LEMMA StageHeadShort ==
    ASSUME NEW gt, NEW y \in Nat, gt[2] = y, NEW x \in 0 .. 125, y % 128 = x
    PROVE  /\ y < 128 => Stage(Rec("head", 2, gt, FALSE, 0, <<>>)) = Rec("body", x, <<>>, FALSE, x, <<>>)
           /\ y >= 128 => Stage(Rec("head", 2, gt, FALSE, 0, <<>>)) = Rec("key", 4, <<>>, TRUE, x, <<>>)
<1>0. gt[2] % 128 = x /\ x \notin {126, 127} /\ x < 126 OBVIOUS
<1>1. ASSUME y < 128
      PROVE  Stage(Rec("head", 2, gt, FALSE, 0, <<>>)) = Rec("body", x, <<>>, FALSE, x, <<>>)
  <2>1. (gt[2] >= 128) = FALSE BY <1>1
  <2> QED BY <1>0, <2>1 DEF Stage, Rec
<1>2. ASSUME y >= 128
      PROVE  Stage(Rec("head", 2, gt, FALSE, 0, <<>>)) = Rec("key", 4, <<>>, TRUE, x, <<>>)
  <2>1. (gt[2] >= 128) = TRUE BY <1>2
  <2> QED BY <1>0, <2>1 DEF Stage, Rec
<1> QED BY <1>1, <1>2

LEMMA StageHeadLong ==
    ASSUME NEW gt, gt[2] \in Nat
    PROVE  LET s == Stage(Rec("head", 2, gt, FALSE, 0, <<>>))
           IN  /\ gt[2] % 128 = 126 /\ gt[2] < 128 => s = Rec("len", 2, <<>>, FALSE, 0, <<>>)
               /\ gt[2] % 128 = 127 /\ gt[2] < 128 => s = Rec("len", 8, <<>>, FALSE, 0, <<>>)
               /\ gt[2] % 128 = 126 /\ gt[2] >= 128 => s = Rec("len", 2, <<>>, TRUE, 0, <<>>)
               /\ gt[2] % 128 = 127 /\ gt[2] >= 128 => s = Rec("len", 8, <<>>, TRUE, 0, <<>>)
<1>1. ASSUME gt[2] % 128 = 126, gt[2] < 128
      PROVE  Stage(Rec("head", 2, gt, FALSE, 0, <<>>)) = Rec("len", 2, <<>>, FALSE, 0, <<>>)
  <2>1. (gt[2] >= 128) = FALSE BY <1>1
  <2>2. /\ gt[2] % 128 \in {126, 127} /\ ~(gt[2] % 128 < 126)
        /\ (IF gt[2] % 128 = 126 THEN 2 ELSE 8) = 2
    BY <1>1
  <2> HIDE <1>1
  <2> QED BY <2>1, <2>2 DEF Stage, Rec
<1>2. ASSUME gt[2] % 128 = 127, gt[2] < 128
      PROVE  Stage(Rec("head", 2, gt, FALSE, 0, <<>>)) = Rec("len", 8, <<>>, FALSE, 0, <<>>)
  <2>1. (gt[2] >= 128) = FALSE BY <1>2
  <2>2. /\ gt[2] % 128 \in {126, 127} /\ ~(gt[2] % 128 < 126)
        /\ (IF gt[2] % 128 = 126 THEN 2 ELSE 8) = 8
    BY <1>2
  <2> HIDE <1>2
  <2> QED BY <2>1, <2>2 DEF Stage, Rec
<1>3. ASSUME gt[2] % 128 = 126, gt[2] >= 128
      PROVE  Stage(Rec("head", 2, gt, FALSE, 0, <<>>)) = Rec("len", 2, <<>>, TRUE, 0, <<>>)
  <2>1. (gt[2] >= 128) = TRUE BY <1>3
  <2>2. /\ gt[2] % 128 \in {126, 127} /\ ~(gt[2] % 128 < 126)
        /\ (IF gt[2] % 128 = 126 THEN 2 ELSE 8) = 2
    BY <1>3
  <2> HIDE <1>3
  <2> QED BY <2>1, <2>2 DEF Stage, Rec
<1>4. ASSUME gt[2] % 128 = 127, gt[2] >= 128
      PROVE  Stage(Rec("head", 2, gt, FALSE, 0, <<>>)) = Rec("len", 8, <<>>, TRUE, 0, <<>>)
  <2>1. (gt[2] >= 128) = TRUE BY <1>4
  <2>2. /\ gt[2] % 128 \in {126, 127} /\ ~(gt[2] % 128 < 126)
        /\ (IF gt[2] % 128 = 126 THEN 2 ELSE 8) = 8
    BY <1>4
  <2> HIDE <1>4
  <2> QED BY <2>1, <2>2 DEF Stage, Rec
<1> QED BY <1>1, <1>2, <1>3, <1>4

-----------------------------------------------------------------------------
(***************************************************************************)
(* The handshake.  The state before it is over, at each end, and what is   *)
(* on the way meanwhile.                                                   *)
(***************************************************************************)
States == {"idle", "open", "wait", "up", "failed"}

Shape ==
    /\ pc \in [Ends -> States] /\ up \in BOOLEAN
    /\ wire \in [Ends -> Seq(Nat)] /\ rb \in [Ends -> Seq(Nat)]
    /\ DOMAIN rd = Ends /\ DOMAIN returned = Ends /\ taken \in [Ends -> Nat]
    /\ written \in [Ends -> Nat] /\ \A e \in Ends : written[e] <= Len(Messages[e])

\* An end that has not finished its handshake has read and written nothing.
Fresh ==
    \A e \in Ends : pc[e] \in {"idle", "open", "wait"} =>
        /\ rb[e] = <<>> /\ rd[e] = Reading /\ returned[e] = <<>>
        /\ taken[e] = 0 /\ written[e] = 0

\* What is left of a request that the server has cut: it goes for the head of a
\* frame, whose body never comes, since the client waits.
Leftover(r, b, w) ==
    \/ /\ r = Rec("head", 2, r.got, FALSE, 0, <<>>) /\ r.got \in Seq(Nat) /\ Len(r.got) <= 1
       /\ Len(r.got) + Len(b) + Len(w) <= 3
       /\ \A i \in 1 .. Len(b) : Len(r.got) + i = 2 => b[i] = Crlf
       /\ \A i \in 1 .. Len(w) : Len(r.got) + Len(b) + i = 2 => w[i] = Crlf
    \/ /\ r = Rec("body", Crlf, r.got, FALSE, Crlf, <<>>)
       /\ r.got \in Seq(Nat) /\ Len(r.got) + Len(b) + Len(w) <= 1

ServerWaits ==
    pc["server"] \in {"idle", "wait"} =>
        wire["server"] = <<>> /\ wire["client"] \in {<<>>, Request} /\ pc["client"] # "up"

ClientWaits ==
    pc["client"] \in {"idle", "open", "wait"} =>
        /\ wire["server"] \in {<<>>, Response, ErrorPage}
        /\ written["server"] = 0 /\ returned["server"] = <<>>
        /\ pc["server"] = "up" =>
               pc["client"] = "wait" /\ Leftover(rd["server"], rb["server"], wire["client"])

Opening ==
    /\ pc["client"] = "idle" <=> pc["server"] = "idle"
    /\ pc["server"] # "open"
    /\ pc["client"] \in {"idle", "open"} => wire["client"] = <<>>

\* A read under way has what it needs for its stage, and not yet all of it.
Formed(r) ==
    /\ r.got \in Seq(Nat) /\ r.need \in Nat /\ Len(r.got) < r.need
    /\ \/ r = Rec("head", 2, r.got, FALSE, 0, <<>>)
       \/ \/ r = Rec("len", r.need, r.got, TRUE, 0, <<>>)
          \/ r = Rec("len", r.need, r.got, FALSE, 0, <<>>)
       \/ r = Rec("key", 4, r.got, TRUE, r.len, <<>>) /\ r.len \in Nat
       \/ \/ r = Rec("body", r.need, r.got, TRUE, r.need, r.key)
          \/ r = Rec("body", r.need, r.got, FALSE, r.need, r.key)
    /\ r.stage = "len" => r.need \in {2, 8}

HInv == Shape /\ Fresh /\ Opening /\ ServerWaits /\ ClientWaits /\ SwallowsNothing

-----------------------------------------------------------------------------
(***************************************************************************)
(* The handshake swallows nothing.                                         *)
(***************************************************************************)
\* A server that finds the key has read it with the end of its line, which
\* leaves it three cells of the request at most.
LEMMA KeyNeedsItsLine ==
    ASSUME NEW k \in 1 .. 7, HttpGetHeader(SubSeq(Request, 1, k), SecKey) # NotFound
    PROVE  k >= 4
<1> SUFFICES ASSUME k <= 3 PROVE FALSE OBVIOUS
<1> DEFINE s == SubSeq(Request, 1, k)
<1>1. Len(s) = k /\ s[1] = 71 /\ (k >= 2 => s[2] = 75) /\ (k >= 3 => s[3] = 7)
  BY DEF Request, SecKey
<1> HIDE DEF s
<1>2. \A i \in 1 .. k : s[i] # Crlf
  <2> SUFFICES ASSUME NEW i \in 1 .. k PROVE s[i] # Crlf OBVIOUS
  <2>1. i = 1 \/ i = 2 \/ i = 3 OBVIOUS
  <2> QED BY <1>1, <2>1 DEF Crlf
<1> DEFINE at == {i \in 1 .. Len(s) : s[i] = SecKey}
           p == Find(s, SecKey, 1)
<1>3. p \in Nat
  <2>1. CASE at = {} BY <2>1 DEF Find
  <2>2. CASE at # {}
    <3>1. at = {2} BY <1>1, <2>2 DEF SecKey
    <3>2. \A j \in {2} : \A i \in {2} : j <= i OBVIOUS
    <3>3. Min({2}) = 2 BY <3>2 DEF Min
    <3>4. p = IF at = {} THEN 0 ELSE Min(at) BY Zenon DEF Find
    <3>5. p = 2 BY <2>2, <3>1, <3>3, <3>4, Zenon
    <3> QED BY <3>5
  <2> QED BY <2>1, <2>2
<1> HIDE DEF p
<1>4. Find(s, Crlf, p) = 0 \/ p = 0
  <2> SUFFICES ASSUME p # 0 PROVE Find(s, Crlf, p) = 0 OBVIOUS
  <2>1. {i \in p .. Len(s) : s[i] = Crlf} = {}
    <3> SUFFICES ASSUME NEW i \in p .. Len(s) PROVE s[i] # Crlf OBVIOUS
    <3>1. i \in 1 .. k BY <1>1, <1>3
    <3> QED BY <1>2, <3>1
  <2> QED BY <2>1 DEF Find
<1>5. HttpGetHeader(s, SecKey) = NotFound BY <1>4 DEF HttpGetHeader, p
<1> QED BY <1>5 DEF s

\* The words of the handshake.
LEMMA Words ==
    /\ Request \in Seq(Nat) /\ Len(Request) = 7
    /\ Response \in Seq(Nat) /\ Len(Response) = 5
    /\ ErrorPage \in Seq(Nat) /\ Len(ErrorPage) = 4
    /\ <<>> \in Seq(Nat) /\ Len(<<>>) = 0
    /\ Request[6] = Crlf /\ Request[7] = Crlf
BY DEF Request, Response, ErrorPage, SecKey, SecAccept, Crlf

LEMMA Concats ==
    /\ <<>> \o Request = Request /\ <<>> \o Response = Response /\ <<>> \o ErrorPage = ErrorPage
    /\ \A s \in Seq(Nat) : s \o <<>> = s
BY Words, ConcatEmptySeq

LEMMA HandshakeInit == ASSUME Init PROVE HInv
<1>1. Shape
  <2>1. \A e \in Ends : Messages[e] \in Seq(Seq({0, 1})) BY MessagesAssumption
  <2>2. \A e \in Ends : 0 <= Len(Messages[e]) BY <2>1
  <2>3. None \in [Ends -> Seq(Nat)] BY Words DEF None
  <2>4. wire \in [Ends -> Seq(Nat)] /\ rb \in [Ends -> Seq(Nat)] /\ up \in BOOLEAN
    BY <2>3 DEF Init
  <2>5. /\ pc \in [Ends -> States] /\ DOMAIN rd = Ends /\ DOMAIN returned = Ends
        /\ taken \in [Ends -> Nat] /\ written \in [Ends -> Nat]
    BY DEF Init, States, None
  <2>6. \A e \in Ends : written[e] <= Len(Messages[e]) BY <2>2 DEF Init
  <2> QED BY <2>4, <2>5, <2>6 DEF Shape
<1>2. Fresh BY DEF Init, Fresh, None
<1>3. Opening BY TwoEnds DEF Init, Opening, None
<1>4. ServerWaits BY TwoEnds DEF Init, ServerWaits, None
<1>5. ClientWaits BY TwoEnds DEF Init, ClientWaits, None
<1>6. SwallowsNothing BY Words, TwoEnds DEF Init, SwallowsNothing, Handshake
<1> QED BY <1>1, <1>2, <1>3, <1>4, <1>5, <1>6 DEF HInv

\* Steps that leave everything alone but the listener.
LEMMA HandshakeIdle ==
    ASSUME HInv, UNCHANGED <<pc, up, wire, rb, rd, written, returned, taken>>
    PROVE  HInv'
<1>1. Shape' BY DEF HInv, Shape
<1>2. Fresh' BY DEF HInv, Fresh
<1>3. Opening' BY DEF HInv, Opening
<1>4. ServerWaits' BY DEF HInv, ServerWaits
<1>5. ClientWaits' BY DEF HInv, ClientWaits
<1>6. SwallowsNothing' BY DEF HInv, SwallowsNothing
<1> QED BY <1>1, <1>2, <1>3, <1>4, <1>5, <1>6 DEF HInv

LEMMA HandshakeNewConnection == ASSUME HInv, NewConnection PROVE HInv'
<1> USE TwoEnds DEF HInv, NewConnection
<1>0. pc["server"] = "idle" BY DEF Opening
<1>1. Shape' BY DEF Shape, States
<1>2. Fresh' BY <1>0 DEF Fresh, Shape, Ends
<1>3. Opening' BY <1>0 DEF Opening, Shape
<1>4. ServerWaits' BY <1>0 DEF Opening, ServerWaits, Shape
<1>5. ClientWaits' BY <1>0 DEF ClientWaits, Shape
<1>6. SwallowsNothing' BY DEF SwallowsNothing
<1> QED BY <1>1, <1>2, <1>3, <1>4, <1>5, <1>6

\* What is left over is left over still when the end of it is lost.
LEMMA LeftoverCut ==
    ASSUME NEW r, NEW b \in Seq(Nat), NEW w \in Seq(Nat), Leftover(r, b, w)
    PROVE  Leftover(r, b, <<>>)
<1>1. Len(b) \in Nat /\ Len(w) \in Nat /\ Len(<<>>) = 0 BY Words
<1>2. CASE /\ r = Rec("head", 2, r.got, FALSE, 0, <<>>) /\ r.got \in Seq(Nat) /\ Len(r.got) <= 1
           /\ Len(r.got) + Len(b) + Len(w) <= 3
           /\ \A i \in 1 .. Len(b) : Len(r.got) + i = 2 => b[i] = Crlf
           /\ \A i \in 1 .. Len(w) : Len(r.got) + Len(b) + i = 2 => w[i] = Crlf
  <2>1. Len(r.got) \in Nat BY <1>2
  <2>2. Len(r.got) + Len(b) + 0 <= 3 BY <1>1, <1>2, <2>1
  <2>3. \A i \in 1 .. 0 : Len(r.got) + Len(b) + i = 2 => <<>>[i] = Crlf OBVIOUS
  <2> QED BY <1>1, <1>2, <2>2, <2>3 DEF Leftover
<1>3. CASE /\ r = Rec("body", Crlf, r.got, FALSE, Crlf, <<>>)
           /\ r.got \in Seq(Nat) /\ Len(r.got) + Len(b) + Len(w) <= 1
  <2>1. Len(r.got) \in Nat BY <1>3
  <2>2. Len(r.got) + Len(b) + 0 <= 1 BY <1>1, <1>3, <2>1
  <2> QED BY <1>1, <1>3, <2>2 DEF Leftover
<1> QED BY <1>2, <1>3 DEF Leftover

LEMMA HandshakeBreak == ASSUME HInv, Break PROVE HInv'
<1> USE TwoEnds DEF HInv, Break, None
<1>1. Shape' BY Words DEF Shape
<1>2. Fresh' BY DEF Fresh
<1>3. Opening' BY DEF Opening
<1>4. ServerWaits' BY DEF ServerWaits
<1>5. ClientWaits'
  <2> SUFFICES ASSUME pc["client"] \in {"idle", "open", "wait"}, pc["server"] = "up"
               PROVE  pc["client"] = "wait" /\ Leftover(rd["server"], rb["server"], <<>>)
    BY DEF ClientWaits
  <2>1. pc["client"] = "wait" /\ Leftover(rd["server"], rb["server"], wire["client"]) BY DEF ClientWaits
  <2> QED BY <2>1, LeftoverCut DEF Shape
<1>6. SwallowsNothing' BY DEF SwallowsNothing
<1> QED BY <1>1, <1>2, <1>3, <1>4, <1>5, <1>6

LEMMA HandshakeConnectWrite == ASSUME HInv, ConnectWrite PROVE HInv'
<1> USE TwoEnds DEF HInv, ConnectWrite, Sends
<1>0. wire["client"] = <<>> /\ pc["server"] # "up"
  BY DEF Opening, ClientWaits
<1>1. wire' = [wire EXCEPT !["client"] = Request]
  BY <1>0, Concats
<1>2. Shape' BY <1>1, Words DEF Shape, States
<1>3. Fresh' BY DEF Fresh, Shape, Ends
<1>4. Opening' BY DEF Opening, Shape
<1>5. ServerWaits' BY <1>1 DEF ServerWaits, Shape
<1>6. ClientWaits' BY <1>0, <1>1 DEF ClientWaits, Shape
<1>7. SwallowsNothing' BY DEF SwallowsNothing
<1> QED BY <1>2, <1>3, <1>4, <1>5, <1>6, <1>7

\* The server reads the request, or its first part.
LEMMA HandshakeAccept == ASSUME HInv, AsyncAccept PROVE HInv'
<1> USE TwoEnds DEF HInv
<1>0. PICK k \in 1 .. Len(wire["client"]) :
         /\ taken' = [taken EXCEPT !["server"] = k]
         /\ LET rest == [wire EXCEPT !["client"] = SubSeq(@, k + 1, Len(@))]
            IN  IF HttpGetHeader(SubSeq(wire["client"], 1, k), SecKey) = NotFound
                THEN Fail("server") /\ wire' = [rest EXCEPT !["server"] = @ \o ErrorPage]
                ELSE /\ pc' = [pc EXCEPT !["server"] = "up"]
                     /\ wire' = [rest EXCEPT !["server"] = @ \o Response]
                     /\ UNCHANGED up
  BY DEF AsyncAccept, HandshakeRead
<1>1. pc["server"] = "wait" /\ UNCHANGED <<rb, rd, written, returned>>
  BY DEF AsyncAccept, HandshakeRead
<1>2. /\ wire["server"] = <<>> /\ wire["client"] = Request /\ pc["client"] \in {"wait", "failed"}
      /\ k \in 1 .. 7
  <2>1. wire["server"] = <<>> /\ wire["client"] \in {<<>>, Request} /\ pc["client"] # "up"
    BY <1>1 DEF ServerWaits
  <2>2. wire["client"] # <<>> BY <1>0, Words
  <2>3. pc["client"] \notin {"idle", "open"} BY <2>2 DEF Opening
  <2> QED BY <1>0, <2>1, <2>2, <2>3, Words, ZenonT(30) DEF Shape, States
<1> DEFINE w == SubSeq(Request, k + 1, 7)
<1>3. w \in Seq(Nat) /\ Len(w) = 7 - k /\ \A i \in 1 .. 7 - k : w[i] = Request[k + i]
  <2>1. k \in Nat /\ 7 \in Nat /\ k <= 7 /\ 7 <= Len(Request) BY <1>2, Words
  <2> QED BY <2>1, Words, Cut, ZenonT(30)
<1>4. rb["server"] = <<>> /\ rd["server"] = Reading /\ returned["server"] = <<>> /\ written["server"] = 0
  BY <1>1 DEF Fresh
<1> HIDE DEF w
<1>5. /\ wire' \in [Ends -> Seq(Nat)] /\ wire'["client"] = w
      /\ wire'["server"] \in {Response, ErrorPage}
      /\ taken' \in [Ends -> Nat] /\ taken'["server"] = k /\ taken'["client"] = taken["client"]
  <2>1. taken' = [taken EXCEPT !["server"] = k] /\ k \in Nat /\ SubSeq(wire["client"], k + 1, Len(wire["client"])) = w
    BY <1>0, <1>2, Words DEF w
  <2>2. \/ wire' = [[wire EXCEPT !["client"] = w] EXCEPT !["server"] = ErrorPage]
        \/ wire' = [[wire EXCEPT !["client"] = w] EXCEPT !["server"] = Response]
    BY <1>0, <1>2, <2>1, Concats DEF Shape
  <2>3. wire \in [Ends -> Seq(Nat)] /\ taken \in [Ends -> Nat] BY DEF Shape
  <2>4. /\ wire' \in [Ends -> Seq(Nat)] /\ wire'["client"] = w
        /\ wire'["server"] \in {Response, ErrorPage}
    BY <1>3, <2>2, <2>3, Words, ZenonT(30)
  <2>5. taken' \in [Ends -> Nat] /\ taken'["server"] = k /\ taken'["client"] = taken["client"]
    BY <2>1, <2>3
  <2> QED BY <2>4, <2>5
<1>6. \/ pc' = [pc EXCEPT !["server"] = "failed"] /\ up' = FALSE
      \/ pc' = [pc EXCEPT !["server"] = "up"] /\ up' = up /\ k >= 4
  <2>1. CASE HttpGetHeader(SubSeq(Request, 1, k), SecKey) = NotFound BY <1>0, <1>2, <2>1 DEF Fail
  <2>2. CASE HttpGetHeader(SubSeq(Request, 1, k), SecKey) # NotFound
    BY <1>0, <1>2, <2>2, KeyNeedsItsLine
  <2> QED BY <2>1, <2>2
<1>7. pc' \in [Ends -> States] /\ pc'["client"] = pc["client"] /\ pc'["server"] \in {"up", "failed"}
      /\ up' \in BOOLEAN
  BY <1>6, ZenonT(30) DEF Shape, States
<1>8. Shape' BY <1>1, <1>5, <1>7 DEF Shape
<1>9. Fresh' BY <1>1, <1>2, <1>5, <1>7 DEF Fresh, Ends
<1>10. Opening' BY <1>2, <1>7 DEF Opening
<1>11. ServerWaits' BY <1>7 DEF ServerWaits
<1>12. ClientWaits'
  <2>1. pc'["server"] = "up" => k >= 4
    <3>1. pc \in [Ends -> States] BY DEF Shape
    <3> QED BY <1>6, <3>1
  <2>2. ASSUME k >= 4 PROVE Leftover(Reading, <<>>, w)
    <3>1. Reading = Rec("head", 2, Reading.got, FALSE, 0, <<>>) /\ Reading.got = <<>>
      BY ReadingRec DEF Rec
    <3>2. \A i \in 1 .. Len(w) : 0 + 0 + i = 2 => w[i] = Crlf
      <4> SUFFICES ASSUME 2 \in 1 .. 7 - k PROVE w[2] = Crlf BY <1>3
      <4>1. k = 4 \/ k = 5 BY <1>2, <2>2
      <4> QED BY <1>3, <4>1, Words
    <3>3. 0 + 0 + Len(w) <= 3 BY <1>2, <1>3, <2>2
    <3>4. \A i \in 1 .. 0 : 0 + i = 2 => <<>>[i] = Crlf OBVIOUS
    <3>5. Reading.got \in Seq(Nat) /\ Len(Reading.got) = 0 /\ Len(<<>>) = 0 BY <3>1, Words
    <3>6. /\ Len(Reading.got) <= 1 /\ Len(Reading.got) + Len(<<>>) + Len(w) <= 3
          /\ \A i \in 1 .. Len(<<>>) : Len(Reading.got) + i = 2 => <<>>[i] = Crlf
          /\ \A i \in 1 .. Len(w) : Len(Reading.got) + Len(<<>>) + i = 2 => w[i] = Crlf
      BY <3>2, <3>3, <3>4, <3>5
    <3> QED BY <3>1, <3>5, <3>6, Zenon DEF Leftover
  <2>3. pc["client"] # "failed" => pc'["client"] = "wait" BY <1>2, <1>7
  <2> QED BY <1>1, <1>2, <1>4, <1>5, <1>7, <2>1, <2>2 DEF ClientWaits
<1>13. SwallowsNothing'
  <2>1. taken'["server"] <= 7 BY <1>2, <1>5
  <2>2. taken'["client"] <= Len(Handshake("server")) BY <1>5 DEF SwallowsNothing
  <2>3. Handshake("client") = Request BY DEF Handshake
  <2> QED BY <2>1, <2>2, <2>3, Words DEF SwallowsNothing, Ends
<1> QED BY <1>8, <1>9, <1>10, <1>11, <1>12, <1>13

\* The client reads the answer, or its first part.
LEMMA HandshakeConnectRead == ASSUME HInv, ConnectRead PROVE HInv'
<1> USE TwoEnds DEF HInv
<1>0. PICK k \in 1 .. Len(wire["server"]) :
         /\ taken' = [taken EXCEPT !["client"] = k]
         /\ LET rest == [wire EXCEPT !["server"] = SubSeq(@, k + 1, Len(@))]
            IN  IF HttpGetHeader(SubSeq(wire["server"], 1, k), SecAccept) = NotFound
                THEN Fail("client") /\ wire' = [rest EXCEPT !["client"] = @ \o <<>>]
                ELSE /\ pc' = [pc EXCEPT !["client"] = "up"]
                     /\ wire' = [rest EXCEPT !["client"] = @ \o <<>>]
                     /\ UNCHANGED up
  BY DEF ConnectRead, HandshakeRead
<1>1. pc["client"] = "wait" /\ UNCHANGED <<rb, rd, written, returned>>
  BY DEF ConnectRead, HandshakeRead
<1>2. wire["server"] \in {Response, ErrorPage} /\ k \in 1 .. 5 /\ pc["server"] \in {"up", "failed"}
  <2>1. wire["server"] \in {<<>>, Response, ErrorPage} BY <1>1 DEF ClientWaits
  <2>2. wire["server"] # <<>> BY <1>0, Words
  <2>3. pc["server"] \notin {"idle", "wait", "open"} BY <2>2 DEF ServerWaits, Opening
  <2>4. Len(wire["server"]) \in {4, 5} BY <2>1, <2>2, Words
  <2>5. k \in 1 .. 5
    <3>1. PICK m \in {4, 5} : m = Len(wire["server"]) BY <2>4
    <3>2. k \in 1 .. m BY <3>1
    <3> HIDE <1>0, TwoEnds
    <3> QED BY <3>2
  <2>6. pc["server"] \in {"up", "failed"} BY <2>3 DEF Shape, States
  <2> QED BY <2>1, <2>2, <2>5, <2>6
<1> DEFINE w == SubSeq(wire["server"], k + 1, Len(wire["server"]))
<1>3. w \in Seq(Nat)
  <2>1. wire["server"] \in Seq(Nat) /\ Len(wire["server"]) \in Nat BY DEF Shape
  <2>2. k \in Nat /\ k <= Len(wire["server"]) BY <1>0, <2>1
  <2> QED BY <2>1, <2>2, Cut
<1> HIDE DEF w
<1>4. /\ wire' \in [Ends -> Seq(Nat)] /\ wire'["client"] = wire["client"]
      /\ taken' \in [Ends -> Nat] /\ taken'["client"] = k /\ taken'["server"] = taken["server"]
  <2>1. taken' = [taken EXCEPT !["client"] = k] /\ k \in Nat BY <1>0, <1>2
  <2>2. wire' = [[wire EXCEPT !["server"] = w] EXCEPT !["client"] = wire["client"]]
    BY <1>0, Concats DEF Shape, w
  <2> QED BY <1>3, <2>1, <2>2 DEF Shape
<1>5. \/ pc' = [pc EXCEPT !["client"] = "failed"] /\ up' = FALSE
      \/ pc' = [pc EXCEPT !["client"] = "up"] /\ up' = up
  BY <1>0 DEF Fail
<1>6. /\ pc' \in [Ends -> States] /\ pc'["server"] = pc["server"] /\ pc'["client"] \in {"up", "failed"}
      /\ up' \in BOOLEAN
  BY <1>5, ZenonT(30) DEF Shape, States
<1>7. Shape' BY <1>1, <1>4, <1>6 DEF Shape
<1>8. Fresh' BY <1>1, <1>2, <1>4, <1>6 DEF Fresh, Ends
<1>9. Opening' BY <1>2, <1>6 DEF Opening
<1>10. ServerWaits' BY <1>2, <1>6 DEF ServerWaits
<1>11. ClientWaits' BY <1>6 DEF ClientWaits
<1>12. SwallowsNothing'
  <2>1. taken'["client"] <= 5 BY <1>2, <1>4
  <2>2. taken'["server"] <= Len(Handshake("client")) BY <1>4 DEF SwallowsNothing
  <2>3. Handshake("server") = Response BY DEF Handshake
  <2> QED BY <2>1, <2>2, <2>3, Words DEF SwallowsNothing, Ends
<1> QED BY <1>7, <1>8, <1>9, <1>10, <1>11, <1>12

\* The frame an end writes next.
LEMMA NextFrameIs ==
    ASSUME Shape, NEW e \in Ends, NEW key \in MaskKeys, written[e] < Len(Messages[e])
    PROVE  /\ written[e] + 1 \in 1 .. Len(Messages[e])
           /\ NextFrame(e, key) = Frame(e, written[e] + 1, key)
           /\ NextFrame(e, key) \in Seq(Nat)
<1>1. written[e] \in Nat /\ Len(Messages[e]) \in Nat BY MessagesAssumption DEF Shape
<1>2. written[e] + 1 \in 1 .. Len(Messages[e]) BY <1>1
<1>3. NextFrame(e, key) = Frame(e, written[e] + 1, key) BY DEF NextFrame, Frame, Message
<1>4. Frame(e, written[e] + 1, key) \in Seq(Nat) BY <1>2, FrameShape
<1> QED BY <1>2, <1>3, <1>4

LEMMA HandshakeWrite == ASSUME HInv, NEW e \in Ends, AsyncWrite(e) PROVE HInv'
<1> USE TwoEnds DEF HInv
<1>0. /\ pc[e] = "up" /\ (e = "server" => returned[e] # <<>>) /\ written[e] < Len(Messages[e])
      /\ written' = [written EXCEPT ![e] = @ + 1] /\ UNCHANGED <<pc, up, rb, rd, returned, taken>>
  BY DEF AsyncWrite, MayWrite
<1>1. PICK key \in MaskKeys : wire' = [wire EXCEPT ![e] = @ \o NextFrame(e, key)]
  BY DEF AsyncWrite, Sends
<1>2. NextFrame(e, key) \in Seq(Nat) /\ written[e] + 1 <= Len(Messages[e])
  <2>1. Len(Messages[e]) \in Nat BY MessagesAssumption
  <2> QED BY <1>0, <2>1, NextFrameIs
<1>3. pc["server"] \in {"up", "failed"} /\ pc["client"] \in {"up", "failed"}
  <2>1. CASE e = "client" BY <1>0, <2>1 DEF ServerWaits, Opening, Shape, States
  <2>2. CASE e = "server" BY <1>0, <2>2 DEF ClientWaits, Opening, Shape, States
  <2> QED BY <2>1, <2>2 DEF Ends
<1>4. Shape'
  <2>1. wire[e] \o NextFrame(e, key) \in Seq(Nat) BY <1>2, Joined DEF Shape
  <2>2. wire' \in [Ends -> Seq(Nat)] BY <1>1, <2>1 DEF Shape
  <2>3. /\ written \in [Ends -> Nat] /\ \A f \in Ends : written[f] <= Len(Messages[f]) BY DEF Shape
  <2>4. written' \in [Ends -> Nat] BY <1>0, <2>3
  <2>5. \A f \in Ends : written'[f] <= Len(Messages[f]) BY <1>0, <1>2, <2>3
  <2> QED BY <1>0, <2>2, <2>4, <2>5 DEF Shape
<1>5. Fresh' BY <1>0, <1>3 DEF Fresh, Ends
<1>6. Opening' BY <1>0, <1>3 DEF Opening
<1>7. ServerWaits' BY <1>0, <1>3 DEF ServerWaits
<1>8. ClientWaits' BY <1>0, <1>3 DEF ClientWaits
<1>9. SwallowsNothing' BY <1>0 DEF SwallowsNothing
<1> QED BY <1>4, <1>5, <1>6, <1>7, <1>8, <1>9

\* What is left over moves from the socket into the buffer.
LEMMA LeftoverFill ==
    ASSUME NEW r, NEW w \in Seq(Nat), Leftover(r, <<>>, w), NEW k \in 0 .. Len(w)
    PROVE  Leftover(r, SubSeq(w, 1, k), SubSeq(w, k + 1, Len(w)))
<1> DEFINE b == SubSeq(w, 1, k)
           v == SubSeq(w, k + 1, Len(w))
<1>1. Len(w) \in Nat /\ k \in Nat /\ k <= Len(w) OBVIOUS
<1>2. b \in Seq(Nat) /\ Len(b) = k /\ \A i \in 1 .. k : b[i] = w[i]
  BY <1>1, CutFirst
<1>3. v \in Seq(Nat) /\ Len(v) = Len(w) - k /\ \A i \in 1 .. Len(w) - k : v[i] = w[k + i]
  BY <1>1, Cut
<1> HIDE DEF b, v
<1>4. PICK m \in Nat : m = Len(w) BY <1>1
<1>5. CASE /\ r = Rec("head", 2, r.got, FALSE, 0, <<>>) /\ r.got \in Seq(Nat) /\ Len(r.got) <= 1
           /\ Len(r.got) + 0 + Len(w) <= 3
           /\ \A i \in 1 .. Len(w) : Len(r.got) + 0 + i = 2 => w[i] = Crlf
  <2>1. PICK g \in Nat : g = Len(r.got) BY <1>5
  <2>2. g + k + (m - k) <= 3 BY <1>1, <1>4, <1>5, <2>1
  <2>3. \A i \in 1 .. k : g + i = 2 => b[i] = Crlf
    <3> SUFFICES ASSUME NEW i \in 1 .. k, g + i = 2 PROVE w[i] = Crlf BY <1>2
    <3>1. i \in 1 .. m /\ g + 0 + i = 2 BY <1>1, <1>4
    <3> QED BY <1>4, <1>5, <2>1, <3>1
  <2>4. \A i \in 1 .. m - k : g + k + i = 2 => v[i] = Crlf
    <3> SUFFICES ASSUME NEW i \in 1 .. m - k, g + k + i = 2 PROVE w[k + i] = Crlf BY <1>3, <1>4
    <3>1. k + i \in 1 .. m /\ g + 0 + (k + i) = 2 BY <1>1, <1>4
    <3> QED BY <1>4, <1>5, <2>1, <3>1
  <2>5. /\ Len(r.got) + Len(b) + Len(v) <= 3
        /\ \A i \in 1 .. Len(b) : Len(r.got) + i = 2 => b[i] = Crlf
        /\ \A i \in 1 .. Len(v) : Len(r.got) + Len(b) + i = 2 => v[i] = Crlf
    BY <1>2, <1>3, <1>4, <2>1, <2>2, <2>3, <2>4
  <2>6. Leftover(r, b, v) BY <1>5, <2>5 DEF Leftover
  <2> QED BY <2>6 DEF b, v
<1>6. CASE /\ r = Rec("body", Crlf, r.got, FALSE, Crlf, <<>>)
           /\ r.got \in Seq(Nat) /\ Len(r.got) + 0 + Len(w) <= 1
  <2>1. PICK g \in Nat : g = Len(r.got) BY <1>6
  <2>2. g + k + (m - k) <= 1 BY <1>1, <1>4, <1>6, <2>1
  <2> QED BY <1>2, <1>3, <1>4, <1>6, <2>1, <2>2 DEF Leftover, b, v
<1> QED BY <1>5, <1>6, Words DEF Leftover

LEMMA HandshakeFill == ASSUME HInv, NEW e \in Ends, Fill(e) PROVE HInv'
<1> USE TwoEnds DEF HInv
<1>0. pc[e] = "up" /\ rb[e] = <<>> /\ UNCHANGED <<pc, up, rd, written, returned, taken>>
  BY DEF Fill
<1>1. PICK k \in 1 .. Len(wire[Peer(e)]) :
         /\ rb' = [rb EXCEPT ![e] = SubSeq(wire[Peer(e)], 1, k)]
         /\ wire' = [wire EXCEPT ![Peer(e)] = SubSeq(@, k + 1, Len(@))]
  BY DEF Fill
<1>2. wire[Peer(e)] \in Seq(Nat) /\ Len(wire[Peer(e)]) \in Nat /\ k \in 0 .. Len(wire[Peer(e)])
      /\ k \in Nat /\ k <= Len(wire[Peer(e)])
  BY DEF Shape
<1>3. SubSeq(wire[Peer(e)], 1, k) \in Seq(Nat) /\ SubSeq(wire[Peer(e)], k + 1, Len(wire[Peer(e)])) \in Seq(Nat)
  BY <1>2, Cut, CutFirst
<1>4. Shape' BY <1>0, <1>1, <1>3 DEF Shape
<1>5. Fresh' BY <1>0, <1>1 DEF Fresh, Shape
<1>6. CASE e = "client"
  <2>1. pc["server"] \in {"up", "failed"} BY <1>0, <1>6 DEF ServerWaits, Opening, Shape, States
  <2> QED BY <1>0, <1>4, <1>5, <1>6, <2>1 DEF Opening, ServerWaits, ClientWaits, SwallowsNothing
<1>7. CASE e = "server"
  <2>1. ServerWaits' /\ SwallowsNothing' BY <1>0, <1>7 DEF ServerWaits, SwallowsNothing
  <2>2. ~(pc["client"] \in {"idle", "open"}) BY <1>0, <1>7 DEF ClientWaits
  <2>3. Opening' BY <1>0, <2>2 DEF Opening
  <2>4. /\ rb'["server"] = SubSeq(wire["client"], 1, k) /\ wire'["server"] = wire["server"]
        /\ wire'["client"] = SubSeq(wire["client"], k + 1, Len(wire["client"]))
    BY <1>1, <1>7 DEF Shape
  <2>5. ClientWaits'
    <3>1. CASE pc["client"] = "wait"
      <4>1. Leftover(rd["server"], <<>>, wire["client"]) BY <1>0, <1>7, <3>1 DEF ClientWaits
      <4>2. Leftover(rd["server"], rb'["server"], wire'["client"])
        BY <1>2, <1>7, <2>4, <4>1, LeftoverFill
      <4> QED BY <1>0, <2>4, <3>1, <4>2 DEF ClientWaits
    <3>2. CASE pc["client"] # "wait" BY <1>0, <2>2, <3>2 DEF ClientWaits
    <3> QED BY <3>1, <3>2
  <2> QED BY <1>4, <1>5, <2>1, <2>3, <2>5
<1> QED BY <1>6, <1>7 DEF Ends

\* What Take computes from the reading r and the buffer b.
TakeLen(r, b) == IF Len(b) < r.need - Len(r.got) THEN Len(b) ELSE r.need - Len(r.got)
TakeGot(r, b) == [r EXCEPT !.got = @ \o SubSeq(b, 1, TakeLen(r, b))]
TakeNext(r, b) ==
    LET s == TakeGot(r, b)
    IN  IF Len(s.got) = s.need /\ s.stage # "body" THEN Stage(s) ELSE s
TakeDone(t) == t.stage = "body" /\ Len(t.got) = t.need
TakeLeft(r, b) == SubSeq(b, TakeLen(r, b) + 1, Len(b))

LEMMA TakeIs ==
    ASSUME NEW e \in Ends, Take(e)
    PROVE  LET t == TakeNext(rd[e], rb[e])
           IN  /\ pc[e] = "up" /\ rb[e] # <<>>
               /\ rb' = [rb EXCEPT ![e] = TakeLeft(rd[e], rb[e])]
               /\ UNCHANGED <<wire, written, taken>>
               /\ \/ Fail(e) /\ UNCHANGED <<rd, returned>> /\ (t.len > Room \/ (TakeDone(t) /\ t.len = 0))
                  \/ /\ ~(t.len > Room \/ (TakeDone(t) /\ t.len = 0))
                     /\ rd' = [rd EXCEPT ![e] = IF TakeDone(t) THEN Reading ELSE t]
                     /\ returned' = [returned EXCEPT ![e] =
                            IF TakeDone(t) THEN Append(@, IF t.mask THEN Masked(t.got, t.key) ELSE t.got)
                            ELSE @]
                     /\ UNCHANGED <<pc, up>>
BY DEF Take, TakeLen, TakeGot, TakeNext, TakeDone, TakeLeft

\* The bytes that Take moves.
LEMMA TakeMoves ==
    ASSUME NEW b \in Seq(Nat), b # <<>>, NEW r, r.got \in Seq(Nat), r.need \in Nat, Len(r.got) < r.need
    PROVE  LET n == TakeLen(r, b)
           IN  /\ n \in 1 .. Len(b) /\ Len(r.got) + n <= r.need /\ Len(b) \in Nat /\ Len(r.got) \in Nat
               /\ (n = Len(b) \/ Len(r.got) + n = r.need)
               /\ SubSeq(b, 1, n) \in Seq(Nat) /\ Len(SubSeq(b, 1, n)) = n
               /\ \A i \in 1 .. n : SubSeq(b, 1, n)[i] = b[i]
               /\ TakeLeft(r, b) \in Seq(Nat) /\ Len(TakeLeft(r, b)) = Len(b) - n
               /\ \A i \in 1 .. Len(b) - n : TakeLeft(r, b)[i] = b[n + i]
<1> DEFINE n == TakeLen(r, b)
<1>1. Len(b) \in Nat /\ Len(b) # 0 BY EmptySeq
<1>2. PICK g \in Nat, q \in Nat, m \in Nat : g = Len(r.got) /\ q = r.need /\ m = Len(b) BY <1>1
<1>3. n = IF m < q - g THEN m ELSE q - g BY <1>2 DEF TakeLen
<1> HIDE DEF n
<1>4. n \in 1 .. m /\ g + n <= q /\ (n = m \/ g + n = q) /\ n \in Nat /\ n <= m BY <1>1, <1>2, <1>3
<1>6. /\ SubSeq(b, 1, n) \in Seq(Nat) /\ Len(SubSeq(b, 1, n)) = n
      /\ \A i \in 1 .. n : SubSeq(b, 1, n)[i] = b[i]
  <2>1. n \in Nat /\ n <= Len(b) BY <1>2, <1>4
  <2> QED BY <2>1, CutFirst
<1>7. /\ SubSeq(b, n + 1, m) \in Seq(Nat) /\ Len(SubSeq(b, n + 1, m)) = m - n
      /\ \A i \in 1 .. m - n : SubSeq(b, n + 1, m)[i] = b[n + i]
  <2>1. n \in Nat /\ m \in Nat /\ n <= m /\ m <= Len(b) BY <1>2, <1>4
  <2> QED BY <2>1, Cut
<1>8. TakeLeft(r, b) = SubSeq(b, n + 1, m) BY <1>2 DEF TakeLeft, n
<1> QED BY <1>1, <1>2, <1>4, <1>6, <1>7, <1>8 DEF n

\* The reading of what is left over: the head of a frame whose body is longer
\* than all that can come.
LEMMA LeftoverTake ==
    ASSUME NEW r, NEW b \in Seq(Nat), NEW w \in Seq(Nat), b # <<>>, Leftover(r, b, w)
    PROVE  /\ ~TakeDone(TakeNext(r, b))
           /\ Leftover(TakeNext(r, b), TakeLeft(r, b), w)
<1> DEFINE n == TakeLen(r, b)
           d == SubSeq(b, 1, n)
           a == TakeLeft(r, b)
           q == r.got \o d
           s == TakeGot(r, b)
<1>1. Len(w) \in Nat /\ Len(b) \in Nat /\ Len(b) # 0 BY EmptySeq
<1>2. PICK x \in Nat, y \in Nat : x = Len(w) /\ y = Len(b) BY <1>1
<1>3. r.got \in Seq(Nat) /\ Len(r.got) \in Nat
  <2>1. r.got \in Seq(Nat) BY Zenon DEF Leftover
  <2> QED BY <2>1
<1>4. PICK g \in Nat : g = Len(r.got) BY <1>3
<1>5. ASSUME r.need \in Nat, Len(r.got) < r.need
      PROVE  /\ n \in 1 .. y /\ g + n <= r.need /\ (n = y \/ g + n = r.need)
             /\ d \in Seq(Nat) /\ Len(d) = n /\ \A i \in 1 .. n : d[i] = b[i]
             /\ a \in Seq(Nat) /\ Len(a) = y - n /\ \A i \in 1 .. y - n : a[i] = b[n + i]
  BY <1>2, <1>3, <1>4, <1>5, TakeMoves, ZenonT(30)
<1>6. TakeNext(r, b) = IF Len(s.got) = s.need /\ s.stage # "body" THEN Stage(s) ELSE s
  BY DEF TakeNext
<1>7. s = [r EXCEPT !.got = q] BY DEF TakeGot
<1> HIDE DEF n, d, a, s
<1>8. ASSUME d \in Seq(Nat), Len(d) = n, n \in Nat
      PROVE  q \in Seq(Nat) /\ Len(q) = g + n /\ \A i \in 1 .. n : q[g + i] = d[i]
  <2>1. q \in Seq(Nat) /\ Len(q) = Len(r.got) + Len(d) /\ \A i \in 1 .. Len(d) : q[Len(r.got) + i] = d[i]
    BY <1>3, <1>8, Joined
  <2> HIDE DEF q
  <2> QED BY <1>4, <1>8, <2>1
<1> HIDE DEF q
<1>9. CASE /\ r = Rec("head", 2, r.got, FALSE, 0, <<>>) /\ r.got \in Seq(Nat) /\ Len(r.got) <= 1
           /\ Len(r.got) + Len(b) + Len(w) <= 3
           /\ \A i \in 1 .. Len(b) : Len(r.got) + i = 2 => b[i] = Crlf
           /\ \A i \in 1 .. Len(w) : Len(r.got) + Len(b) + i = 2 => w[i] = Crlf
  <2>1. PICK h : h = r.got OBVIOUS
  <2>2. r = Rec("head", 2, h, FALSE, 0, <<>>) BY <1>9, <2>1
  <2>3. r.need = 2 BY <2>2 DEF Rec
  <2>4. s = Rec("head", 2, q, FALSE, 0, <<>>) BY <1>7, <2>2 DEF Rec
  <2>5. s.got = q /\ s.need = 2 /\ s.stage = "head" BY <2>4 DEF Rec
  <2>6. r.need \in Nat /\ Len(r.got) < r.need BY <1>4, <1>9, <2>3
  <2>7. /\ n \in 1 .. y /\ g + n <= 2 /\ (n = y \/ g + n = 2) /\ d \in Seq(Nat) /\ Len(d) = n
        /\ a \in Seq(Nat) /\ Len(a) = y - n
    BY <1>5, <2>3, <2>6
  <2>8. \A i \in 1 .. n : d[i] = b[i] BY <1>5, <2>6
  <2>9. n \in Nat BY <2>7
  <2>10. q \in Seq(Nat) /\ Len(q) = g + n /\ \A i \in 1 .. n : q[g + i] = d[i] BY <1>8, <2>7, <2>9
  <2>11. CASE g + n = 2
    <3>1. q[2] = Crlf
      <4>1. n \in 1 .. n /\ n \in 1 .. y BY <2>7, <2>9
      <4>2. b[n] = Crlf BY <1>2, <1>4, <1>9, <2>11, <4>1
      <4>3. q[g + n] = d[n] /\ d[n] = b[n] BY <2>8, <2>10, <4>1
      <4> QED BY <2>11, <4>2, <4>3
    <3>2. TakeNext(r, b) = Stage(s)
      <4>1. Len(s.got) = s.need /\ s.stage # "body" BY <2>5, <2>10, <2>11
      <4> QED BY <1>6, <4>1
    <3>3. q[2] = 13 /\ 13 \in 0 .. 125 BY <3>1 DEF Crlf
    <3>4. Stage(s) = Rec("body", 13, <<>>, FALSE, 13, <<>>)
      <4>1. PICK c \in 0 .. 125 : c = 13 /\ c \in Nat /\ c % 128 = c /\ c < 128 BY <3>3
      <4>2. Stage(Rec("head", 2, q, FALSE, 0, <<>>)) = Rec("body", c, <<>>, FALSE, c, <<>>)
        BY <3>3, <4>1, StageHeadShort
      <4> QED BY <2>4, <4>1, <4>2
    <3>5. PICK t : t = Stage(s) OBVIOUS
    <3>6. t.stage = "body" /\ t.need = 13 /\ t.got = <<>> BY <3>4, <3>5 DEF Rec
    <3>7. ~TakeDone(t) BY <3>6, Words DEF TakeDone
    <3>8. Len(a) \in Nat /\ Len(t.got) + Len(a) + Len(w) <= 1
      <4>1. g + y + x <= 3 BY <1>2, <1>4, <1>9
      <4>2. y - n \in Nat /\ 0 + (y - n) + x <= 1 BY <2>7, <2>11, <4>1
      <4> QED BY <1>2, <2>7, <3>6, <4>2, Words
    <3>9. t = Rec("body", Crlf, t.got, FALSE, Crlf, <<>>) BY <3>4, <3>5, <3>6 DEF Crlf
    <3>10. Leftover(t, a, w) BY <3>6, <3>8, <3>9, Words DEF Leftover
    <3> QED BY <3>2, <3>5, <3>7, <3>10 DEF a
  <2>12. CASE g + n < 2
    <3>1. TakeNext(r, b) = s
      <4>1. ~(Len(s.got) = s.need) BY <2>5, <2>9, <2>10, <2>12
      <4> QED BY <1>6, <4>1
    <3>2. n = y /\ Len(a) = 0 BY <2>7, <2>12
    <3>3. Len(q) <= 1 /\ Len(q) + Len(a) + Len(w) <= 3
      <4>1. g + y + x <= 3 BY <1>2, <1>4, <1>9
      <4> QED BY <1>2, <2>9, <2>10, <2>12, <3>2, <4>1
    <3>4. \A i \in 1 .. Len(a) : Len(q) + i = 2 => a[i] = Crlf BY <3>2
    <3>5. \A i \in 1 .. Len(w) : Len(q) + Len(a) + i = 2 => w[i] = Crlf
      <4> SUFFICES ASSUME NEW i \in 1 .. x, g + n + 0 + i = 2 PROVE w[i] = Crlf
        BY <1>2, <2>10, <3>2
      <4>1. g + y + i = 2 BY <3>2
      <4> QED BY <1>2, <1>4, <1>9, <4>1
    <3>6. Leftover(s, a, w)
      <4>1. s = Rec("head", 2, s.got, FALSE, 0, <<>>) BY <2>4, <2>5
      <4> QED BY <2>5, <2>10, <3>3, <3>4, <3>5, <4>1 DEF Leftover
    <3>7. ~TakeDone(s) BY <2>5 DEF TakeDone
    <3> QED BY <3>1, <3>6, <3>7 DEF a
  <2>13. g + n = 2 \/ g + n < 2 BY <2>7, <2>9
  <2> QED BY <2>11, <2>12, <2>13
<1>10. CASE /\ r = Rec("body", Crlf, r.got, FALSE, Crlf, <<>>)
            /\ r.got \in Seq(Nat) /\ Len(r.got) + Len(b) + Len(w) <= 1
  <2>1. g = 0 /\ y = 1 /\ x = 0 BY <1>1, <1>2, <1>4, <1>10
  <2>2. PICK h : h = r.got OBVIOUS
  <2>3. r = Rec("body", Crlf, h, FALSE, Crlf, <<>>) BY <1>10, <2>2
  <2>4. r.need = 13 BY <2>3 DEF Rec, Crlf
  <2>5. s = Rec("body", Crlf, q, FALSE, Crlf, <<>>) BY <1>7, <2>3 DEF Rec
  <2>6. s.got = q /\ s.need = 13 /\ s.stage = "body" BY <2>5 DEF Rec, Crlf
  <2>7. r.need \in Nat /\ Len(r.got) < r.need BY <1>4, <2>1, <2>4
  <2>8. n \in 1 .. y /\ d \in Seq(Nat) /\ Len(d) = n /\ a \in Seq(Nat) /\ Len(a) = y - n
    BY <1>5, <2>7
  <2>9. n = 1 /\ Len(a) = 0 BY <2>1, <2>8
  <2>10. q \in Seq(Nat) /\ Len(q) = 1 BY <1>8, <2>1, <2>8, <2>9
  <2>11. TakeNext(r, b) = s BY <1>6, <2>6
  <2>12. ~TakeDone(s) BY <2>6, <2>10 DEF TakeDone
  <2>13. s = Rec("body", Crlf, s.got, FALSE, Crlf, <<>>) BY <2>5, <2>6
  <2>14. s.got \in Seq(Nat) /\ Len(s.got) + Len(a) + Len(w) <= 1 BY <1>2, <2>1, <2>6, <2>9, <2>10
  <2>15. Leftover(s, a, w) BY <2>13, <2>14, Zenon DEF Leftover
  <2> QED BY <2>11, <2>12, <2>15 DEF a
<1> QED BY <1>9, <1>10 DEF Leftover

LEMMA HandshakeTake ==
    ASSUME HInv, NEW e \in Ends, Take(e), TakeLeft(rd[e], rb[e]) \in Seq(Nat)
    PROVE  HInv'
<1> DEFINE t == TakeNext(rd[e], rb[e])
<1> USE TwoEnds DEF HInv
<1>0. /\ pc[e] = "up" /\ rb[e] # <<>> /\ UNCHANGED <<wire, written, taken>>
      /\ rb' = [rb EXCEPT ![e] = TakeLeft(rd[e], rb[e])]
      /\ \/ Fail(e) /\ UNCHANGED <<rd, returned>>
         \/ /\ rd' = [rd EXCEPT ![e] = IF TakeDone(t) THEN Reading ELSE t]
            /\ returned' = [returned EXCEPT ![e] =
                   IF TakeDone(t) THEN Append(@, IF t.mask THEN Masked(t.got, t.key) ELSE t.got)
                   ELSE @]
            /\ UNCHANGED <<pc, up>>
  BY TakeIs
<1> HIDE DEF t
<1>1. /\ pc' \in [Ends -> States] /\ up' \in BOOLEAN /\ pc'[e] \in {"up", "failed"}
      /\ pc'[Peer(e)] = pc[Peer(e)]
  BY <1>0 DEF Fail, Shape, States
<1>2. DOMAIN rd' = Ends /\ DOMAIN returned' = Ends /\ rb' \in [Ends -> Seq(Nat)]
  BY <1>0 DEF Shape
<1>3. /\ rb'[Peer(e)] = rb[Peer(e)] /\ rd'[Peer(e)] = rd[Peer(e)]
      /\ returned'[Peer(e)] = returned[Peer(e)]
  <2>1. CASE UNCHANGED <<rd, returned>> BY <1>0, <2>1 DEF Shape
  <2>2. CASE /\ rd' = [rd EXCEPT ![e] = IF TakeDone(t) THEN Reading ELSE t]
             /\ returned' = [returned EXCEPT ![e] =
                    IF TakeDone(t) THEN Append(@, IF t.mask THEN Masked(t.got, t.key) ELSE t.got)
                    ELSE @]
    BY <1>0, <2>2 DEF Shape
  <2> QED BY <1>0, <2>1, <2>2
<1>4. Shape' BY <1>0, <1>1, <1>2 DEF Shape
<1>5. Fresh'
  <2> SUFFICES ASSUME NEW f \in Ends, pc'[f] \in {"idle", "open", "wait"}
               PROVE  /\ rb'[f] = <<>> /\ rd'[f] = Reading /\ returned'[f] = <<>>
                      /\ taken'[f] = 0 /\ written'[f] = 0
    BY DEF Fresh
  <2>1. f = Peer(e) BY <1>1
  <2> QED BY <1>0, <1>1, <1>3, <2>1 DEF Fresh
<1>6. SwallowsNothing' BY <1>0 DEF SwallowsNothing
<1>7. CASE e = "client"
  <2>1. pc["server"] \in {"up", "failed"} BY <1>0, <1>7 DEF ServerWaits, Opening, Shape, States
  <2> QED BY <1>0, <1>1, <1>4, <1>5, <1>6, <1>7, <2>1 DEF Opening, ServerWaits, ClientWaits
<1>8. CASE e = "server"
  <2>1. ServerWaits' BY <1>0, <1>1, <1>8 DEF ServerWaits
  <2>2. ~(pc["client"] \in {"idle", "open"}) BY <1>0, <1>8 DEF ClientWaits
  <2>3. Opening' BY <1>0, <1>1, <1>8, <2>2 DEF Opening
  <2>4. ClientWaits'
    <3>1. CASE pc["client"] = "wait"
      <4>1. Leftover(rd["server"], rb["server"], wire["client"]) BY <1>0, <1>8, <3>1 DEF ClientWaits
      <4>2. ~TakeDone(t) /\ Leftover(t, TakeLeft(rd["server"], rb["server"]), wire["client"])
        BY <1>0, <1>8, <4>1, LeftoverTake DEF t, Shape
      <4>3. rb'["server"] = TakeLeft(rd["server"], rb["server"]) BY <1>0, <1>8 DEF Shape
      <4>4. CASE Fail(e) /\ UNCHANGED <<rd, returned>>
        <5>1. pc'["server"] = "failed" BY <1>8, <4>4 DEF Fail, Shape
        <5> QED BY <1>0, <1>1, <1>8, <3>1, <4>4, <5>1 DEF ClientWaits
      <4>5. CASE /\ rd' = [rd EXCEPT ![e] = t] /\ returned' = [returned EXCEPT ![e] = @]
        <5>1. rd'["server"] = t /\ returned'["server"] = returned["server"] BY <1>8, <4>5 DEF Shape
        <5> QED BY <1>0, <1>1, <1>8, <3>1, <4>2, <4>3, <5>1 DEF ClientWaits
      <4> QED BY <1>0, <4>2, <4>4, <4>5
    <3>2. CASE pc["client"] # "wait" BY <1>1, <1>8, <2>2, <3>2 DEF ClientWaits
    <3> QED BY <3>1, <3>2
  <2> QED BY <1>4, <1>5, <1>6, <2>1, <2>3, <2>4
<1> QED BY <1>7, <1>8 DEF Ends

LEMMA HandshakeIoFails == ASSUME HInv, NEW e \in Ends, IoFails(e) PROVE HInv'
<1> USE TwoEnds DEF HInv, IoFails, Fail
<1>0. pc[e] \notin {"idle", "failed"} OBVIOUS
<1>1. pc' \in [Ends -> States] /\ pc'[e] = "failed" /\ pc'[Peer(e)] = pc[Peer(e)] BY DEF Shape, States
<1>2. Shape' BY <1>1 DEF Shape
<1>3. Fresh' BY <1>1 DEF Fresh
<1>4. Opening' BY <1>0, <1>1 DEF Opening, Ends
<1>5. ServerWaits' BY <1>1 DEF ServerWaits, Ends
<1>6. ClientWaits' BY <1>1 DEF ClientWaits, Ends
<1>7. SwallowsNothing' BY DEF SwallowsNothing
<1> QED BY <1>2, <1>3, <1>4, <1>5, <1>6, <1>7

LEMMA FormedReading == Formed(Reading)
<1>1. Reading.got = <<>> /\ Reading.need = 2 /\ Reading.stage = "head" BY DEF Reading
<1>2. Reading.got \in Seq(Nat) /\ Len(Reading.got) < 2 BY <1>1, Words
<1>3. Reading = Rec("head", 2, Reading.got, FALSE, 0, <<>>) BY <1>1, ReadingRec
<1>4. Reading.stage # "len" /\ Reading.need \in Nat /\ Len(Reading.got) < Reading.need BY <1>1, <1>2
<1> QED BY <1>2, <1>3, <1>4, Zenon DEF Formed

\* A read that has begun a stage is formed.
LEMMA FormedLen ==
    ASSUME NEW m \in {2, 8}, NEW r,
           r = Rec("len", m, <<>>, TRUE, 0, <<>>) \/ r = Rec("len", m, <<>>, FALSE, 0, <<>>)
    PROVE  Formed(r) /\ ~TakeDone(r)
<1>0. r.got = <<>> /\ r.need = m /\ r.stage = "len" BY DEF Rec
<1>1. r.got \in Seq(Nat) /\ r.need \in Nat /\ Len(r.got) < r.need BY <1>0, Words
<1>2. \/ r = Rec("len", r.need, r.got, TRUE, 0, <<>>)
      \/ r = Rec("len", r.need, r.got, FALSE, 0, <<>>)
  BY <1>0
<1>3. Formed(r) BY <1>0, <1>1, <1>2, Zenon DEF Formed
<1> QED BY <1>0, <1>3 DEF TakeDone

LEMMA FormedKey ==
    ASSUME NEW n \in Nat, NEW r, r = Rec("key", 4, <<>>, TRUE, n, <<>>)
    PROVE  Formed(r) /\ ~TakeDone(r)
<1>0. r.got = <<>> /\ r.need = 4 /\ r.stage = "key" /\ r.len = n BY DEF Rec
<1>1. r.got \in Seq(Nat) /\ r.need \in Nat /\ Len(r.got) < r.need
  <2>1. Len(r.got) = 0 /\ r.got \in Seq(Nat) BY <1>0, Words
  <2>2. r.need \in Nat /\ 0 < r.need
    <3>1. r.need = 4 BY <1>0
    <3>2. 4 \in Nat /\ 0 < 4 OBVIOUS
    <3> QED BY <3>1, <3>2, Zenon
  <2> QED BY <2>1, <2>2
<1>2. r = Rec("key", 4, r.got, TRUE, r.len, <<>>) /\ r.len \in Nat BY <1>0
<1>3. Formed(r) BY <1>0, <1>1, <1>2, Zenon DEF Formed
<1> QED BY <1>0, <1>3 DEF TakeDone

LEMMA FormedBody ==
    ASSUME NEW n \in Nat, NEW k, NEW r,
           r = Rec("body", n, <<>>, TRUE, n, k) \/ r = Rec("body", n, <<>>, FALSE, n, k),
           ~(TakeDone(r) /\ r.len = 0)
    PROVE  Formed(r) /\ ~TakeDone(r)
<1>0. r.got = <<>> /\ r.need = n /\ r.stage = "body" /\ r.len = n /\ r.key = k BY DEF Rec
<1>1. n # 0
  <2> SUFFICES ASSUME n = 0 PROVE FALSE OBVIOUS
  <2>1. TakeDone(r) BY <1>0, Words DEF TakeDone
  <2> QED BY <1>0, <2>1
<1>2. r.got \in Seq(Nat) /\ r.need \in Nat /\ Len(r.got) < r.need /\ ~(Len(r.got) = r.need)
  BY <1>0, <1>1, Words
<1>3. \/ r = Rec("body", r.need, r.got, TRUE, r.need, r.key)
      \/ r = Rec("body", r.need, r.got, FALSE, r.need, r.key)
  BY <1>0
<1>4. Formed(r) BY <1>0, <1>2, <1>3, Zenon DEF Formed
<1> QED BY <1>2, <1>4 DEF TakeDone

\* What Stage makes of a read that has all its stage needs.
LEMMA FormedHeadStage ==
    ASSUME NEW g \in Seq(Nat), Len(g) = 2, NEW t, t = Stage(Rec("head", 2, g, FALSE, 0, <<>>)),
           ~(TakeDone(t) /\ t.len = 0)
    PROVE  Formed(t) /\ ~TakeDone(t)
<1>1. PICK y \in Nat : g[2] = y
  <2>1. 2 \in 1 .. Len(g) OBVIOUS
  <2> QED BY <2>1, ElementOfSeq
<1>2. PICK x \in Nat : x = y % 128 /\ x <= 127 OBVIOUS
<1>3. y < 128 \/ y >= 128 OBVIOUS
<1>4. CASE x < 126
  <2>1. x \in 0 .. 125 BY <1>4
  <2>2. CASE y < 128
    <3>1. t = Rec("body", x, <<>>, FALSE, x, <<>>) BY <1>1, <1>2, <2>1, <2>2, StageHeadShort, ZenonT(30)
    <3> QED BY <3>1, FormedBody
  <2>3. CASE y >= 128
    <3>1. t = Rec("key", 4, <<>>, TRUE, x, <<>>) BY <1>1, <1>2, <2>1, <2>3, StageHeadShort, ZenonT(30)
    <3> QED BY <3>1, FormedKey
  <2> QED BY <1>3, <2>2, <2>3
<1>5. CASE x >= 126
  <2>1. x \in {126, 127} BY <1>2, <1>5
  <2>2. g[2] \in Nat /\ (g[2] % 128 = 126 \/ g[2] % 128 = 127) /\ (g[2] < 128 \/ g[2] >= 128)
    BY <1>1, <1>2, <2>1
  <2>3. \/ (t = Rec("len", 2, <<>>, FALSE, 0, <<>>) \/ t = Rec("len", 2, <<>>, TRUE, 0, <<>>))
        \/ (t = Rec("len", 8, <<>>, FALSE, 0, <<>>) \/ t = Rec("len", 8, <<>>, TRUE, 0, <<>>))
    BY <2>2, StageHeadLong
  <2>4. ASSUME NEW n \in {2, 8}, t = Rec("len", n, <<>>, FALSE, 0, <<>>) \/ t = Rec("len", n, <<>>, TRUE, 0, <<>>)
        PROVE  Formed(t) /\ ~TakeDone(t)
    BY <2>4, FormedLen
  <2>5. CASE t = Rec("len", 2, <<>>, FALSE, 0, <<>>) \/ t = Rec("len", 2, <<>>, TRUE, 0, <<>>)
    <3>1. PICK n \in {2, 8} : n = 2 OBVIOUS
    <3> QED BY <2>4, <2>5, <3>1
  <2>6. CASE t = Rec("len", 8, <<>>, FALSE, 0, <<>>) \/ t = Rec("len", 8, <<>>, TRUE, 0, <<>>)
    <3>1. PICK n \in {2, 8} : n = 8 OBVIOUS
    <3> QED BY <2>4, <2>6, <3>1
  <2> QED BY <2>3, <2>5, <2>6
<1>6. x < 126 \/ x >= 126 OBVIOUS
<1> QED BY <1>4, <1>5, <1>6

LEMMA FormedLenStage ==
    ASSUME NEW w \in {2, 8}, NEW g \in Seq(Nat), Len(g) = w, NEW t,
           \/ t = Stage(Rec("len", w, g, TRUE, 0, <<>>))
           \/ t = Stage(Rec("len", w, g, FALSE, 0, <<>>)),
           ~(TakeDone(t) /\ t.len = 0)
    PROVE  Formed(t) /\ ~TakeDone(t)
<1>1. w - 1 \in 1 .. Len(g) /\ w \in 1 .. Len(g) OBVIOUS
<1>2. g[w - 1] \in Nat /\ g[w] \in Nat BY <1>1, ElementOfSeq
<1>3. 256 * g[w - 1] + g[w] \in Nat /\ Room + 1 \in Nat BY <1>2, RoomAssumption, TwoBytesNat
<1>4. FromBig(g) = IF \E i \in 1 .. w - 2 : g[i] # 0 THEN Room + 1 ELSE 256 * g[w - 1] + g[w]
  BY DEF FromBig
<1>5. PICK n \in Nat : n = FromBig(g) BY <1>3, <1>4
<1>6. CASE t = Stage(Rec("len", w, g, TRUE, 0, <<>>))
  <2>1. t = Rec("key", 4, <<>>, TRUE, n, <<>>) BY <1>5, <1>6, StageLen
  <2> QED BY <2>1, FormedKey
<1>7. CASE t = Stage(Rec("len", w, g, FALSE, 0, <<>>))
  <2>1. t = Rec("body", n, <<>>, FALSE, n, <<>>) BY <1>5, <1>7, StageLen
  <2> QED BY <2>1, FormedBody
<1> QED BY <1>6, <1>7

LEMMA FormedKeyStage ==
    ASSUME NEW g, NEW n \in Nat, NEW t, t = Stage(Rec("key", 4, g, TRUE, n, <<>>)),
           ~(TakeDone(t) /\ t.len = 0)
    PROVE  Formed(t) /\ ~TakeDone(t)
<1>1. t = Rec("body", n, <<>>, TRUE, n, g) BY StageKey
<1> QED BY <1>1, FormedBody

\* Taking from the buffer keeps a read formed, unless it fails.
LEMMA FormedTake ==
    ASSUME NEW r, Formed(r), NEW b \in Seq(Nat), b # <<>>
    PROVE  /\ TakeLeft(r, b) \in Seq(Nat)
           /\ ~(TakeDone(TakeNext(r, b)) /\ TakeNext(r, b).len = 0) =>
                  TakeDone(TakeNext(r, b)) \/ Formed(TakeNext(r, b))
<1> DEFINE n == TakeLen(r, b)
           d == SubSeq(b, 1, n)
           q == r.got \o d
           s == TakeGot(r, b)
           t == TakeNext(r, b)
<1>1. r.got \in Seq(Nat) /\ r.need \in Nat /\ Len(r.got) < r.need BY Zenon DEF Formed
<1>2. /\ TakeLeft(r, b) \in Seq(Nat) /\ d \in Seq(Nat) /\ Len(d) = n /\ Len(r.got) + n <= r.need
      /\ Len(r.got) \in Nat /\ n \in 1 .. Len(b) /\ Len(b) \in Nat
  BY <1>1, TakeMoves
<1>3. t = IF Len(s.got) = s.need /\ s.stage # "body" THEN Stage(s) ELSE s BY DEF TakeNext
<1>4. s = [r EXCEPT !.got = q] BY DEF TakeGot
<1> HIDE DEF n, d, s, t
<1>5. q \in Seq(Nat) /\ Len(q) \in Nat /\ Len(q) <= r.need
  <2>1. q \in Seq(Nat) /\ Len(q) = Len(r.got) + Len(d) BY <1>1, <1>2, Joined
  <2> HIDE DEF q
  <2> QED BY <1>1, <1>2, <2>1
<1> HIDE DEF q
<1>6. PICK w \in Nat : w = r.need BY <1>1
<1>7. PICK g : g = r.got OBVIOUS
<1>8. SUFFICES ASSUME ~(TakeDone(t) /\ t.len = 0) PROVE TakeDone(t) \/ Formed(t)
  BY <1>2 DEF t
<1>9. ASSUME s.got = q, s.need = w, s.stage # "body", Len(q) = w PROVE t = Stage(s)
  BY <1>3, <1>9
<1>10. ASSUME s.got = q, s.need = w, Len(q) # w PROVE t = s
  BY <1>3, <1>10
<1>11. CASE r = Rec("head", 2, r.got, FALSE, 0, <<>>)
  <2>1. r = Rec("head", 2, g, FALSE, 0, <<>>) BY <1>7, <1>11
  <2>2. w = 2 BY <1>6, <2>1 DEF Rec
  <2>3. s = Rec("head", 2, q, FALSE, 0, <<>>) BY <1>4, <2>1 DEF Rec
  <2>4. s.got = q /\ s.need = w /\ s.stage = "head" BY <2>2, <2>3 DEF Rec
  <2>5. CASE Len(q) = w
    <3>1. t = Stage(Rec("head", 2, q, FALSE, 0, <<>>)) BY <1>9, <2>3, <2>4, <2>5
    <3>2. Len(q) = 2 BY <2>2, <2>5
    <3> QED BY <1>5, <1>8, <3>1, <3>2, FormedHeadStage
  <2>6. CASE Len(q) # w
    <3>1. t = s BY <1>10, <2>4, <2>6
    <3>2. Len(s.got) < s.need BY <1>5, <1>6, <2>4, <2>6
    <3>3. s = Rec("head", 2, s.got, FALSE, 0, <<>>) BY <2>3, <2>4
    <3>4. s.got \in Seq(Nat) /\ s.need \in Nat /\ s.stage # "len" BY <1>5, <2>4
    <3>5. Formed(s) BY <3>2, <3>3, <3>4, Zenon DEF Formed
    <3> QED BY <3>1, <3>5
  <2> QED BY <2>5, <2>6
<1>12. CASE r = Rec("len", r.need, r.got, TRUE, 0, <<>>)
  <2>1. r = Rec("len", w, g, TRUE, 0, <<>>) BY <1>6, <1>7, <1>12
  <2>2. r.stage = "len" BY <2>1 DEF Rec
  <2>3. w \in {2, 8} BY <1>6, <2>2, Zenon DEF Formed
  <2>4. s = Rec("len", w, q, TRUE, 0, <<>>) BY <1>4, <2>1 DEF Rec
  <2>5. s.got = q /\ s.need = w /\ s.stage = "len" BY <2>4 DEF Rec
  <2>6. CASE Len(q) = w
    <3>1. t = Stage(Rec("len", w, q, TRUE, 0, <<>>)) BY <1>9, <2>4, <2>5, <2>6
    <3> QED BY <1>5, <1>8, <2>3, <2>6, <3>1, FormedLenStage
  <2>7. CASE Len(q) # w
    <3>1. t = s BY <1>10, <2>5, <2>7
    <3>2. Len(s.got) < s.need BY <1>5, <1>6, <2>5, <2>7
    <3>3. s = Rec("len", s.need, s.got, TRUE, 0, <<>>) BY <2>4, <2>5
    <3>4. s.got \in Seq(Nat) /\ s.need \in Nat /\ s.need \in {2, 8} BY <1>5, <2>3, <2>5
    <3>5. Formed(s) BY <3>2, <3>3, <3>4, Zenon DEF Formed
    <3> QED BY <3>1, <3>5
  <2> QED BY <2>6, <2>7
<1>13. CASE r = Rec("len", r.need, r.got, FALSE, 0, <<>>)
  <2>1. r = Rec("len", w, g, FALSE, 0, <<>>) BY <1>6, <1>7, <1>13
  <2>2. r.stage = "len" BY <2>1 DEF Rec
  <2>3. w \in {2, 8} BY <1>6, <2>2, Zenon DEF Formed
  <2>4. s = Rec("len", w, q, FALSE, 0, <<>>) BY <1>4, <2>1 DEF Rec
  <2>5. s.got = q /\ s.need = w /\ s.stage = "len" BY <2>4 DEF Rec
  <2>6. CASE Len(q) = w
    <3>1. t = Stage(Rec("len", w, q, FALSE, 0, <<>>)) BY <1>9, <2>4, <2>5, <2>6
    <3> QED BY <1>5, <1>8, <2>3, <2>6, <3>1, FormedLenStage
  <2>7. CASE Len(q) # w
    <3>1. t = s BY <1>10, <2>5, <2>7
    <3>2. Len(s.got) < s.need BY <1>5, <1>6, <2>5, <2>7
    <3>3. s = Rec("len", s.need, s.got, FALSE, 0, <<>>) BY <2>4, <2>5
    <3>4. s.got \in Seq(Nat) /\ s.need \in Nat /\ s.need \in {2, 8} BY <1>5, <2>3, <2>5
    <3>5. Formed(s) BY <3>2, <3>3, <3>4, Zenon DEF Formed
    <3> QED BY <3>1, <3>5
  <2> QED BY <2>6, <2>7
<1>14. CASE r = Rec("key", 4, r.got, TRUE, r.len, <<>>) /\ r.len \in Nat
  <2>0. PICK y \in Nat : y = r.len BY <1>14
  <2>1. r = Rec("key", 4, g, TRUE, y, <<>>) BY <1>7, <1>14, <2>0
  <2>2. w = 4 BY <1>6, <2>1 DEF Rec
  <2>3. s = Rec("key", 4, q, TRUE, y, <<>>) BY <1>4, <2>1 DEF Rec
  <2>4. s.got = q /\ s.need = w /\ s.stage = "key" /\ s.len = y BY <2>2, <2>3 DEF Rec
  <2>5. CASE Len(q) = w
    <3>1. t = Stage(Rec("key", 4, q, TRUE, y, <<>>)) BY <1>9, <2>3, <2>4, <2>5
    <3> QED BY <1>8, <3>1, FormedKeyStage
  <2>6. CASE Len(q) # w
    <3>1. t = s BY <1>10, <2>4, <2>6
    <3>2. Len(s.got) < s.need BY <1>5, <1>6, <2>4, <2>6
    <3>3. s = Rec("key", 4, s.got, TRUE, s.len, <<>>) /\ s.len \in Nat BY <2>3, <2>4
    <3>4. s.got \in Seq(Nat) /\ s.need \in Nat /\ s.stage # "len" BY <1>5, <2>4
    <3>5. Formed(s) BY <3>2, <3>3, <3>4, Zenon DEF Formed
    <3> QED BY <3>1, <3>5
  <2> QED BY <2>5, <2>6
<1>15. CASE r = Rec("body", r.need, r.got, TRUE, r.need, r.key)
  <2>0. PICK y : y = r.key OBVIOUS
  <2>1. r = Rec("body", w, g, TRUE, w, y) BY <1>6, <1>7, <1>15, <2>0
  <2>2. s = Rec("body", w, q, TRUE, w, y) BY <1>4, <2>1 DEF Rec
  <2>3. s.got = q /\ s.need = w /\ s.stage = "body" /\ s.key = y BY <2>2 DEF Rec
  <2>4. t = s BY <1>3, <2>3
  <2>5. CASE Len(q) = w BY <2>3, <2>4, <2>5 DEF TakeDone
  <2>6. CASE Len(q) # w
    <3>1. Len(s.got) < s.need BY <1>5, <1>6, <2>3, <2>6
    <3>2. s = Rec("body", s.need, s.got, TRUE, s.need, s.key) BY <2>2, <2>3
    <3>3. s.got \in Seq(Nat) /\ s.need \in Nat /\ s.stage # "len" BY <1>5, <2>3
    <3>4. Formed(s) BY <3>1, <3>2, <3>3, Zenon DEF Formed
    <3> QED BY <2>4, <3>4
  <2> QED BY <2>5, <2>6
<1>16. CASE r = Rec("body", r.need, r.got, FALSE, r.need, r.key)
  <2>0. PICK y : y = r.key OBVIOUS
  <2>1. r = Rec("body", w, g, FALSE, w, y) BY <1>6, <1>7, <1>16, <2>0
  <2>2. s = Rec("body", w, q, FALSE, w, y) BY <1>4, <2>1 DEF Rec
  <2>3. s.got = q /\ s.need = w /\ s.stage = "body" /\ s.key = y BY <2>2 DEF Rec
  <2>4. t = s BY <1>3, <2>3
  <2>5. CASE Len(q) = w BY <2>3, <2>4, <2>5 DEF TakeDone
  <2>6. CASE Len(q) # w
    <3>1. Len(s.got) < s.need BY <1>5, <1>6, <2>3, <2>6
    <3>2. s = Rec("body", s.need, s.got, FALSE, s.need, s.key) BY <2>2, <2>3
    <3>3. s.got \in Seq(Nat) /\ s.need \in Nat /\ s.stage # "len" BY <1>5, <2>3
    <3>4. Formed(s) BY <3>1, <3>2, <3>3, Zenon DEF Formed
    <3> QED BY <2>4, <3>4
  <2> QED BY <2>5, <2>6
<1> QED BY <1>11, <1>12, <1>13, <1>14, <1>15, <1>16, Zenon DEF Formed

\* The inductive invariant of the handshake.
HandshakeInv == HInv /\ \A e \in Ends : Formed(rd[e])

LEMMA HandshakeStep == ASSUME HandshakeInv, [Next]_vars PROVE HandshakeInv'
<1>0. HInv /\ \A e \in Ends : Formed(rd[e]) BY DEF HandshakeInv
<1>1. ASSUME UNCHANGED <<pc, up, wire, rb, rd, written, returned, taken>> PROVE HandshakeInv'
  <2>1. HInv' BY <1>0, <1>1, HandshakeIdle
  <2> QED BY <1>0, <1>1, <2>1 DEF HandshakeInv
<1>2. ASSUME HInv', UNCHANGED rd PROVE HandshakeInv' BY <1>0, <1>2 DEF HandshakeInv
<1>3. CASE StartMuxServer \/ AcceptFails \/ Quiet \/ UNCHANGED vars
  BY <1>1, <1>3 DEF StartMuxServer, AcceptFails, Quiet, vars
<1>4. CASE NewConnection BY <1>0, <1>2, <1>4, HandshakeNewConnection DEF NewConnection
<1>5. CASE Break BY <1>0, <1>2, <1>5, HandshakeBreak DEF Break
<1>6. CASE ConnectWrite BY <1>0, <1>2, <1>6, HandshakeConnectWrite DEF ConnectWrite
<1>7. CASE AsyncAccept BY <1>0, <1>2, <1>7, HandshakeAccept DEF AsyncAccept, HandshakeRead
<1>8. CASE ConnectRead BY <1>0, <1>2, <1>8, HandshakeConnectRead DEF ConnectRead, HandshakeRead
<1>9. ASSUME NEW e \in Ends, AsyncWrite(e) PROVE HandshakeInv'
  BY <1>0, <1>2, <1>9, HandshakeWrite DEF AsyncWrite
<1>10. ASSUME NEW e \in Ends, Fill(e) PROVE HandshakeInv'
  BY <1>0, <1>2, <1>10, HandshakeFill DEF Fill
<1>11. ASSUME NEW e \in Ends, Take(e) PROVE HandshakeInv'
  <2> DEFINE t == TakeNext(rd[e], rb[e])
  <2>1. rb[e] \in Seq(Nat) /\ rb[e] # <<>> /\ DOMAIN rd = Ends BY <1>0, <1>11, TakeIs DEF HInv, Shape
  <2>2. /\ TakeLeft(rd[e], rb[e]) \in Seq(Nat)
        /\ ~(TakeDone(t) /\ t.len = 0) => TakeDone(t) \/ Formed(t)
    BY <1>0, <2>1, FormedTake
  <2>3. HInv' BY <1>0, <1>11, <2>2, HandshakeTake
  <2>4. \/ UNCHANGED rd
        \/ /\ ~(TakeDone(t) /\ t.len = 0)
           /\ rd' = [rd EXCEPT ![e] = IF TakeDone(t) THEN Reading ELSE t]
    BY <1>11, TakeIs
  <2> HIDE DEF t
  <2>5. CASE UNCHANGED rd BY <1>2, <2>3, <2>5
  <2>6. CASE /\ ~(TakeDone(t) /\ t.len = 0)
             /\ rd' = [rd EXCEPT ![e] = IF TakeDone(t) THEN Reading ELSE t]
    <3>1. Formed(IF TakeDone(t) THEN Reading ELSE t) BY <2>2, <2>6, FormedReading
    <3>2. \A f \in Ends : Formed(rd'[f]) BY <1>0, <2>1, <2>6, <3>1
    <3> QED BY <2>3, <3>2 DEF HandshakeInv
  <2> QED BY <2>4, <2>5, <2>6
<1>12. ASSUME NEW e \in Ends, IoFails(e) PROVE HandshakeInv'
  BY <1>0, <1>2, <1>12, HandshakeIoFails DEF IoFails
<1> QED
  BY <1>3, <1>4, <1>5, <1>6, <1>7, <1>8, <1>9, <1>10, <1>11, <1>12 DEF Next, AsyncRead

LEMMA HandshakeHolds == Spec => []HandshakeInv
<1>1. ASSUME Init PROVE HandshakeInv
  <2>1. \A e \in Ends : Formed(rd[e]) BY <1>1, FormedReading DEF Init
  <2> QED BY <1>1, <2>1, HandshakeInit DEF HandshakeInv
<1>2. HandshakeInv /\ [Next]_vars => HandshakeInv' BY HandshakeStep
<1> QED BY <1>1, <1>2, PTL DEF Spec

\* For any cut of the handshake and of what follows it, the one read by which
\* AsyncAccept and AsyncConnect take the handshake takes no byte of a message:
\* at most the request, or at most the response.
THEOREM NothingIsSwallowed == Spec => []SwallowsNothing
<1>1. HandshakeInv => SwallowsNothing BY DEF HandshakeInv, HInv
<1> QED BY <1>1, HandshakeHolds, PTL

-----------------------------------------------------------------------------
(***************************************************************************)
(* A read that goes through a frame.                                       *)
(***************************************************************************)
HeadRec(g) == Rec("head", 2, g, FALSE, 0, <<>>)
LenRec(p, w, g) ==
    IF p = "client" THEN Rec("len", w, g, TRUE, 0, <<>>) ELSE Rec("len", w, g, FALSE, 0, <<>>)
KeyRec(n, g) == Rec("key", 4, g, TRUE, n, <<>>)
BodyRec(p, n, g, key) ==
    IF p = "client" THEN Rec("body", n, g, TRUE, n, key) ELSE Rec("body", n, g, FALSE, n, <<>>)

WithGot(r, q) == [r EXCEPT !.got = q]

LEMMA RecSet ==
    ASSUME NEW r, NEW s, NEW g, NEW q, s = WithGot(r, q)
    PROVE  /\ r = HeadRec(g) => s = HeadRec(q)
           /\ \A p, w : r = LenRec(p, w, g) => s = LenRec(p, w, q)
           /\ \A n : r = KeyRec(n, g) => s = KeyRec(n, q)
           /\ \A p, n, key : r = BodyRec(p, n, g, key) => s = BodyRec(p, n, q, key)
<1>1. ASSUME r = HeadRec(g) PROVE s = HeadRec(q) BY <1>1 DEF HeadRec, Rec, WithGot
<1>2. ASSUME NEW p, NEW w, r = LenRec(p, w, g) PROVE s = LenRec(p, w, q)
  <2>1. CASE p = "client"
    <3>1. r = Rec("len", w, g, TRUE, 0, <<>>) BY <1>2, <2>1 DEF LenRec
    <3>2. s = Rec("len", w, q, TRUE, 0, <<>>) BY <3>1 DEF Rec, WithGot
    <3> QED BY <2>1, <3>2 DEF LenRec
  <2>2. CASE p # "client"
    <3>1. r = Rec("len", w, g, FALSE, 0, <<>>) BY <1>2, <2>2 DEF LenRec
    <3>2. s = Rec("len", w, q, FALSE, 0, <<>>) BY <3>1 DEF Rec, WithGot
    <3> QED BY <2>2, <3>2 DEF LenRec
  <2> QED BY <2>1, <2>2
<1>3. ASSUME NEW n, r = KeyRec(n, g) PROVE s = KeyRec(n, q) BY <1>3 DEF KeyRec, Rec, WithGot
<1>4. ASSUME NEW p, NEW n, NEW key, r = BodyRec(p, n, g, key) PROVE s = BodyRec(p, n, q, key)
  <2>1. CASE p = "client"
    <3>1. r = Rec("body", n, g, TRUE, n, key) BY <1>4, <2>1 DEF BodyRec
    <3>2. s = Rec("body", n, q, TRUE, n, key) BY <3>1 DEF Rec, WithGot
    <3> QED BY <2>1, <3>2 DEF BodyRec
  <2>2. CASE p # "client"
    <3>1. r = Rec("body", n, g, FALSE, n, <<>>) BY <1>4, <2>2 DEF BodyRec
    <3>2. s = Rec("body", n, q, FALSE, n, <<>>) BY <3>1 DEF Rec, WithGot
    <3> QED BY <2>2, <3>2 DEF BodyRec
  <2> QED BY <2>1, <2>2
<1> QED BY <1>1, <1>2, <1>3, <1>4

LEMMA RecGot ==
    ASSUME NEW g, NEW q
    PROVE  /\ WithGot(HeadRec(g), q) = HeadRec(q)
           /\ \A p, w : WithGot(LenRec(p, w, g), q) = LenRec(p, w, q)
           /\ \A n : WithGot(KeyRec(n, g), q) = KeyRec(n, q)
           /\ \A p, n, key : WithGot(BodyRec(p, n, g, key), q) = BodyRec(p, n, q, key)
<1>1. WithGot(HeadRec(g), q) = HeadRec(q) BY RecSet
<1>2. ASSUME NEW p, NEW w PROVE WithGot(LenRec(p, w, g), q) = LenRec(p, w, q) BY RecSet
<1>3. ASSUME NEW n PROVE WithGot(KeyRec(n, g), q) = KeyRec(n, q)
  <2>1. PICK r, s : r = KeyRec(n, g) /\ s = WithGot(r, q) OBVIOUS
  <2>2. s = KeyRec(n, q) BY <2>1, RecSet
  <2> QED BY <2>1, <2>2
<1>4. ASSUME NEW p, NEW n, NEW key PROVE WithGot(BodyRec(p, n, g, key), q) = BodyRec(p, n, q, key)
  BY RecSet
<1> QED BY <1>1, <1>2, <1>3, <1>4

LEMMA BodyGot ==
    ASSUME NEW p, NEW n, NEW g, NEW key, NEW q
    PROVE  WithGot(BodyRec(p, n, g, key), q) = BodyRec(p, n, q, key)
BY RecGot

\* g is a first part of the w bytes of f after start.
Part(f, start, w, g) ==
    g \in Seq(Nat) /\ Len(g) < w /\ \A i \in 1 .. Len(g) : g[i] = f[start + i]

\* b goes on with f after pos, as far as f goes.
Follows(f, pos, b) == \A i \in 1 .. Len(b) : pos + i <= Len(f) => b[i] = f[pos + i]

\* The read r of frame k of p has consumed pos bytes of it.
Reads(p, k, key, r, pos) ==
    LET f == Frame(p, k, key)
        n == Len(Message(p, k))
        h == HeadLen(n)
    IN  \/ \E g : r = HeadRec(g) /\ Part(f, 0, 2, g) /\ pos = Len(g)
        \/ h > 2 /\ \E g : r = LenRec(p, h - 2, g) /\ Part(f, 2, h - 2, g) /\ pos = 2 + Len(g)
        \/ p = "client" /\ \E g : r = KeyRec(n, g) /\ Part(f, h, 4, g) /\ pos = h + Len(g)
        \/ \E g : /\ r = BodyRec(p, n, g, key) /\ Part(f, h + KeyLen(p), n, g)
                  /\ pos = h + KeyLen(p) + Len(g)

\* What Take adds to a part of a stage is the next of its bytes.
NextGot(r, b) == r.got \o SubSeq(b, 1, TakeLen(r, b))

Within(f, start, r, b) ==
    /\ f \in Seq(Nat) /\ start \in Nat /\ b \in Seq(Nat) /\ b # <<>>
    /\ r.need \in Nat /\ start + r.need <= Len(f)
    /\ Part(f, start, r.need, r.got) /\ Follows(f, start + Len(r.got), b)

Taken(f, start, r, b, q) ==
    /\ q \in Seq(Nat) /\ TakeLen(r, b) \in 1 .. Len(b) /\ Len(r.got) \in Nat
    /\ Len(q) = Len(r.got) + TakeLen(r, b) /\ Len(q) <= r.need
    /\ \A i \in 1 .. Len(q) : q[i] = f[start + i]

LEMMA TakePart ==
    ASSUME NEW f, NEW start, NEW b, NEW r, Within(f, start, r, b)
    PROVE  Taken(f, start, r, b, NextGot(r, b))
<1>e. /\ f \in Seq(Nat) /\ start \in Nat /\ b \in Seq(Nat) /\ b # <<>>
      /\ r.need \in Nat /\ start + r.need <= Len(f)
      /\ Part(f, start, r.need, r.got) /\ Follows(f, start + Len(r.got), b)
  BY DEF Within
<1>a. PICK g : g = r.got OBVIOUS
<1>b. PICK w \in Nat : w = r.need BY <1>e
<1>c. start + w <= Len(f) /\ Part(f, start, w, g) BY <1>a, <1>b, <1>e
<1>d. Follows(f, start + Len(g), b) BY <1>a, <1>e
<1> DEFINE m == TakeLen(r, b)
           q == NextGot(r, b)
           d == SubSeq(b, 1, m)
<1>1. g \in Seq(Nat) /\ Len(g) < w /\ \A i \in 1 .. Len(g) : g[i] = f[start + i] BY <1>c DEF Part
<1>2. /\ m \in 1 .. Len(b) /\ Len(g) + m <= w /\ Len(b) \in Nat /\ Len(g) \in Nat
      /\ d \in Seq(Nat) /\ Len(d) = m /\ \A i \in 1 .. m : d[i] = b[i]
  <2>1. r.got \in Seq(Nat) /\ r.need \in Nat /\ Len(r.got) < r.need /\ b \in Seq(Nat) /\ b # <<>>
    BY <1>1, <1>a, <1>b, <1>e
  <2>2. LET j == TakeLen(r, b)
        IN  /\ j \in 1 .. Len(b) /\ Len(r.got) + j <= r.need /\ Len(b) \in Nat /\ Len(r.got) \in Nat
            /\ SubSeq(b, 1, j) \in Seq(Nat) /\ Len(SubSeq(b, 1, j)) = j
            /\ \A i \in 1 .. j : SubSeq(b, 1, j)[i] = b[i]
    BY <2>1, TakeMoves
  <2>3. /\ m \in 1 .. Len(b) /\ Len(r.got) + m <= r.need /\ Len(b) \in Nat /\ Len(r.got) \in Nat
        /\ d \in Seq(Nat) /\ Len(d) = m /\ \A i \in 1 .. m : d[i] = b[i]
    BY <2>2, Zenon
  <2> HIDE DEF d, m
  <2> QED BY <1>a, <1>b, <2>3
<1>0. q = g \o d BY <1>a DEF NextGot
<1> HIDE DEF d, m, q
<1>3. /\ q \in Seq(Nat) /\ Len(q) = Len(g) + Len(d)
      /\ \A i \in 1 .. Len(g) : q[i] = g[i]
      /\ \A i \in 1 .. Len(d) : q[Len(g) + i] = d[i]
  <2>1. g \in Seq(Nat) /\ d \in Seq(Nat) BY <1>1, <1>2
  <2>2. /\ g \o d \in Seq(Nat) /\ Len(g \o d) = Len(g) + Len(d)
        /\ \A i \in 1 .. Len(g) : (g \o d)[i] = g[i]
        /\ \A i \in 1 .. Len(d) : (g \o d)[Len(g) + i] = d[i]
    BY <2>1, Joined
  <2> QED BY <1>0, <2>2, Zenon
<1>4. PICK x \in Nat, y \in Nat, z \in Nat : x = Len(g) /\ y = Len(b) /\ z = Len(f) BY <1>2, <1>e
<1>8. start \in Nat BY <1>e
<1>5. Len(q) = x + m /\ x + m <= w /\ m \in Nat /\ m <= y
  <2>1. m \in 1 .. y /\ x + m <= w BY <1>2, <1>4
  <2>2. Len(q) = x + m BY <1>2, <1>3, <1>4
  <2> QED BY <2>1, <2>2
<1>6. ASSUME NEW i \in 1 .. x + m PROVE q[i] = f[start + i]
  <2>1. CASE i <= x
    <3>1. i \in 1 .. x BY <2>1
    <3> QED BY <1>1, <1>3, <1>4, <3>1
  <2>2. CASE i > x
    <3>1. PICK j \in 1 .. m : i = x + j
      <4>1. i - x \in 1 .. m /\ i = x + (i - x) BY <1>5, <2>2
      <4> QED BY <4>1
    <3>2. j \in 1 .. y /\ start + x + j <= z /\ start + x + j = start + i
      <4>1. start + w <= z /\ start \in Nat BY <1>c, <1>4, <1>8
      <4>2. j \in Nat /\ j >= 1 /\ j <= m BY <1>5
      <4>3. j \in 1 .. y /\ start + x + j <= z BY <1>5, <4>1, <4>2
      <4> QED BY <1>8, <3>1, <4>2, <4>3
    <3>3. q[x + j] = d[j] /\ d[j] = b[j] BY <1>2, <1>3, <1>4, <3>1
    <3>4. b[j] = f[start + x + j] BY <1>d, <1>4, <3>2 DEF Follows
    <3> QED BY <3>1, <3>2, <3>3, <3>4
  <2>3. i <= x \/ i > x BY <1>4, <1>5
  <2> QED BY <2>1, <2>2, <2>3
<1>7. Len(q) <= w /\ Len(q) = Len(g) + m /\ \A i \in 1 .. Len(q) : q[i] = f[start + i]
  BY <1>4, <1>5, <1>6
<1>9. /\ q \in Seq(Nat) /\ m \in 1 .. Len(b) /\ Len(r.got) \in Nat
      /\ Len(q) = Len(r.got) + m /\ Len(q) <= r.need
      /\ \A i \in 1 .. Len(q) : q[i] = f[start + i]
  BY <1>a, <1>b, <1>2, <1>3, <1>7
<1> QED BY <1>9 DEF Taken, q, m

\* How TakeNext goes on from a read of which got and need are known.
LEMMA TakeNextIs ==
    ASSUME NEW r, NEW b, NEW s, s = WithGot(r, NextGot(r, b))
    PROVE  TakeNext(r, b) = IF Len(s.got) = s.need /\ s.stage # "body" THEN Stage(s) ELSE s
<1>1. TakeGot(r, b) = s BY DEF TakeGot, WithGot, NextGot
<1> QED BY <1>1 DEF TakeNext

\* What holds of a Take within frame k of p, of which pos bytes were consumed.
Progress(p, k, key, t, pos) ==
    /\ pos <= Len(Frame(p, k, key)) /\ ~(t.len > Room)
    /\ \/ ~TakeDone(t) /\ Reads(p, k, key, t, pos)
       \/ /\ TakeDone(t) /\ t.len # 0 /\ pos = Len(Frame(p, k, key))
          /\ (IF t.mask THEN Masked(t.got, t.key) ELSE t.got) = Message(p, k)

\* The numbers of a frame.
LEMMA FrameNumbers ==
    ASSUME NEW p \in Ends, NEW k \in 1 .. Len(Messages[p]), NEW key \in MaskKeys
    PROVE  LET f == Frame(p, k, key)
               n == Len(Message(p, k))
               h == HeadLen(n)
           IN  /\ n \in Nat /\ n > 0 /\ ~(n > Room) /\ ~(0 > Room) /\ n \in 0 .. TwoBytes
               /\ h \in {2, 4, 10} /\ f \in Seq(Nat) /\ Len(f) = h + KeyLen(p) + n
               /\ KeyLen(p) \in Nat
<1>1. Len(Message(p, k)) \in 1 .. Room /\ Room \in 1 .. TwoBytes BY FrameShape, RoomAssumption
<1>2. PICK n \in Nat : n = Len(Message(p, k)) /\ n \in 1 .. Room BY <1>1, TwoBytesNat
<1>3. n > 0 /\ ~(n > Room) /\ ~(0 > Room) /\ n \in 0 .. TwoBytes
  <2>1. 256 * 256 - 1 \in Nat OBVIOUS
  <2>2. PICK z \in Nat : z = TwoBytes BY <2>1 DEF TwoBytes
  <2>3. PICK y \in Nat : y = Room /\ y >= 1 /\ y <= z BY <1>1, <2>2
  <2> QED BY <1>2, <2>2, <2>3
<1>4. HeadLen(n) \in {2, 4, 10} BY DEF HeadLen
<1>5. KeyLen(p) \in Nat BY DEF KeyLen
<1>6. Frame(p, k, key) \in Seq(Nat) /\ Len(Frame(p, k, key)) = HeadLen(n) + KeyLen(p) + n
  BY <1>2, FrameShape
<1> QED BY <1>2, <1>3, <1>4, <1>5, <1>6

\* A read that has just come to a stage, and is not through with it.
LEMMA Arrives ==
    ASSUME NEW p \in Ends, NEW k \in 1 .. Len(Messages[p]), NEW key \in MaskKeys, NEW t
    PROVE  LET n == Len(Message(p, k))
               h == HeadLen(n)
           IN  /\ h > 2 /\ t = LenRec(p, h - 2, <<>>) => Progress(p, k, key, t, 2)
               /\ p = "client" /\ t = KeyRec(n, <<>>) => Progress(p, k, key, t, h)
               /\ t = BodyRec(p, n, <<>>, key) => Progress(p, k, key, t, h + KeyLen(p))
<1> DEFINE f == Frame(p, k, key)
           n == Len(Message(p, k))
           h == HeadLen(n)
<1>1. /\ n \in Nat /\ n > 0 /\ ~(n > Room) /\ ~(0 > Room)
      /\ h \in {2, 4, 10} /\ f \in Seq(Nat) /\ Len(f) = h + KeyLen(p) + n /\ KeyLen(p) \in Nat
  BY FrameNumbers
<1>2. ASSUME NEW start \in Nat, NEW w \in Nat, w > 0 PROVE Part(f, start, w, <<>>)
  BY <1>2, Words DEF Part
<1> HIDE DEF f, n, h
<1>3. 2 <= Len(f) /\ h <= Len(f) /\ h + KeyLen(p) <= Len(f) /\ h \in Nat BY <1>1
<1>4. h > 2 => h - 2 \in Nat /\ h - 2 > 0 BY <1>1
<1>5. ASSUME h > 2, t = LenRec(p, h - 2, <<>>) PROVE Progress(p, k, key, t, 2)
  <2>1. t.stage = "len" /\ t.len = 0 BY <1>5 DEF LenRec, Rec
  <2>2. 2 = 2 + Len(<<>>) BY Words
  <2>3. Part(f, 2, h - 2, <<>>) BY <1>2, <1>4, <1>5
  <2>4. Reads(p, k, key, t, 2) BY <1>5, <2>2, <2>3 DEF Reads, f, n, h
  <2> QED BY <1>1, <1>3, <2>1, <2>4 DEF Progress, TakeDone, f
<1>6. ASSUME p = "client", t = KeyRec(n, <<>>) PROVE Progress(p, k, key, t, h)
  <2>1. t.stage = "key" /\ t.len = n BY <1>6 DEF KeyRec, Rec
  <2>2. h = h + Len(<<>>) BY <1>3, Words
  <2>3. Part(f, h, 4, <<>>) BY <1>2, <1>3
  <2>4. Reads(p, k, key, t, h) BY <1>6, <2>2, <2>3 DEF Reads, f, n, h
  <2> QED BY <1>1, <1>3, <2>1, <2>4 DEF Progress, TakeDone, f
<1>7. ASSUME t = BodyRec(p, n, <<>>, key) PROVE Progress(p, k, key, t, h + KeyLen(p))
  <2>1. t.stage = "body" /\ t.len = n /\ t.got = <<>> /\ t.need = n BY <1>7 DEF BodyRec, Rec
  <2>2. h + KeyLen(p) = h + KeyLen(p) + Len(<<>>) BY <1>1, <1>3, Words
  <2>3. h + KeyLen(p) \in Nat BY <1>1, <1>3
  <2>4. Part(f, h + KeyLen(p), n, <<>>) BY <1>1, <1>2, <2>3
  <2>5. Reads(p, k, key, t, h + KeyLen(p)) BY <1>7, <2>2, <2>4 DEF Reads, f, n, h
  <2>6. ~TakeDone(t) BY <1>1, <2>1, Words DEF TakeDone
  <2> QED BY <1>1, <1>3, <2>1, <2>5, <2>6 DEF Progress, f
<1> QED BY <1>5, <1>6, <1>7 DEF n, h

\* The second byte of a frame: the bit of the mask, and the code of the length.
LEMMA CodeParts ==
    \A x \in Nat : x <= 127 => x % 128 = x /\ (x + 128) % 128 = x /\ x + 128 \in Nat /\ x + 128 >= 128
OBVIOUS

\* Within the head.
LEMMA TakeHead ==
    ASSUME NEW p \in Ends, NEW k \in 1 .. Len(Messages[p]), NEW key \in MaskKeys,
           NEW b \in Seq(Nat), b # <<>>, NEW r, NEW g, r = HeadRec(g), Part(Frame(p, k, key), 0, 2, g),
           Follows(Frame(p, k, key), Len(g), b)
    PROVE  /\ TakeLen(r, b) \in 1 .. Len(b)
           /\ Progress(p, k, key, TakeNext(r, b), Len(g) + TakeLen(r, b))
<1> DEFINE f == Frame(p, k, key)
           n == Len(Message(p, k))
           h == HeadLen(n)
           m == TakeLen(r, b)
           q == NextGot(r, b)
           t == TakeNext(r, b)
<1>1. /\ n \in Nat /\ n > 0 /\ ~(n > Room) /\ ~(0 > Room)
      /\ h \in {2, 4, 10} /\ f \in Seq(Nat) /\ Len(f) = h + KeyLen(p) + n /\ KeyLen(p) \in Nat
  BY FrameNumbers
<1>2. r.got = g /\ r.need = 2 BY DEF HeadRec, Rec
<1>3. /\ m \in 1 .. Len(b) /\ q \in Seq(Nat) /\ Len(q) = Len(g) + m /\ Len(q) <= 2
      /\ Len(g) \in Nat /\ \A i \in 1 .. Len(q) : q[i] = f[0 + i]
  <2>1. Len(g) \in Nat BY DEF Part
  <2>2. 0 + 2 <= Len(f) BY <1>1
  <2>3. 0 + Len(g) = Len(g) /\ Follows(f, 0 + Len(g), b) BY <2>1
  <2>4. PICK z \in Nat : z = 0 OBVIOUS
  <2>5. /\ Part(f, z, r.need, r.got) /\ r.need \in Nat /\ z + r.need <= Len(f)
        /\ Follows(f, z + Len(r.got), b)
    BY <1>2, <2>2, <2>3, <2>4
  <2> HIDE DEF f
  <2>6. Within(f, z, r, b) BY <1>1, <2>5 DEF Within
  <2>7. Taken(f, z, r, b, q) BY <2>6, TakePart
  <2>8. /\ m \in 1 .. Len(b) /\ q \in Seq(Nat) /\ Len(q) = Len(r.got) + m /\ Len(q) <= r.need
        /\ Len(r.got) \in Nat /\ \A i \in 1 .. Len(q) : q[i] = f[z + i]
    BY <2>7, Zenon DEF Taken
  <2> HIDE DEF m, q
  <2> QED BY <1>2, <2>4, <2>8
<1>9. \A s : s = WithGot(r, q) =>
          t = IF Len(s.got) = s.need /\ s.stage # "body" THEN Stage(s) ELSE s
  BY TakeNextIs
<1> HIDE DEF f, n, h, m, q
<1>4. WithGot(r, q) = HeadRec(q)
  BY RecGot
<1>5. HeadRec(q).got = q /\ HeadRec(q).need = 2 /\ HeadRec(q).stage = "head" /\ HeadRec(q).len = 0
  BY DEF HeadRec, Rec
<1>6. /\ Len(q) = 2 => t = Stage(HeadRec(q))
      /\ Len(q) # 2 => t = HeadRec(q)
  <2>1. PICK s : s = HeadRec(q) /\ s = WithGot(r, q) BY <1>4
  <2>2. t = IF Len(s.got) = s.need /\ s.stage # "body" THEN Stage(s) ELSE s BY <1>9, <2>1
  <2> HIDE DEF t
  <2> QED BY <1>5, <2>1, <2>2
<1> HIDE DEF t
<1>7. CASE Len(q) # 2
  <2>1. t = HeadRec(q) BY <1>6, <1>7
  <2>2. Part(f, 0, 2, q) BY <1>3, <1>7 DEF Part
  <2>3. Reads(p, k, key, t, Len(q)) BY <2>1, <2>2 DEF Reads, f
  <2>4. Len(q) <= Len(f) BY <1>1, <1>3, SMTT(30)
  <2>5. ~TakeDone(t) /\ t.len = 0 BY <1>5, <2>1 DEF TakeDone
  <2>6. Progress(p, k, key, t, Len(q)) BY <1>1, <2>3, <2>4, <2>5 DEF Progress, f
  <2> QED BY <1>3, <2>6 DEF t, m
<1>8. CASE Len(q) = 2
  <2>1. t = Stage(Rec("head", 2, q, FALSE, 0, <<>>)) BY <1>6, <1>8 DEF HeadRec
  <2>2. q[2] = Code(n) + MaskBit(p)
    <3>0. 2 \in 1 .. Len(q) /\ 0 + 2 = 2 BY <1>8
    <3>1. q[2] = f[0 + 2] BY <1>3, <3>0
    <3>2. f[2] = Code(n) + MaskBit(p) BY FrameShape DEF f, n
    <3> QED BY <3>1, <3>2
  <2>3. /\ Code(n) \in 1 .. 127
        /\ h = 2 => Code(n) = n /\ n <= 125
        /\ h > 2 => Code(n) = IF h = 4 THEN 126 ELSE 127
    <3>1. n \in 1 .. Room BY FrameShape DEF n
    <3> QED BY <3>1, HeadShape, TRUE \in BOOLEAN DEF h
  <2>4. PICK c \in Nat : c = Code(n) /\ 1 <= c /\ c <= 127 BY <2>3, SMTT(30)
  <2>5. p = "client" => MaskBit(p) = 128 /\ KeyLen(p) = 4 BY DEF MaskBit, KeyLen
  <2>6. p = "server" => MaskBit(p) = 0 /\ KeyLen(p) = 0 BY DEF MaskBit, KeyLen
  <2>7. CASE h = 2
    <3>1. n \in 0 .. 125 /\ c = n BY <1>1, <2>3, <2>4, <2>7
    <3>2. CASE p = "client"
      <4>1. q[2] = n + 128 BY <2>2, <2>4, <2>5, <3>1, <3>2
      <4>2. PICK y \in Nat : y = n + 128 /\ y % 128 = n /\ y >= 128 BY <3>1, CodeParts
      <4>3. t = KeyRec(n, <<>>) BY <2>1, <3>1, <4>1, <4>2, StageHeadShort DEF KeyRec
      <4>4. Progress(p, k, key, t, h) BY <3>2, <4>3, Arrives DEF n, h
      <4> QED BY <1>3, <1>8, <2>7, <4>4 DEF t, m
    <3>3. CASE p = "server"
      <4>1. q[2] = n BY <2>2, <2>4, <2>6, <3>1, <3>3
      <4>2. PICK y \in Nat : y = n /\ y % 128 = n /\ y < 128 BY <3>1, CodeParts
      <4>3. t = Rec("body", n, <<>>, FALSE, n, <<>>) BY <2>1, <3>1, <4>1, <4>2, StageHeadShort
      <4>4. t = BodyRec(p, n, <<>>, key) BY <3>3, <4>3 DEF BodyRec
      <4>5. Progress(p, k, key, t, h + KeyLen(p)) BY <4>4, Arrives DEF n, h
      <4>6. h + KeyLen(p) = 2 BY <2>6, <2>7, <3>3
      <4> QED BY <1>3, <1>8, <4>5, <4>6 DEF t, m
    <3> QED BY <3>2, <3>3 DEF Ends
  <2>8. CASE h > 2
    <3>0. h = 4 \/ h = 10 BY <1>1, <2>8
    <3>1. (h = 4 /\ c = 126 /\ h - 2 = 2) \/ (h = 10 /\ c = 127 /\ h - 2 = 8)
      <4>1. CASE h = 4 BY <2>3, <2>4, <2>8, <4>1
      <4>2. CASE h = 10 BY <2>3, <2>4, <2>8, <4>2
      <4> QED BY <3>0, <4>1, <4>2
    <3>2. t = LenRec(p, h - 2, <<>>)
      <4>1. CASE p = "client"
        <5>1. q[2] = c + 128 BY <2>2, <2>4, <2>5, <4>1
        <5>0. (c + 128) % 128 = c /\ c + 128 \in Nat /\ c + 128 >= 128 BY <2>4, CodeParts
        <5>2. q[2] \in Nat /\ q[2] % 128 = c /\ q[2] >= 128 BY <5>0, <5>1, Zenon
        <5>3. t = Rec("len", h - 2, <<>>, TRUE, 0, <<>>)
          <6>1. CASE h = 4 /\ c = 126 /\ h - 2 = 2
            <7>1. q[2] % 128 = 126 BY <5>2, <6>1, Zenon
            <7>2. t = Rec("len", 2, <<>>, TRUE, 0, <<>>) BY <2>1, <5>2, <7>1, StageHeadLong, Zenon
            <7> QED BY <6>1, <7>2, Zenon
          <6>2. CASE h = 10 /\ c = 127 /\ h - 2 = 8 BY <2>1, <5>2, <6>2, StageHeadLong, ZenonT(30)
          <6> QED BY <3>1, <6>1, <6>2
        <5> QED BY <4>1, <5>3 DEF LenRec
      <4>2. CASE p = "server"
        <5>1. q[2] = c BY <2>2, <2>4, <2>6, <4>2
        <5>2. q[2] \in Nat /\ q[2] % 128 = c /\ q[2] < 128 BY <2>4, <5>1, CodeParts, SMTT(30)
        <5>3. t = Rec("len", h - 2, <<>>, FALSE, 0, <<>>)
          <6>1. CASE h = 4 /\ c = 126 /\ h - 2 = 2
            <7>1. q[2] % 128 = 126 BY <5>2, <6>1, Zenon
            <7>2. t = Rec("len", 2, <<>>, FALSE, 0, <<>>) BY <2>1, <5>2, <7>1, StageHeadLong, Zenon
            <7> QED BY <6>1, <7>2, Zenon
          <6>2. CASE h = 10 /\ c = 127 /\ h - 2 = 8 BY <2>1, <5>2, <6>2, StageHeadLong, ZenonT(30)
          <6> QED BY <3>1, <6>1, <6>2
        <5> QED BY <4>2, <5>3 DEF LenRec
      <4> QED BY <4>1, <4>2 DEF Ends
    <3>3. Progress(p, k, key, t, 2) BY <2>8, <3>2, Arrives DEF n, h
    <3> QED BY <1>3, <1>8, <3>3 DEF t, m
  <2> QED BY <1>1, <2>7, <2>8
<1> QED BY <1>7, <1>8

\* Within the bytes of a longer length.
AtSize(p, k, key, r, g, b) ==
    LET f == Frame(p, k, key)
        h == HeadLen(Len(Message(p, k)))
    IN  h > 2 /\ r = LenRec(p, h - 2, g) /\ Part(f, 2, h - 2, g) /\ Follows(f, 2 + Len(g), b)

LEMMA TakeSize ==
    ASSUME NEW p \in Ends, NEW k \in 1 .. Len(Messages[p]), NEW key \in MaskKeys,
           NEW b \in Seq(Nat), b # <<>>, NEW r, NEW g, AtSize(p, k, key, r, g, b)
    PROVE  /\ TakeLen(r, b) \in 1 .. Len(b)
           /\ Progress(p, k, key, TakeNext(r, b), 2 + Len(g) + TakeLen(r, b))
<1> DEFINE f == Frame(p, k, key)
           n == Len(Message(p, k))
           h == HeadLen(n)
           m == TakeLen(r, b)
           q == NextGot(r, b)
           t == TakeNext(r, b)
<1>1. /\ n \in Nat /\ n > 0 /\ ~(n > Room) /\ ~(0 > Room)
      /\ h \in {2, 4, 10} /\ f \in Seq(Nat) /\ Len(f) = h + KeyLen(p) + n /\ KeyLen(p) \in Nat
  BY FrameNumbers
<1>11. h > 2 /\ r = LenRec(p, h - 2, g) /\ Part(f, 2, h - 2, g) /\ Follows(f, 2 + Len(g), b)
  BY DEF AtSize
<1> HIDE DEF f, n, h
<1>12. PICK v \in {2, 8} : v = h - 2 /\ v + 2 = h BY <1>1, <1>11
<1>13. r = LenRec(p, v, g) /\ Part(f, 2, v, g) BY <1>11, <1>12
<1>2. r.got = g /\ r.need = v BY <1>13 DEF LenRec, Rec
<1>3. /\ m \in 1 .. Len(b) /\ q \in Seq(Nat) /\ Len(q) = Len(g) + m /\ Len(q) <= v
      /\ Len(g) \in Nat /\ \A i \in 1 .. Len(q) : q[i] = f[2 + i]
  <2>2. 2 + v <= Len(f) BY <1>1, <1>12
  <2>4. PICK z \in Nat : z = 2 OBVIOUS
  <2>5. /\ Part(f, z, r.need, r.got) /\ r.need \in Nat /\ z + r.need <= Len(f)
        /\ Follows(f, z + Len(r.got), b)
    BY <1>2, <1>11, <1>13, <2>2, <2>4
  <2>6. Within(f, z, r, b) BY <1>1, <2>5 DEF Within
  <2>7. Taken(f, z, r, b, q) BY <2>6, TakePart
  <2>8. /\ m \in 1 .. Len(b) /\ q \in Seq(Nat) /\ Len(q) = Len(r.got) + m /\ Len(q) <= r.need
        /\ Len(r.got) \in Nat /\ \A i \in 1 .. Len(q) : q[i] = f[z + i]
    BY <2>7, Zenon DEF Taken
  <2> HIDE DEF m, q
  <2> QED BY <1>2, <2>4, <2>8
<1>9. \A s : s = WithGot(r, q) =>
          t = IF Len(s.got) = s.need /\ s.stage # "body" THEN Stage(s) ELSE s
  BY TakeNextIs
<1> HIDE DEF m, q, t
<1>4. PICK s : s = WithGot(r, q) /\ s = LenRec(p, v, q)
  <2>2. \A x : WithGot(LenRec(p, x, g), q) = LenRec(p, x, q) BY RecGot, Zenon
  <2>3. WithGot(LenRec(p, v, g), q) = LenRec(p, v, q) BY <2>2, Zenon
  <2>1. WithGot(r, q) = LenRec(p, v, q) BY <1>13, <2>3
  <2> QED BY <2>1
<1>5. s.got = q /\ s.need = v /\ s.stage = "len" /\ s.len = 0 BY <1>4 DEF LenRec, Rec
<1>6. t = IF Len(q) = v THEN Stage(s) ELSE s BY <1>4, <1>5, <1>9
<1>10. m \in Nat /\ 2 + Len(q) = 2 + Len(g) + m
  <2>1. PICK x \in Nat : x = Len(b) OBVIOUS
  <2>2. m \in 1 .. x /\ Len(g) \in Nat /\ Len(q) = Len(g) + m BY <1>3, <2>1
  <2> QED BY <2>2
<1>7. CASE Len(q) # v
  <2>1. t = LenRec(p, v, q) BY <1>4, <1>6, <1>7
  <2>7. Len(q) < v
    <3>1. PICK x \in Nat : x = Len(q) BY <1>3
    <3>2. x <= v /\ x # v /\ v \in Nat BY <1>3, <1>7, <1>12, <3>1, SMTT(30)
    <3> QED BY <3>1, <3>2
  <2>2. Part(f, 2, v, q) BY <1>3, <2>7, Zenon DEF Part
  <2>3. Reads(p, k, key, t, 2 + Len(q)) 
    <3>1. Part(f, 2, h - 2, q) /\ t = LenRec(p, h - 2, q) BY <1>12, <2>1, <2>2
    <3>2. h > 2 /\ \E x : t = LenRec(p, h - 2, x) /\ Part(f, 2, h - 2, x) /\ 2 + Len(q) = 2 + Len(x)
      BY <1>11, <3>1
    <3> QED BY <3>2, Zenon DEF Reads, f, h, n
  <2>4. 2 + Len(q) <= Len(f) BY <1>1, <1>3, <1>12, SMTT(30)
  <2>5. ~TakeDone(t) /\ t.len = 0 BY <1>4, <1>5, <1>6, <1>7 DEF TakeDone
  <2>6. Progress(p, k, key, t, 2 + Len(q)) BY <1>1, <2>3, <2>4, <2>5 DEF Progress, f
  <2> QED BY <1>3, <1>10, <2>6 DEF t, m
<1>8. CASE Len(q) = v
  <2>0. h > 2 /\ v = h - 2 /\ v \in {2, 8} /\ 2 + v = h BY <1>11, <1>12
  <2>1. FromBig(q) = n
    <3>1. \A i \in 1 .. h - 2 : f[2 + i] = Big(n, h - 2)[i]
      <4>1. h > 2 => \A i \in 1 .. h - 2 : f[2 + i] = Big(n, h - 2)[i] BY FrameShape DEF f, n, h
      <4> QED BY <2>0, <4>1
    <3>2. \A i \in 1 .. v : q[i] = Big(n, v)[i]
      <4>1. \A i \in 1 .. v : f[2 + i] = Big(n, v)[i] BY <2>0, <3>1
      <4>2. \A i \in 1 .. v : q[i] = f[2 + i] BY <1>3, <1>8
      <4> QED BY <4>1, <4>2, Zenon
    <3>3. n \in 0 .. TwoBytes BY FrameNumbers DEF n
    <3> QED BY <1>3, <1>8, <2>0, <3>2, <3>3, LengthReadBack
  <2>2. t = Stage(LenRec(p, v, q)) BY <1>4, <1>6, <1>8
  <2>3. CASE p = "client"
    <3>1. t = Stage(Rec("len", v, q, TRUE, 0, <<>>)) BY <2>2, <2>3 DEF LenRec
    <3>2. t = Rec("key", 4, <<>>, TRUE, FromBig(q), <<>>) BY <3>1, StageLen
    <3>3. t = KeyRec(n, <<>>) BY <2>1, <3>2 DEF KeyRec
    <3>4. Progress(p, k, key, t, h) BY <2>3, <3>3, Arrives DEF n, h
    <3>5. h = 2 + Len(g) + m BY <1>8, <1>10, <2>0
    <3> QED BY <1>3, <3>4, <3>5 DEF t, m
  <2>4. CASE p = "server"
    <3>1. t = Stage(Rec("len", v, q, FALSE, 0, <<>>)) BY <2>2, <2>4 DEF LenRec
    <3>2. t = Rec("body", FromBig(q), <<>>, FALSE, FromBig(q), <<>>) BY <3>1, StageLen
    <3>3. t = BodyRec(p, n, <<>>, key) BY <2>1, <2>4, <3>2 DEF BodyRec
    <3>4. Progress(p, k, key, t, h + KeyLen(p)) BY <3>3, Arrives DEF n, h
    <3>5. h + KeyLen(p) = 2 + Len(g) + m BY <1>1, <1>8, <1>10, <2>0, <2>4 DEF KeyLen
    <3> QED BY <1>3, <3>4, <3>5 DEF t, m
  <2> QED BY <2>3, <2>4 DEF Ends
<1> QED BY <1>7, <1>8

\* Within the key of the mask.
AtKey(p, k, key, r, g, b) ==
    LET f == Frame(p, k, key)
        n == Len(Message(p, k))
        h == HeadLen(n)
    IN  p = "client" /\ r = KeyRec(n, g) /\ Part(f, h, 4, g) /\ Follows(f, h + Len(g), b)

LEMMA TakeMask ==
    ASSUME NEW p \in Ends, NEW k \in 1 .. Len(Messages[p]), NEW key \in MaskKeys,
           NEW b \in Seq(Nat), b # <<>>, NEW r, NEW g, AtKey(p, k, key, r, g, b)
    PROVE  /\ TakeLen(r, b) \in 1 .. Len(b)
           /\ Progress(p, k, key, TakeNext(r, b),
                       HeadLen(Len(Message(p, k))) + Len(g) + TakeLen(r, b))
<1> DEFINE f == Frame(p, k, key)
           n == Len(Message(p, k))
           h == HeadLen(n)
           m == TakeLen(r, b)
           q == NextGot(r, b)
           t == TakeNext(r, b)
<1>1. /\ n \in Nat /\ n > 0 /\ ~(n > Room) /\ ~(0 > Room)
      /\ h \in {2, 4, 10} /\ f \in Seq(Nat) /\ Len(f) = h + KeyLen(p) + n /\ KeyLen(p) \in Nat
  BY FrameNumbers
<1>11. p = "client" /\ r = KeyRec(n, g) /\ Part(f, h, 4, g) /\ Follows(f, h + Len(g), b)
  BY DEF AtKey
<1> HIDE DEF f, n, h
<1>12. KeyLen(p) = 4 /\ h \in Nat BY <1>1, <1>11 DEF KeyLen
<1>2. r.got = g /\ r.need = 4 BY <1>11 DEF KeyRec, Rec
<1>3. /\ m \in 1 .. Len(b) /\ q \in Seq(Nat) /\ Len(q) = Len(g) + m /\ Len(q) <= 4
      /\ Len(g) \in Nat /\ \A i \in 1 .. Len(q) : q[i] = f[h + i]
  <2>2. h + 4 <= Len(f) BY <1>1, <1>12
  <2>5. /\ Part(f, h, r.need, r.got) /\ r.need \in Nat /\ h + r.need <= Len(f)
        /\ Follows(f, h + Len(r.got), b)
    BY <1>2, <1>11, <2>2
  <2>6. Within(f, h, r, b) BY <1>1, <1>12, <2>5 DEF Within
  <2>7. Taken(f, h, r, b, q) BY <2>6, TakePart
  <2>8. /\ m \in 1 .. Len(b) /\ q \in Seq(Nat) /\ Len(q) = Len(r.got) + m /\ Len(q) <= r.need
        /\ Len(r.got) \in Nat /\ \A i \in 1 .. Len(q) : q[i] = f[h + i]
    BY <2>7, Zenon DEF Taken
  <2> HIDE DEF m, q
  <2> QED BY <1>2, <2>8
<1>9. \A s : s = WithGot(r, q) =>
          t = IF Len(s.got) = s.need /\ s.stage # "body" THEN Stage(s) ELSE s
  BY TakeNextIs
<1> HIDE DEF m, q, t
<1>4. PICK s : s = WithGot(r, q) /\ s = KeyRec(n, q)
  <2>2. \A x : WithGot(KeyRec(x, g), q) = KeyRec(x, q) BY RecGot, Zenon
  <2>3. WithGot(KeyRec(n, g), q) = KeyRec(n, q) BY <2>2, Zenon
  <2>1. WithGot(r, q) = KeyRec(n, q) BY <1>11, <2>3
  <2> QED BY <2>1
<1>5. s.got = q /\ s.need = 4 /\ s.stage = "key" /\ s.len = n BY <1>4 DEF KeyRec, Rec
<1>6. t = IF Len(q) = 4 THEN Stage(s) ELSE s BY <1>4, <1>5, <1>9
<1>10. m \in Nat /\ h + Len(q) = h + Len(g) + m
  <2>1. PICK x \in Nat : x = Len(b) OBVIOUS
  <2>2. m \in 1 .. x /\ Len(g) \in Nat /\ Len(q) = Len(g) + m BY <1>3, <2>1
  <2> QED BY <1>12, <2>2
<1>7. CASE Len(q) # 4
  <2>1. t = KeyRec(n, q) BY <1>4, <1>6, <1>7
  <2>7. Len(q) < 4
    <3>1. PICK x \in Nat : x = Len(q) BY <1>3
    <3>2. x <= 4 /\ x # 4 BY <1>3, <1>7, <3>1
    <3> QED BY <3>1, <3>2
  <2>2. Part(f, h, 4, q) BY <1>3, <2>7, Zenon DEF Part
  <2>3. Reads(p, k, key, t, h + Len(q))
    <3>2. p = "client" /\ \E x : t = KeyRec(n, x) /\ Part(f, h, 4, x) /\ h + Len(q) = h + Len(x)
      BY <1>11, <2>1, <2>2
    <3> QED BY <3>2, Zenon DEF Reads, f, h, n
  <2>4. h + Len(q) <= Len(f) BY <1>1, <1>3, <1>12
  <2>5. ~TakeDone(t) /\ t.len = n BY <1>4, <1>5, <1>6, <1>7 DEF TakeDone
  <2>6. Progress(p, k, key, t, h + Len(q)) BY <1>1, <2>3, <2>4, <2>5 DEF Progress, f
  <2> QED BY <1>3, <1>10, <2>6 DEF t, m, h, n
<1>8. CASE Len(q) = 4
  <2>1. q = key
    <3>1. key \in Seq(Nat) /\ Len(key) = 4 /\ \A i \in 1 .. 4 : f[h + i] = key[i]
      <4>1. p = "client" => /\ key \in Seq(Nat) /\ Len(key) = 4
                            /\ \A i \in 1 .. 4 : f[h + i] = key[i]
        BY FrameShape DEF f, n, h
      <4> QED BY <1>11, <4>1
    <3>2. \A i \in 1 .. 4 : q[i] = f[h + i] BY <1>3, <1>8
    <3>3. \A i \in 1 .. 4 : q[i] = key[i] BY <3>1, <3>2, Zenon
    <3>4. Len(q) = Len(key) /\ \A i \in 1 .. Len(q) : q[i] = key[i] BY <1>8, <3>1, <3>3
    <3> QED BY <1>3, <3>1, <3>4, SeqEqual
  <2>2. t = Stage(Rec("key", 4, q, TRUE, n, <<>>)) BY <1>4, <1>6, <1>8 DEF KeyRec
  <2>3. t = Rec("body", n, <<>>, TRUE, n, q) BY <2>2, StageKey
  <2>4. t = BodyRec(p, n, <<>>, key) BY <1>11, <2>1, <2>3 DEF BodyRec
  <2>5. Progress(p, k, key, t, h + KeyLen(p)) BY <2>4, Arrives DEF n, h
  <2>6. h + KeyLen(p) = h + Len(g) + m BY <1>8, <1>10, <1>12
  <2> QED BY <1>3, <2>5, <2>6 DEF t, m, h, n
<1> QED BY <1>7, <1>8

\* Within the body, at the end of which AsyncRead has the message.
AtBody(p, k, key, r, g, b) ==
    LET f == Frame(p, k, key)
        n == Len(Message(p, k))
        z == HeadLen(n) + KeyLen(p)
    IN  r = BodyRec(p, n, g, key) /\ Part(f, z, n, g) /\ Follows(f, z + Len(g), b)

LEMMA TakeBody ==
    ASSUME NEW p \in Ends, NEW k \in 1 .. Len(Messages[p]), NEW key \in MaskKeys,
           NEW b \in Seq(Nat), b # <<>>, NEW r, NEW g, AtBody(p, k, key, r, g, b)
    PROVE  /\ TakeLen(r, b) \in 1 .. Len(b)
           /\ Progress(p, k, key, TakeNext(r, b),
                       HeadLen(Len(Message(p, k))) + KeyLen(p) + Len(g) + TakeLen(r, b))
<1> DEFINE f == Frame(p, k, key)
           n == Len(Message(p, k))
           z == HeadLen(n) + KeyLen(p)
           m == TakeLen(r, b)
           q == NextGot(r, b)
           t == TakeNext(r, b)
<1>1. /\ n \in Nat /\ n > 0 /\ ~(n > Room) /\ ~(0 > Room)
      /\ z \in Nat /\ f \in Seq(Nat) /\ Len(f) = z + n
  <2> DEFINE h == HeadLen(n)
  <2>1. /\ n \in Nat /\ n > 0 /\ ~(n > Room) /\ ~(0 > Room)
        /\ h \in {2, 4, 10} /\ f \in Seq(Nat) /\ Len(f) = h + KeyLen(p) + n /\ KeyLen(p) \in Nat
    BY FrameNumbers
  <2>2. z = h + KeyLen(p) OBVIOUS
  <2> HIDE DEF f, n, h, z
  <2> QED BY <2>1, <2>2, SMTT(30)
<1>11. r = BodyRec(p, n, g, key) /\ Part(f, z, n, g) /\ Follows(f, z + Len(g), b)
  BY DEF AtBody
<1> HIDE DEF f, n, z
<1>2. r.got = g /\ r.need = n BY <1>11 DEF BodyRec, Rec
<1>3. /\ m \in 1 .. Len(b) /\ q \in Seq(Nat) /\ Len(q) = Len(g) + m /\ Len(q) <= n
      /\ Len(g) \in Nat /\ \A i \in 1 .. Len(q) : q[i] = f[z + i]
  <2>2. z + n <= Len(f) BY <1>1
  <2>5. /\ Part(f, z, r.need, r.got) /\ r.need \in Nat /\ z + r.need <= Len(f)
        /\ Follows(f, z + Len(r.got), b)
    BY <1>1, <1>2, <1>11, <2>2
  <2>6. Within(f, z, r, b) BY <1>1, <2>5 DEF Within
  <2>7. Taken(f, z, r, b, q) BY <2>6, TakePart
  <2>8. /\ m \in 1 .. Len(b) /\ q \in Seq(Nat) /\ Len(q) = Len(r.got) + m /\ Len(q) <= r.need
        /\ Len(r.got) \in Nat /\ \A i \in 1 .. Len(q) : q[i] = f[z + i]
    BY <2>7, Zenon DEF Taken
  <2> HIDE DEF m, q
  <2> QED BY <1>2, <2>8
<1>9. \A s : s = WithGot(r, q) =>
          t = IF Len(s.got) = s.need /\ s.stage # "body" THEN Stage(s) ELSE s
  BY TakeNextIs
<1> HIDE DEF m, q, t
<1>4. t = BodyRec(p, n, q, key)
  <2>2. WithGot(BodyRec(p, n, g, key), q) = BodyRec(p, n, q, key) BY BodyGot, ZenonT(30)
  <2>6. r = BodyRec(p, n, g, key) BY <1>11
  <2>3. WithGot(r, q) = BodyRec(p, n, q, key) BY <2>2, <2>6, Zenon
  <2>4. PICK s : s = WithGot(r, q) /\ s = BodyRec(p, n, q, key) BY <2>3
  <2>5. s.stage = "body" BY <2>4 DEF BodyRec, Rec
  <2> QED BY <1>9, <2>4, <2>5
<1>5. t.got = q /\ t.need = n /\ t.stage = "body" /\ t.len = n
  <2>1. CASE p = "client" BY <1>4, <2>1 DEF BodyRec, Rec
  <2>2. CASE p # "client" BY <1>4, <2>2 DEF BodyRec, Rec
  <2> QED BY <2>1, <2>2
<1>6. TakeDone(t) <=> Len(q) = n BY <1>5 DEF TakeDone
<1>10. m \in Nat /\ z + Len(q) = z + Len(g) + m /\ z + Len(q) <= Len(f)
  <2>1. PICK x \in Nat : x = Len(b) OBVIOUS
  <2>2. m \in 1 .. x /\ Len(g) \in Nat /\ Len(q) = Len(g) + m /\ Len(q) <= n BY <1>3, <2>1
  <2> QED BY <1>1, <2>2
<1>7. CASE Len(q) # n
  <2>7. Len(q) < n
    <3>1. PICK x \in Nat : x = Len(q) BY <1>3
    <3>2. x <= n /\ x # n BY <1>3, <1>7, <3>1
    <3> QED BY <1>1, <3>1, <3>2
  <2>2. Part(f, z, n, q) BY <1>3, <2>7, Zenon DEF Part
  <2>3. Reads(p, k, key, t, z + Len(q))
    <3>2. \E x : t = BodyRec(p, n, x, key) /\ Part(f, z, n, x) /\ z + Len(q) = z + Len(x)
      BY <1>4, <2>2
    <3> QED BY <3>2, Zenon DEF Reads, f, z, n
  <2>6. Progress(p, k, key, t, z + Len(q)) BY <1>1, <1>5, <1>6, <1>7, <1>10, <2>3 DEF Progress, f
  <2> QED BY <1>3, <1>10, <2>6 DEF t, m, z, n
<1>8. CASE Len(q) = n
  <2>1. /\ Message(p, k) \in Seq({0, 1}) /\ Body(p, k, key) \in Seq(Nat) /\ Len(Body(p, k, key)) = n
        /\ \A i \in 1 .. n : f[z + i] = Body(p, k, key)[i]
    BY FrameShape DEF f, n, z
  <2>2. q = Body(p, k, key)
    <3>1. \A i \in 1 .. n : q[i] = f[z + i] BY <1>3, <1>8
    <3>2. \A i \in 1 .. n : q[i] = Body(p, k, key)[i] BY <2>1, <3>1, Zenon
    <3>3. Len(q) = Len(Body(p, k, key)) /\ \A i \in 1 .. Len(q) : q[i] = Body(p, k, key)[i]
      BY <1>8, <2>1, <3>2
    <3> QED BY <1>3, <2>1, <3>3, SeqEqual
  <2>3. (IF t.mask THEN Masked(t.got, t.key) ELSE t.got) = Message(p, k)
    <3>1. CASE p = "client"
      <4>1. t.mask /\ t.key = key BY <1>4, <3>1 DEF BodyRec, Rec
      <4>2. q = Masked(Message(p, k), key) BY <2>2, <3>1 DEF Body
      <4>3. key \in [1 .. 4 -> {0, 1}] BY MaskAssumption
      <4>4. Masked(Masked(Message(p, k), key), key) = Message(p, k) BY <2>1, <4>3, MaskUndone
      <4> QED BY <1>5, <4>1, <4>2, <4>4
    <3>2. CASE p = "server"
      <4>1. ~t.mask BY <1>4, <3>2 DEF BodyRec, Rec
      <4>2. q = Message(p, k) BY <2>2, <3>2 DEF Body
      <4> QED BY <1>5, <4>1, <4>2
    <3> QED BY <3>1, <3>2 DEF Ends
  <2>4. z + Len(q) = Len(f) /\ t.len # 0 BY <1>1, <1>5, <1>8
  <2>5. Progress(p, k, key, t, z + Len(q))
    BY <1>1, <1>5, <1>6, <1>8, <1>10, <2>3, <2>4 DEF Progress, f
  <2> QED BY <1>3, <1>10, <2>5 DEF t, m, z, n
<1> QED BY <1>7, <1>8

\* Take, anywhere in a frame whose bytes the buffer goes on with.
LEMMA ReadsTake ==
    ASSUME NEW p \in Ends, NEW k \in 1 .. Len(Messages[p]), NEW key \in MaskKeys,
           NEW b \in Seq(Nat), b # <<>>, NEW r, NEW pos,
           Reads(p, k, key, r, pos), Follows(Frame(p, k, key), pos, b)
    PROVE  /\ TakeLen(r, b) \in 1 .. Len(b)
           /\ Progress(p, k, key, TakeNext(r, b), pos + TakeLen(r, b))
<1> DEFINE f == Frame(p, k, key)
           n == Len(Message(p, k))
           h == HeadLen(n)
<1>1. \/ \E g : r = HeadRec(g) /\ Part(f, 0, 2, g) /\ pos = Len(g)
      \/ h > 2 /\ \E g : r = LenRec(p, h - 2, g) /\ Part(f, 2, h - 2, g) /\ pos = 2 + Len(g)
      \/ p = "client" /\ \E g : r = KeyRec(n, g) /\ Part(f, h, 4, g) /\ pos = h + Len(g)
      \/ \E g : /\ r = BodyRec(p, n, g, key) /\ Part(f, h + KeyLen(p), n, g)
                /\ pos = h + KeyLen(p) + Len(g)
  BY Zenon DEF Reads
<1>2. ASSUME NEW g, r = HeadRec(g), Part(f, 0, 2, g), pos = Len(g)
      PROVE  TakeLen(r, b) \in 1 .. Len(b) /\ Progress(p, k, key, TakeNext(r, b), pos + TakeLen(r, b))
  <2>1. Follows(f, Len(g), b) BY <1>2
  <2>2. TakeLen(r, b) \in 1 .. Len(b) /\ Progress(p, k, key, TakeNext(r, b), Len(g) + TakeLen(r, b))
    BY <1>2, <2>1, TakeHead
  <2> QED BY <1>2, <2>2
<1>3. ASSUME h > 2, NEW g, r = LenRec(p, h - 2, g), Part(f, 2, h - 2, g), pos = 2 + Len(g)
      PROVE  TakeLen(r, b) \in 1 .. Len(b) /\ Progress(p, k, key, TakeNext(r, b), pos + TakeLen(r, b))
  <2>1. Follows(f, 2 + Len(g), b) BY <1>3
  <2>2. AtSize(p, k, key, r, g, b) BY <1>3, <2>1, Zenon DEF AtSize
  <2>3. TakeLen(r, b) \in 1 .. Len(b)
        /\ Progress(p, k, key, TakeNext(r, b), 2 + Len(g) + TakeLen(r, b))
    BY <2>2, TakeSize
  <2> QED BY <1>3, <2>3
<1>4. ASSUME p = "client", NEW g, r = KeyRec(n, g), Part(f, h, 4, g), pos = h + Len(g)
      PROVE  TakeLen(r, b) \in 1 .. Len(b) /\ Progress(p, k, key, TakeNext(r, b), pos + TakeLen(r, b))
  <2>1. Follows(f, h + Len(g), b) BY <1>4
  <2>2. AtKey(p, k, key, r, g, b) BY <1>4, <2>1, Zenon DEF AtKey
  <2>3. TakeLen(r, b) \in 1 .. Len(b)
        /\ Progress(p, k, key, TakeNext(r, b), h + Len(g) + TakeLen(r, b))
    BY <2>2, TakeMask
  <2> QED BY <1>4, <2>3
<1>5. ASSUME NEW g, r = BodyRec(p, n, g, key), Part(f, h + KeyLen(p), n, g),
             pos = h + KeyLen(p) + Len(g)
      PROVE  TakeLen(r, b) \in 1 .. Len(b) /\ Progress(p, k, key, TakeNext(r, b), pos + TakeLen(r, b))
  <2>1. Follows(f, h + KeyLen(p) + Len(g), b) BY <1>5
  <2>2. AtBody(p, k, key, r, g, b) BY <1>5, <2>1, Zenon DEF AtBody
  <2>3. TakeLen(r, b) \in 1 .. Len(b)
        /\ Progress(p, k, key, TakeNext(r, b), h + KeyLen(p) + Len(g) + TakeLen(r, b))
    BY <2>2, TakeBody
  <2> QED BY <1>5, <2>3
<1> HIDE DEF f, n, h
<1> QED BY <1>1, <1>2, <1>3, <1>4, <1>5

-----------------------------------------------------------------------------
(***************************************************************************)
(* The stream of an end.  All that p has sent is a sequence s of bytes,    *)
(* frame after frame, where frame j ends at off[j] and was sent with       *)
(* keys[j]; its peer has consumed the first c bytes of it.                 *)
(***************************************************************************)
\* The bytes of x are in s after the first o.
Lies(x, o, s) == \A i \in 1 .. Len(x) : x[i] = s[o + i]

LEMMA LiesCut ==
    ASSUME NEW s, NEW o \in Nat, NEW v \in Seq(Nat), NEW k \in Nat, k <= Len(v), Lies(v, o, s)
    PROVE  /\ SubSeq(v, 1, k) \in Seq(Nat) /\ Len(SubSeq(v, 1, k)) = k
           /\ SubSeq(v, k + 1, Len(v)) \in Seq(Nat) /\ Len(SubSeq(v, k + 1, Len(v))) = Len(v) - k
           /\ Lies(SubSeq(v, 1, k), o, s) /\ Lies(SubSeq(v, k + 1, Len(v)), o + k, s)
<1> DEFINE x == SubSeq(v, 1, k)
           y == SubSeq(v, k + 1, Len(v))
<1>1. PICK m \in Nat : m = Len(v) /\ k <= m OBVIOUS
<1>2. x \in Seq(Nat) /\ Len(x) = k /\ \A i \in 1 .. k : x[i] = v[i] BY CutFirst
<1>3. y \in Seq(Nat) /\ Len(y) = Len(v) - k /\ \A i \in 1 .. Len(v) - k : y[i] = v[k + i]
  <2>1. Len(v) \in Nat /\ Len(v) <= Len(v) BY <1>1
  <2> QED BY <2>1, Cut
<1> HIDE DEF x, y
<1>4. \A i \in 1 .. m : v[i] = s[o + i] BY <1>1 DEF Lies
<1>5. ASSUME NEW i \in 1 .. k PROVE x[i] = s[o + i]
  <2>1. i \in 1 .. m BY <1>1
  <2> QED BY <1>2, <1>4, <2>1
<1>6. ASSUME NEW i \in 1 .. m - k PROVE y[i] = s[o + k + i]
  <2>1. k + i \in 1 .. m /\ o + (k + i) = o + k + i BY <1>1
  <2>2. y[i] = v[k + i] BY <1>1, <1>3
  <2>3. v[k + i] = s[o + (k + i)] BY <1>4, <2>1
  <2> QED BY <2>1, <2>2, <2>3
<1>7. Lies(x, o, s) BY <1>2, <1>5 DEF Lies
<1>8. Lies(y, o + k, s) BY <1>1, <1>3, <1>6 DEF Lies
<1> QED BY <1>2, <1>3, <1>7, <1>8 DEF x, y

LEMMA LiesExtend ==
    ASSUME NEW s \in Seq(Nat), NEW t \in Seq(Nat), NEW x \in Seq(Nat), NEW o \in Nat,
           o + Len(x) <= Len(s), Lies(x, o, s)
    PROVE  Lies(x, o, s \o t)
<1>1. PICK m \in Nat, k \in Nat : m = Len(s) /\ k = Len(x) /\ o + k <= m OBVIOUS
<1>2. \A i \in 1 .. m : (s \o t)[i] = s[i] BY <1>1, Joined
<1>3. ASSUME NEW i \in 1 .. k PROVE x[i] = (s \o t)[o + i]
  <2>1. o + i \in 1 .. m BY <1>1
  <2>2. (s \o t)[o + i] = s[o + i] BY <1>2, <2>1
  <2>3. x[i] = s[o + i] BY <1>1 DEF Lies
  <2> QED BY <2>2, <2>3
<1> QED BY <1>1, <1>3 DEF Lies

LEMMA LiesEnd ==
    ASSUME NEW s \in Seq(Nat), NEW t \in Seq(Nat) PROVE Lies(t, Len(s), s \o t)
BY Joined DEF Lies

LEMMA LiesJoin ==
    ASSUME NEW s, NEW x \in Seq(Nat), NEW y \in Seq(Nat), NEW o \in Nat,
           Lies(x, o, s), Lies(y, o + Len(x), s)
    PROVE  Lies(x \o y, o, s)
<1> DEFINE z == x \o y
<1>1. PICK m \in Nat, k \in Nat : m = Len(x) /\ k = Len(y) OBVIOUS
<1>2. /\ Len(z) = m + k
      /\ \A i \in 1 .. m : z[i] = x[i]
      /\ \A i \in 1 .. k : z[m + i] = y[i]
  BY <1>1, Joined
<1> HIDE DEF z
<1>3. ASSUME NEW i \in 1 .. m + k PROVE z[i] = s[o + i]
  <2>1. CASE i <= m
    <3>1. i \in 1 .. m BY <1>1, <2>1
    <3> QED BY <1>1, <1>2, <3>1 DEF Lies
  <2>2. CASE i > m
    <3>1. PICK j \in 1 .. k : i = m + j
      <4>1. i - m \in 1 .. k /\ i = m + (i - m) BY <1>1, <2>2
      <4> QED BY <4>1
    <3>2. z[m + j] = y[j] BY <1>2
    <3>3. y[j] = s[o + m + j] BY <1>1 DEF Lies
    <3>4. o + m + j = o + i BY <1>1, <3>1
    <3> QED BY <3>1, <3>2, <3>3, <3>4
  <2>3. i <= m \/ i > m BY <1>1
  <2> QED BY <2>1, <2>2, <2>3
<1> QED BY <1>2, <1>3 DEF Lies, z

LEMMA LiesFollows ==
    ASSUME NEW s, NEW f \in Seq(Nat), NEW b \in Seq(Nat), NEW o \in Nat, NEW pos \in Nat,
           Lies(f, o, s), Lies(b, o + pos, s)
    PROVE  Follows(f, pos, b)
<1>1. PICK m \in Nat, k \in Nat : m = Len(f) /\ k = Len(b) OBVIOUS
<1>2. ASSUME NEW i \in 1 .. k, pos + i <= m PROVE b[i] = f[pos + i]
  <2>1. pos + i \in 1 .. m /\ o + (pos + i) = o + pos + i BY <1>2
  <2>2. f[pos + i] = s[o + (pos + i)] BY <1>1, <2>1 DEF Lies
  <2>3. b[i] = s[o + pos + i] BY <1>1 DEF Lies
  <2> QED BY <2>1, <2>2, <2>3
<1> QED BY <1>1, <1>2 DEF Follows

Stream(p, w, s, off, keys) ==
    /\ s \in Seq(Nat) /\ off \in [0 .. w -> Nat] /\ keys \in [1 .. w -> MaskKeys]
    /\ off[0] = 0 /\ off[w] = Len(s) /\ \A j \in 0 .. w : off[j] <= Len(s)
    /\ \A j \in 1 .. w : /\ off[j] = off[j - 1] + Len(Frame(p, j, keys[j]))
                         /\ Lies(Frame(p, j, keys[j]), off[j - 1], s)

\* The reader has b in its buffer and v on the way to it.
Ahead(c, b, v, s, u) ==
    /\ c \in Nat /\ b \in Seq(Nat) /\ v \in Seq(Nat)
    /\ c + Len(b) + Len(v) <= Len(s)
    /\ u => c + Len(b) + Len(v) = Len(s)
    /\ Lies(b, c, s) /\ Lies(v, c + Len(b), s)

\* Its read r is in the frame after the a messages it has returned.
InFrame(p, w, a, r, off, keys, c) ==
    \/ a = w /\ r = Reading /\ c = off[w]
    \/ /\ a < w /\ off[a] <= c
       /\ Reads(p, a + 1, keys[a + 1], r, c - off[a])

CarriedBy(p, w, a, r, b, v, u) ==
    /\ a \in 0 .. w
    /\ \E s, off, keys, c :
           Stream(p, w, s, off, keys) /\ Ahead(c, b, v, s, u) /\ InFrame(p, w, a, r, off, keys, c)

LEMMA ReadsFirst ==
    ASSUME NEW p, NEW k, NEW key PROVE Reads(p, k, key, Reading, 0)
<1>1. Reading = HeadRec(<<>>) BY ReadingRec DEF HeadRec
<1>2. Part(Frame(p, k, key), 0, 2, <<>>)
  <2>1. <<>> \in Seq(Nat) /\ Len(<<>>) = 0 BY Words
  <2>2. \A i \in 1 .. Len(<<>>) : <<>>[i] = Frame(p, k, key)[0 + i] BY <2>1
  <2> QED BY <2>1, <2>2 DEF Part
<1>3. 0 = Len(<<>>) BY Words
<1>4. \E g : Reading = HeadRec(g) /\ Part(Frame(p, k, key), 0, 2, g) /\ 0 = Len(g)
  BY <1>1, <1>2, <1>3
<1> QED BY <1>4, Zenon DEF Reads

\* A handshake that was taken whole leaves nothing.
LEMMA CarriedFirst ==
    ASSUME NEW p, NEW u PROVE CarriedBy(p, 0, 0, Reading, <<>>, <<>>, u)
<1> DEFINE off == [j \in 0 .. 0 |-> 0]
           keys == [j \in 1 .. 0 |-> CHOOSE key \in MaskKeys : TRUE]
<1>1. /\ <<>> \in Seq(Nat) /\ Len(<<>>) = 0 BY Words
<1>2. /\ off \in [0 .. 0 -> Nat] /\ off[0] = 0 /\ \A j \in 0 .. 0 : off[j] <= 0 OBVIOUS
<1>3. keys \in [1 .. 0 -> MaskKeys] OBVIOUS
<1> HIDE DEF off, keys
<1>4. Stream(p, 0, <<>>, off, keys) BY <1>1, <1>2, <1>3 DEF Stream
<1>5. Lies(<<>>, 0, <<>>) BY <1>1 DEF Lies
<1>6. Ahead(0, <<>>, <<>>, <<>>, u)
  <2>1. 0 + Len(<<>>) = 0 /\ 0 + Len(<<>>) + Len(<<>>) = Len(<<>>) BY <1>1
  <2> QED BY <1>1, <1>5, <2>1 DEF Ahead
<1>7. InFrame(p, 0, 0, Reading, off, keys, 0) BY <1>2 DEF InFrame
<1>8. 0 \in 0 .. 0 OBVIOUS
<1> QED BY <1>4, <1>6, <1>7, <1>8 DEF CarriedBy

\* The connection breaks, with or without the bytes on the way.
LEMMA CarriedLoss ==
    ASSUME NEW p, NEW w, NEW a, NEW r, NEW b, NEW v, NEW u, CarriedBy(p, w, a, r, b, v, u)
    PROVE  CarriedBy(p, w, a, r, b, v, FALSE) /\ CarriedBy(p, w, a, r, b, <<>>, FALSE)
<1>1. PICK s, off, keys, c :
        Stream(p, w, s, off, keys) /\ Ahead(c, b, v, s, u) /\ InFrame(p, w, a, r, off, keys, c)
  BY DEF CarriedBy
<1>2. /\ c \in Nat /\ b \in Seq(Nat) /\ v \in Seq(Nat) /\ c + Len(b) + Len(v) <= Len(s)
      /\ Lies(b, c, s) /\ Lies(v, c + Len(b), s)
  BY <1>1 DEF Ahead
<1>3. s \in Seq(Nat) BY <1>1 DEF Stream
<1>4. Ahead(c, b, v, s, FALSE) BY <1>2 DEF Ahead
<1>5. Ahead(c, b, <<>>, s, FALSE)
  <2>1. Lies(<<>>, c + Len(b), s) BY Words DEF Lies
  <2>2. PICK x \in Nat, y \in Nat, z \in Nat : x = Len(b) /\ y = Len(v) /\ z = Len(s) BY <1>2, <1>3
  <2>3. c + x + 0 <= z BY <1>2, <2>2
  <2> QED BY <1>2, <2>1, <2>2, <2>3, Words DEF Ahead
<1>6. a \in 0 .. w BY DEF CarriedBy
<1> QED BY <1>1, <1>4, <1>5, <1>6 DEF CarriedBy

\* Fill moves bytes into the buffer.
LEMMA CarriedFill ==
    ASSUME NEW p, NEW w, NEW a, NEW r, NEW v, NEW u, NEW k \in 1 .. Len(v),
           CarriedBy(p, w, a, r, <<>>, v, u)
    PROVE  CarriedBy(p, w, a, r, SubSeq(v, 1, k), SubSeq(v, k + 1, Len(v)), u)
<1> DEFINE x == SubSeq(v, 1, k)
           y == SubSeq(v, k + 1, Len(v))
<1>1. PICK s, off, keys, c :
        Stream(p, w, s, off, keys) /\ Ahead(c, <<>>, v, s, u) /\ InFrame(p, w, a, r, off, keys, c)
  BY DEF CarriedBy
<1>2. /\ c \in Nat /\ v \in Seq(Nat) /\ c + Len(<<>>) + Len(v) <= Len(s)
      /\ u => c + Len(<<>>) + Len(v) = Len(s)
      /\ Lies(v, c + Len(<<>>), s)
  BY <1>1 DEF Ahead
<1>3. s \in Seq(Nat) BY <1>1 DEF Stream
<1>4. PICK n \in Nat, z \in Nat : n = Len(v) /\ z = Len(s) BY <1>2, <1>3
<1>5. k \in Nat /\ k <= n BY <1>4
<1>6. c + n <= z /\ (u => c + n = z) /\ Lies(v, c, s)
  <2>1. c + Len(<<>>) = c BY <1>2, Words
  <2> QED BY <1>2, <1>4, <2>1
<1>7. x \in Seq(Nat) /\ Len(x) = k /\ y \in Seq(Nat) /\ Len(y) = n - k /\ Lies(x, c, s) /\ Lies(y, c + k, s)
  BY <1>2, <1>4, <1>5, <1>6, LiesCut
<1> HIDE DEF x, y
<1>8. c + k + (n - k) = c + n BY <1>2, <1>4, <1>5
<1>9. Ahead(c, x, y, s, u)
  <2>1. c + Len(x) + Len(y) <= Len(s) /\ (u => c + Len(x) + Len(y) = Len(s)) BY <1>4, <1>6, <1>7, <1>8
  <2>2. Lies(y, c + Len(x), s) BY <1>7
  <2> QED BY <1>2, <1>7, <2>1, <2>2 DEF Ahead
<1>10. a \in 0 .. w BY DEF CarriedBy
<1>11. CarriedBy(p, w, a, r, x, y, u) BY <1>1, <1>9, <1>10 DEF CarriedBy
<1> QED BY <1>11 DEF x, y

\* AsyncWrite adds a frame at the end of the stream.
LEMMA CarriedSend ==
    ASSUME NEW p \in Ends, NEW w \in Nat, w + 1 \in 1 .. Len(Messages[p]), NEW key \in MaskKeys,
           NEW a, NEW r, NEW b, NEW v, CarriedBy(p, w, a, r, b, v, TRUE)
    PROVE  CarriedBy(p, w + 1, a, r, b, v \o Frame(p, w + 1, key), TRUE)
<1> DEFINE f == Frame(p, w + 1, key)
<1>1. PICK s, off, keys, c :
        Stream(p, w, s, off, keys) /\ Ahead(c, b, v, s, TRUE) /\ InFrame(p, w, a, r, off, keys, c)
  BY DEF CarriedBy
<1>2. /\ c \in Nat /\ b \in Seq(Nat) /\ v \in Seq(Nat) /\ c + Len(b) + Len(v) = Len(s)
      /\ Lies(b, c, s) /\ Lies(v, c + Len(b), s)
  BY <1>1 DEF Ahead
<1>3. /\ s \in Seq(Nat) /\ off \in [0 .. w -> Nat] /\ keys \in [1 .. w -> MaskKeys]
      /\ off[0] = 0 /\ off[w] = Len(s) /\ \A j \in 0 .. w : off[j] <= Len(s)
  BY <1>1 DEF Stream
<1>4. \A j \in 1 .. w : /\ off[j] = off[j - 1] + Len(Frame(p, j, keys[j]))
                        /\ Lies(Frame(p, j, keys[j]), off[j - 1], s)
  BY <1>1 DEF Stream
<1>5. f \in Seq(Nat) BY FrameShape
<1> HIDE DEF f
<1>6. PICK x \in Nat, y \in Nat, z \in Nat, l \in Nat :
         x = Len(b) /\ y = Len(v) /\ z = Len(s) /\ l = Len(f) /\ c + x + y = z
  BY <1>2, <1>3, <1>5
<1> DEFINE s1 == s \o f
           off1 == [j \in 0 .. w + 1 |-> IF j = w + 1 THEN z + l ELSE off[j]]
           keys1 == [j \in 1 .. w + 1 |-> IF j = w + 1 THEN key ELSE keys[j]]
<1>7. s1 \in Seq(Nat) /\ Len(s1) = z + l BY <1>3, <1>5, <1>6, Joined
<1>8. ASSUME NEW j \in 0 .. w PROVE off1[j] = off[j] /\ off1[j] \in Nat /\ off1[j] <= z
  <2>1. j \in 0 .. w + 1 /\ j # w + 1 OBVIOUS
  <2>2. off[j] \in Nat /\ off[j] <= z BY <1>3, <1>6
  <2> QED BY <2>1, <2>2
<1>9. off1[w + 1] = z + l
  <2>1. w + 1 \in 0 .. w + 1 OBVIOUS
  <2> QED BY <2>1
<1>10. ASSUME NEW j \in 1 .. w PROVE keys1[j] = keys[j] /\ keys1[j] \in MaskKeys
  <2>1. j \in 1 .. w + 1 /\ j # w + 1 OBVIOUS
  <2>2. keys[j] \in MaskKeys BY <1>3
  <2> QED BY <2>1, <2>2
<1>11. keys1[w + 1] = key
  <2>1. w + 1 \in 1 .. w + 1 OBVIOUS
  <2> QED BY <2>1
<1>12. \A j \in 0 .. w + 1 : j = w + 1 \/ j \in 0 .. w OBVIOUS
<1>13. \A j \in 1 .. w + 1 : j = w + 1 \/ j \in 1 .. w OBVIOUS
<1>14. off1 \in [0 .. w + 1 -> Nat]
  <2>1. \A j \in 0 .. w + 1 : (IF j = w + 1 THEN z + l ELSE off[j]) \in Nat BY <1>3, <1>12
  <2> QED BY <2>1
<1>15. keys1 \in [1 .. w + 1 -> MaskKeys]
  <2>1. \A j \in 1 .. w + 1 : (IF j = w + 1 THEN key ELSE keys[j]) \in MaskKeys BY <1>3, <1>13
  <2> QED BY <2>1
<1> HIDE DEF s1, off1, keys1
<1>16. off1[0] = 0 /\ off1[w] = z /\ \A j \in 0 .. w + 1 : off1[j] <= z + l
  <2>1. 0 \in 0 .. w /\ w \in 0 .. w OBVIOUS
  <2>2. off1[0] = 0 /\ off1[w] = z BY <1>3, <1>6, <1>8, <2>1
  <2>3. ASSUME NEW j \in 0 .. w + 1 PROVE off1[j] <= z + l
    <3>1. CASE j = w + 1 BY <1>9, <3>1
    <3>2. CASE j \in 0 .. w
      <4>1. off1[j] \in Nat /\ off1[j] <= z BY <1>8, <3>2
      <4> QED BY <4>1
    <3> QED BY <1>12, <3>1, <3>2
  <2> QED BY <2>2, <2>3
<1>17. ASSUME NEW j \in 1 .. w + 1
       PROVE  /\ off1[j] = off1[j - 1] + Len(Frame(p, j, keys1[j]))
              /\ Lies(Frame(p, j, keys1[j]), off1[j - 1], s1)
  <2>1. CASE j = w + 1
    <3>1. j - 1 = w /\ Frame(p, j, keys1[j]) = f BY <1>11, <2>1 DEF f
    <3>2. Lies(f, Len(s), s1) BY <1>3, <1>5, LiesEnd DEF s1
    <3>3. Lies(f, off1[j - 1], s1) BY <1>6, <1>16, <3>1, <3>2
    <3>4. off1[j] = off1[j - 1] + Len(f) BY <1>6, <1>9, <1>16, <2>1, <3>1
    <3> QED BY <3>1, <3>3, <3>4
  <2>2. CASE j \in 1 .. w
    <3>1. j - 1 \in 0 .. w /\ j \in 0 .. w BY <2>2
    <3>2. off1[j - 1] = off[j - 1] /\ off1[j] = off[j] /\ keys1[j] = keys[j] BY <1>8, <1>10, <2>2, <3>1
    <3>3. PICK g : g = Frame(p, j, keys[j]) OBVIOUS
    <3>4. off[j] = off[j - 1] + Len(g) /\ Lies(g, off[j - 1], s) BY <1>4, <2>2, <3>3
    <3>5. g \in Seq(Nat)
      <4>1. j \in 1 .. Len(Messages[p]) BY <2>2
      <4>2. keys[j] \in MaskKeys BY <1>3, <2>2
      <4> QED BY <3>3, <4>1, <4>2, FrameShape
    <3>6. off[j - 1] \in Nat /\ off[j] <= Len(s) BY <1>3, <3>1
    <3>7. off[j - 1] + Len(g) <= Len(s) BY <3>4, <3>6
    <3>8. Lies(g, off[j - 1], s1) BY <1>3, <1>5, <3>4, <3>5, <3>6, <3>7, LiesExtend DEF s1
    <3> QED BY <3>2, <3>3, <3>4, <3>8
  <2> QED BY <1>13, <2>1, <2>2
<1>18. Stream(p, w + 1, s1, off1, keys1)
  BY <1>7, <1>9, <1>14, <1>15, <1>16, <1>17, Zenon DEF Stream
<1>19. Ahead(c, b, v \o f, s1, TRUE)
  <2>1. v \o f \in Seq(Nat) /\ Len(v \o f) = y + l BY <1>2, <1>5, <1>6, Joined
  <2>0. c \in Nat /\ c + x + y = z BY <1>2, <1>6
  <2>2. c + x <= z /\ c + x + y <= z /\ c + x \in Nat /\ c + x + (y + l) = z + l BY <2>0
  <2>3. Lies(b, c, s1)
    <3>1. c + Len(b) <= Len(s) BY <1>6, <2>2
    <3> QED BY <1>2, <1>3, <1>5, <3>1, LiesExtend DEF s1
  <2>4. Lies(v, c + x, s1)
    <3>1. c + x + Len(v) <= Len(s) /\ Lies(v, c + x, s) BY <1>2, <1>6, <2>2
    <3> QED BY <1>2, <1>3, <1>5, <2>2, <3>1, LiesExtend DEF s1
  <2>5. Lies(f, c + x + Len(v), s1)
    <3>1. Lies(f, Len(s), s1) BY <1>3, <1>5, LiesEnd DEF s1
    <3>2. c + x + Len(v) = Len(s) BY <1>6
    <3> QED BY <3>1, <3>2
  <2>6. Lies(v \o f, c + x, s1) BY <1>2, <1>5, <2>2, <2>4, <2>5, LiesJoin
  <2>7. c + Len(b) + Len(v \o f) = Len(s1) /\ c + Len(b) + Len(v \o f) <= Len(s1)
    BY <1>6, <1>7, <2>1, <2>2
  <2>8. Lies(v \o f, c + Len(b), s1) BY <1>6, <2>6
  <2> QED BY <1>2, <2>1, <2>3, <2>7, <2>8, Zenon DEF Ahead
<1>20. a \in 0 .. w BY DEF CarriedBy
<1>21. InFrame(p, w + 1, a, r, off1, keys1, c)
  <2>1. CASE a = w /\ r = Reading /\ c = off[w]
    <3>1. off1[a] = c /\ off1[a] <= c /\ c - off1[a] = 0 BY <1>2, <1>3, <1>6, <1>16, <2>1, SMTT(30)
    <3>2. Reads(p, a + 1, keys1[a + 1], r, c - off1[a]) BY <2>1, <3>1, ReadsFirst
    <3>3. a < w + 1 BY <2>1
    <3> QED BY <3>1, <3>2, <3>3 DEF InFrame
  <2>2. CASE a < w /\ off[a] <= c /\ Reads(p, a + 1, keys[a + 1], r, c - off[a])
    <3>1. a + 1 \in 1 .. w /\ a < w + 1 BY <1>20, <2>2
    <3>2. off1[a] = off[a] /\ keys1[a + 1] = keys[a + 1] BY <1>8, <1>10, <1>20, <3>1
    <3> QED BY <2>2, <3>1, <3>2 DEF InFrame
  <2> QED BY <1>1, <2>1, <2>2 DEF InFrame
<1>22. a \in 0 .. w + 1 BY <1>20
<1>23. CarriedBy(p, w + 1, a, r, b, v \o f, TRUE) BY <1>18, <1>19, <1>21, <1>22 DEF CarriedBy
<1> QED BY <1>23 DEF f

\* Take goes on in the frame, and at its end has the next message.
TakeGoesOn(p, w, a, r, b, v, u, t) ==
    /\ ~(t.len > Room) /\ ~(TakeDone(t) /\ t.len = 0)
    /\ ~TakeDone(t) => CarriedBy(p, w, a, t, TakeLeft(r, b), v, u)
    /\ TakeDone(t) => /\ a + 1 \in 1 .. w
                      /\ (IF t.mask THEN Masked(t.got, t.key) ELSE t.got) = Message(p, a + 1)
                      /\ CarriedBy(p, w, a + 1, Reading, TakeLeft(r, b), v, u)

LEMMA CarriedTake ==
    ASSUME NEW p \in Ends, NEW w \in Nat, w <= Len(Messages[p]),
           NEW a, NEW r, NEW b, b # <<>>, NEW v, NEW u, CarriedBy(p, w, a, r, b, v, u)
    PROVE  TakeGoesOn(p, w, a, r, b, v, u, TakeNext(r, b))
<1> DEFINE t == TakeNext(r, b)
           m == TakeLen(r, b)
           d == TakeLeft(r, b)
<1>1. PICK s, off, keys, c :
        Stream(p, w, s, off, keys) /\ Ahead(c, b, v, s, u) /\ InFrame(p, w, a, r, off, keys, c)
  BY DEF CarriedBy
<1>2. /\ c \in Nat /\ b \in Seq(Nat) /\ v \in Seq(Nat) /\ c + Len(b) + Len(v) <= Len(s)
      /\ u => c + Len(b) + Len(v) = Len(s)
      /\ Lies(b, c, s) /\ Lies(v, c + Len(b), s)
  BY <1>1 DEF Ahead
<1>3. /\ s \in Seq(Nat) /\ off \in [0 .. w -> Nat] /\ keys \in [1 .. w -> MaskKeys]
      /\ off[w] = Len(s)
  BY <1>1 DEF Stream
<1>4. PICK x \in Nat, y \in Nat, z \in Nat :
         x = Len(b) /\ y = Len(v) /\ z = Len(s) /\ c + x + y <= z /\ x # 0 /\ (u => c + x + y = z)
  BY <1>2, <1>3, EmptySeq
<1>5. a \in 0 .. w BY DEF CarriedBy
<1>6. a < w /\ off[a] <= c /\ Reads(p, a + 1, keys[a + 1], r, c - off[a])
  <2>1. ~(a = w /\ r = Reading /\ c = off[w])
    <3>1. c # z BY <1>2, <1>4
    <3> QED BY <1>3, <1>4, <3>1
  <2> QED BY <1>1, <2>1 DEF InFrame
<1>7. PICK k \in 1 .. w : k = a + 1 /\ a = k - 1 /\ a \in 0 .. w BY <1>5, <1>6
<1>8. PICK key \in MaskKeys : key = keys[k] BY <1>3
<1>9. PICK o \in Nat, pos \in Nat : o = off[a] /\ pos = c - o /\ c = o + pos
  <2>1. PICK o \in Nat : o = off[a] BY <1>3, <1>7
  <2>2. o <= c /\ c \in Nat BY <1>2, <1>6, <2>1
  <2>3. c - o \in Nat /\ c = o + (c - o) BY <2>2
  <2> QED BY <2>1, <2>3
<1>10. Reads(p, k, key, r, pos) BY <1>6, <1>7, <1>8, <1>9
<1>11. PICK f : f = Frame(p, k, key) OBVIOUS
<1>12. off[k] = o + Len(f) /\ Lies(f, o, s)
  <2>1. off[k] = off[k - 1] + Len(Frame(p, k, keys[k])) /\ Lies(Frame(p, k, keys[k]), off[k - 1], s)
    BY <1>1 DEF Stream
  <2> QED BY <1>7, <1>8, <1>9, <1>11, <2>1
<1>13. k \in 1 .. Len(Messages[p])
  <2>1. Len(Messages[p]) \in Nat BY MessagesAssumption
  <2> QED BY <2>1
<1>14. f \in Seq(Nat) BY <1>11, <1>13, FrameShape
<1>15. Follows(f, pos, b) BY <1>2, <1>9, <1>12, <1>14, LiesFollows
<1>16. m \in 1 .. Len(b) /\ Progress(p, k, key, t, pos + m)
  BY <1>2, <1>10, <1>11, <1>13, <1>15, ReadsTake
<1>17. m \in Nat /\ m <= x /\ m \in 1 .. x BY <1>4, <1>16
<1>18. d = SubSeq(b, m + 1, Len(b)) BY DEF TakeLeft
<1> HIDE DEF m, t, d
<1>19. d \in Seq(Nat) /\ Len(d) = x - m /\ Lies(d, c + m, s)
  <2>1. m \in Nat /\ m <= Len(b) BY <1>4, <1>17
  <2>2. /\ SubSeq(b, m + 1, Len(b)) \in Seq(Nat) /\ Len(SubSeq(b, m + 1, Len(b))) = Len(b) - m
        /\ Lies(SubSeq(b, m + 1, Len(b)), c + m, s)
    <3>1. PICK n \in Nat, j \in Nat, e \in Seq(Nat) : n = c /\ j = m /\ e = b BY <1>2, <2>1
    <3>2. j <= Len(e) /\ Lies(e, n, s) BY <1>2, <2>1, <3>1
    <3>3. /\ SubSeq(e, j + 1, Len(e)) \in Seq(Nat) /\ Len(SubSeq(e, j + 1, Len(e))) = Len(e) - j
          /\ Lies(SubSeq(e, j + 1, Len(e)), n + j, s)
      BY <3>2, LiesCut
    <3> QED BY <3>1, <3>3
  <2> QED BY <1>4, <1>18, <2>2
<1>20. Ahead(c + m, d, v, s, u)
  <2>0. c \in Nat BY <1>2
  <2>1. c + m \in Nat /\ c + m + (x - m) = c + x
    <3>1. m \in Nat BY <1>17
    <3> QED BY <2>0, <3>1
  <2>2. c + m + Len(d) = c + Len(b) BY <1>4, <1>19, <2>1
  <2>3. /\ c + m + Len(d) + Len(v) <= Len(s) /\ (u => c + m + Len(d) + Len(v) = Len(s))
        /\ Lies(v, c + m + Len(d), s)
    BY <1>2, <2>2
  <2> QED BY <1>2, <1>19, <2>1, <2>3, Zenon DEF Ahead
<1>21. /\ pos + m <= Len(f) /\ ~(t.len > Room)
       /\ \/ ~TakeDone(t) /\ Reads(p, k, key, t, pos + m)
          \/ /\ TakeDone(t) /\ t.len # 0 /\ pos + m = Len(f)
             /\ (IF t.mask THEN Masked(t.got, t.key) ELSE t.got) = Message(p, k)
  BY <1>11, <1>16, Zenon DEF Progress
<1>22. c + m = o + (pos + m) /\ c + m \in Nat /\ o <= c + m /\ (c + m) - o = pos + m
  <2>0. c \in Nat /\ m \in Nat /\ c = o + pos BY <1>2, <1>9, <1>17
  <2> QED BY <2>0
<1>23. CASE ~TakeDone(t)
  <2>1. Reads(p, k, key, t, pos + m) BY <1>21, <1>23
  <2>2. a < w /\ off[a] <= c + m /\ Reads(p, a + 1, keys[a + 1], t, (c + m) - off[a])
    BY <1>6, <1>7, <1>8, <1>9, <1>22, <2>1
  <2>3. InFrame(p, w, a, t, off, keys, c + m) BY <2>2 DEF InFrame
  <2>4. CarriedBy(p, w, a, t, d, v, u) BY <1>1, <1>5, <1>20, <2>3 DEF CarriedBy
  <2> QED BY <1>21, <1>23, <2>4 DEF TakeGoesOn, t, d
<1>24. CASE TakeDone(t)
  <2>1. /\ t.len # 0 /\ pos + m = Len(f)
        /\ (IF t.mask THEN Masked(t.got, t.key) ELSE t.got) = Message(p, k)
    BY <1>21, <1>24
  <2>2. c + m = off[k] BY <1>12, <1>22, <2>1
  <2>3. InFrame(p, w, k, Reading, off, keys, c + m)
    <3>1. CASE k = w BY <2>2, <3>1 DEF InFrame
    <3>2. CASE k # w
      <4>1. k < w /\ off[k] <= c + m /\ (c + m) - off[k] = 0 BY <1>22, <2>2, <3>2
      <4>2. Reads(p, k + 1, keys[k + 1], Reading, (c + m) - off[k]) BY <4>1, ReadsFirst
      <4> QED BY <4>1, <4>2 DEF InFrame
    <3> QED BY <3>1, <3>2
  <2>4. k \in 0 .. w OBVIOUS
  <2>5. CarriedBy(p, w, k, Reading, d, v, u) BY <1>1, <1>20, <2>3, <2>4 DEF CarriedBy
  <2>6. /\ ~(t.len > Room) /\ ~(TakeDone(t) /\ t.len = 0) /\ a + 1 \in 1 .. w
        /\ (IF t.mask THEN Masked(t.got, t.key) ELSE t.got) = Message(p, a + 1)
        /\ CarriedBy(p, w, a + 1, Reading, d, v, u)
    BY <1>7, <1>21, <2>1, <2>5
  <2> QED BY <1>24, <2>6, Zenon DEF TakeGoesOn, t, d
<1> QED BY <1>23, <1>24

-----------------------------------------------------------------------------
(***************************************************************************)
(* The messages are exact.                                                 *)
(***************************************************************************)
ExactOf(p, ret) ==
    /\ ret \in Seq(Seq({0, 1})) /\ Len(ret) <= Len(Messages[p])
    /\ \A i \in 1 .. Len(ret) : ret[i] = Messages[p][i]

Carried(e) ==
    CarriedBy(Peer(e), written[Peer(e)], Len(returned[e]), rd[e], rb[e], wire[Peer(e)], up)

MessagesOf(e) == Whole(e) => ExactOf(Peer(e), returned[e]) /\ (pc[e] = "up" => Carried(e))

\* The client writes nothing before the server has taken the handshake.
Unheard == pc["server"] \in {"idle", "wait"} => written["client"] = 0

MInv == Unheard /\ \A e \in Ends : MessagesOf(e)

LEMMA ExactNone == ASSUME NEW p \in Ends PROVE ExactOf(p, <<>>)
<1>1. <<>> \in Seq(Seq({0, 1})) /\ Len(<<>>) = 0 OBVIOUS
<1>2. Len(Messages[p]) \in Nat BY MessagesAssumption
<1> QED BY <1>1, <1>2 DEF ExactOf

LEMMA ExactMeans ==
    ASSUME NEW p \in Ends, NEW ret, ExactOf(p, ret) PROVE ret = SubSeq(Messages[p], 1, Len(ret))
<1>1. /\ ret \in Seq(Seq({0, 1})) /\ Len(ret) <= Len(Messages[p])
      /\ \A i \in 1 .. Len(ret) : ret[i] = Messages[p][i]
  BY DEF ExactOf
<1>2. PICK s \in Seq(Seq({0, 1})) : s = Messages[p] BY MessagesAssumption
<1>3. PICK m \in Nat, k \in Nat : m = Len(ret) /\ k = Len(s) /\ m <= k BY <1>1, <1>2
<1> DEFINE t == SubSeq(s, 1, m)
<1>4. \A i \in 1 .. m : s[i] \in Seq({0, 1}) BY <1>3
<1>5. /\ t \in Seq(Seq({0, 1})) /\ Len(t) = IF 1 <= m THEN m - 1 + 1 ELSE 0
      /\ \A i \in 1 .. m - 1 + 1 : t[i] = s[1 + i - 1]
  BY <1>4, SubSeqProperties
<1> HIDE DEF t
<1>6. Len(t) = m BY <1>5
<1>7. \A i \in 1 .. m : t[i] = s[i]
  <2> SUFFICES ASSUME NEW i \in 1 .. m PROVE t[i] = s[i] OBVIOUS
  <2>1. i \in 1 .. m - 1 + 1 /\ 1 + i - 1 = i OBVIOUS
  <2> QED BY <1>5, <2>1
<1>8. Len(ret) = Len(t) /\ \A i \in 1 .. Len(ret) : ret[i] = t[i] BY <1>1, <1>2, <1>3, <1>6, <1>7
<1>9. ret = t BY <1>1, <1>5, <1>8, SeqEqual
<1> QED BY <1>2, <1>3, <1>9 DEF t

LEMMA ExactAppend ==
    ASSUME NEW p \in Ends, NEW ret, ExactOf(p, ret), NEW w, w \in Nat, w <= Len(Messages[p]),
           Len(ret) + 1 \in 1 .. w, NEW x, x = Message(p, Len(ret) + 1)
    PROVE  ExactOf(p, Append(ret, x)) /\ Len(Append(ret, x)) = Len(ret) + 1
<1>1. /\ ret \in Seq(Seq({0, 1}))
      /\ \A i \in 1 .. Len(ret) : ret[i] = Messages[p][i]
  BY DEF ExactOf
<1>2. PICK m \in Nat, k \in Nat : m = Len(ret) /\ k = Len(Messages[p]) /\ m + 1 <= k
  <2>1. Len(Messages[p]) \in Nat /\ Len(ret) \in Nat BY <1>1, MessagesAssumption
  <2> QED BY <2>1
<1>3. x \in Seq({0, 1})
  <2>1. Messages[p] \in Seq(Seq({0, 1})) BY MessagesAssumption
  <2>2. m + 1 \in 1 .. k BY <1>2
  <2>3. Messages[p][m + 1] \in Seq({0, 1}) BY <1>2, <2>1, <2>2, ElementOfSeq
  <2> QED BY <1>2, <2>3 DEF Message
<1> DEFINE t == Append(ret, x)
<1>4. /\ t \in Seq(Seq({0, 1})) /\ Len(t) = m + 1 /\ t[m + 1] = x
      /\ \A i \in 1 .. m : t[i] = ret[i]
  BY <1>1, <1>2, <1>3, AppendProperties
<1> HIDE DEF t
<1>5. ASSUME NEW i \in 1 .. m + 1 PROVE t[i] = Messages[p][i]
  <2>1. CASE i = m + 1 BY <1>2, <1>4, <2>1 DEF Message
  <2>2. CASE i # m + 1
    <3>1. i \in 1 .. m BY <2>2
    <3> QED BY <1>1, <1>2, <1>4, <3>1
  <2> QED BY <2>1, <2>2
<1>6. ExactOf(p, t) BY <1>2, <1>4, <1>5 DEF ExactOf
<1> QED BY <1>2, <1>4, <1>6 DEF t

\* An end that a step leaves alone, but for the loss of what is on its way.
LEMMA MessagesKept ==
    ASSUME NEW e \in Ends, MessagesOf(e), taken'[e] = taken[e], returned'[e] = returned[e],
           pc'[e] = "up" =>
               /\ pc[e] = "up" /\ rd'[e] = rd[e] /\ rb'[e] = rb[e]
               /\ written'[Peer(e)] = written[Peer(e)]
               /\ \/ up' = up /\ wire'[Peer(e)] = wire[Peer(e)]
                  \/ up' = FALSE /\ wire'[Peer(e)] \in {<<>>, wire[Peer(e)]}
    PROVE  MessagesOf(e)'
<1> SUFFICES ASSUME taken'[e] = Len(Handshake(Peer(e)))
             PROVE  ExactOf(Peer(e), returned'[e]) /\ (pc'[e] = "up" => Carried(e)')
  BY DEF MessagesOf, Whole
<1>1. Whole(e) BY DEF Whole
<1>2. ExactOf(Peer(e), returned'[e]) BY <1>1 DEF MessagesOf
<1>3. ASSUME pc'[e] = "up" PROVE Carried(e)'
  <2>1. CarriedBy(Peer(e), written[Peer(e)], Len(returned[e]), rd[e], rb[e], wire[Peer(e)], up)
    BY <1>1, <1>3 DEF MessagesOf, Carried
  <2>2. CarriedBy(Peer(e), written'[Peer(e)], Len(returned'[e]), rd'[e], rb'[e], wire'[Peer(e)], up')
    <3>1. CASE up' = up /\ wire'[Peer(e)] = wire[Peer(e)] BY <1>3, <2>1, <3>1
    <3>2. CASE up' = FALSE /\ wire'[Peer(e)] \in {<<>>, wire[Peer(e)]}
      <4>1. CarriedBy(Peer(e), written[Peer(e)], Len(returned[e]), rd[e], rb[e], wire'[Peer(e)], FALSE)
        BY <2>1, <3>2, CarriedLoss
      <4> QED BY <1>3, <3>2, <4>1
    <3> QED BY <1>3, <3>1, <3>2
  <2> QED BY <2>2 DEF Carried
<1> QED BY <1>2, <1>3

LEMMA MessagesAccept == ASSUME HInv, MInv, AsyncAccept PROVE MInv'
<1> USE TwoEnds
<1>0. PICK k \in 1 .. Len(wire["client"]) :
         /\ taken' = [taken EXCEPT !["server"] = k]
         /\ LET rest == [wire EXCEPT !["client"] = SubSeq(@, k + 1, Len(@))]
            IN  IF HttpGetHeader(SubSeq(wire["client"], 1, k), SecKey) = NotFound
                THEN Fail("server") /\ wire' = [rest EXCEPT !["server"] = @ \o ErrorPage]
                ELSE /\ pc' = [pc EXCEPT !["server"] = "up"]
                     /\ wire' = [rest EXCEPT !["server"] = @ \o Response]
                     /\ UNCHANGED up
  BY DEF AsyncAccept, HandshakeRead
<1>1. pc["server"] = "wait" /\ UNCHANGED <<rb, rd, written, returned>>
  BY DEF AsyncAccept, HandshakeRead
<1>2. pc \in [Ends -> States] /\ wire \in [Ends -> Seq(Nat)] /\ taken \in [Ends -> Nat]
  BY DEF HInv, Shape
<1>3. wire["client"] = Request /\ pc["client"] # "up" /\ written["client"] = 0
  <2>1. wire["client"] \in {<<>>, Request} /\ pc["client"] # "up" BY <1>1 DEF HInv, ServerWaits
  <2>2. wire["client"] # <<>> BY <1>0, Words
  <2> QED BY <1>1, <2>1, <2>2 DEF MInv, Unheard
<1>4. rb["server"] = <<>> /\ rd["server"] = Reading /\ returned["server"] = <<>>
  BY <1>1 DEF HInv, Fresh
<1>5. pc'["client"] = pc["client"] /\ pc'["server"] \in {"up", "failed"}
  BY <1>0, <1>2 DEF Fail
<1>6. taken'["client"] = taken["client"] /\ taken'["server"] = k BY <1>0, <1>2
<1>7. wire'["client"] = SubSeq(Request, k + 1, Len(Request))
  <2>1. wire'["client"] = SubSeq(wire["client"], k + 1, Len(wire["client"])) BY <1>0, <1>2
  <2> QED BY <1>3, <2>1
<1>8. MessagesOf("client")'
  <2>1. MessagesOf("client") BY DEF MInv
  <2>2. returned'["client"] = returned["client"] /\ pc'["client"] # "up" BY <1>1, <1>3, <1>5
  <2> QED BY <1>6, <2>1, <2>2, MessagesKept
<1>9. MessagesOf("server")'
  <2> SUFFICES ASSUME taken'["server"] = Len(Handshake("client"))
               PROVE  ExactOf("client", returned'["server"]) /\ Carried("server")'
    BY DEF MessagesOf, Whole
  <2>1. Handshake("client") = Request BY DEF Handshake
  <2>2. k = 7
    <3>1. taken'["server"] = 7 BY <2>1, Words
    <3> QED BY <1>6, <3>1
  <2>3. wire'["client"] = <<>>
    <3>1. SubSeq(Request, 8, 7) = <<>> BY DEF Request
    <3>2. k + 1 = 8 /\ Len(Request) = 7 BY <2>2, Words
    <3> QED BY <1>7, <3>1, <3>2
  <2>4. ExactOf("client", returned'["server"]) BY <1>1, <1>4, ExactNone
  <2>5. CarriedBy("client", 0, 0, Reading, <<>>, <<>>, up') BY CarriedFirst
  <2>6. /\ written'["client"] = 0 /\ Len(returned'["server"]) = 0 /\ rd'["server"] = Reading
        /\ rb'["server"] = <<>>
    BY <1>1, <1>3, <1>4, Words
  <2>7. CarriedBy("client", written'["client"], Len(returned'["server"]), rd'["server"], rb'["server"],
                  wire'["client"], up')
    BY <2>3, <2>5, <2>6
  <2> QED BY <2>4, <2>7 DEF Carried
<1>10. Unheard' BY <1>5 DEF Unheard
<1> QED BY <1>8, <1>9, <1>10 DEF MInv, Ends

LEMMA MessagesConnectRead == ASSUME HInv, MInv, ConnectRead PROVE MInv'
<1> USE TwoEnds
<1>0. PICK k \in 1 .. Len(wire["server"]) :
         /\ taken' = [taken EXCEPT !["client"] = k]
         /\ LET rest == [wire EXCEPT !["server"] = SubSeq(@, k + 1, Len(@))]
            IN  IF HttpGetHeader(SubSeq(wire["server"], 1, k), SecAccept) = NotFound
                THEN Fail("client") /\ wire' = [rest EXCEPT !["client"] = @ \o <<>>]
                ELSE /\ pc' = [pc EXCEPT !["client"] = "up"]
                     /\ wire' = [rest EXCEPT !["client"] = @ \o <<>>]
                     /\ UNCHANGED up
  BY DEF ConnectRead, HandshakeRead
<1>1. pc["client"] = "wait" /\ UNCHANGED <<rb, rd, written, returned>>
  BY DEF ConnectRead, HandshakeRead
<1>2. pc \in [Ends -> States] /\ wire \in [Ends -> Seq(Nat)] /\ taken \in [Ends -> Nat]
  BY DEF HInv, Shape
<1>3. wire["server"] \in {<<>>, Response, ErrorPage} /\ written["server"] = 0
  BY <1>1 DEF HInv, ClientWaits
<1>4. rb["client"] = <<>> /\ rd["client"] = Reading /\ returned["client"] = <<>>
  BY <1>1 DEF HInv, Fresh
<1>5. pc'["server"] = pc["server"] /\ (up' = up \/ up' = FALSE)
  BY <1>0, <1>2 DEF Fail
<1>6. taken'["server"] = taken["server"] /\ taken'["client"] = k BY <1>0, <1>2
<1>7. wire'["server"] = SubSeq(wire["server"], k + 1, Len(wire["server"])) /\ wire'["client"] = wire["client"]
  <2>1. wire["client"] \o <<>> = wire["client"] BY <1>2, Concats
  <2> QED BY <1>0, <1>2, <2>1
<1>8. MessagesOf("server")'
  <2>1. MessagesOf("server") BY DEF MInv
  <2>2. /\ returned'["server"] = returned["server"] /\ rd'["server"] = rd["server"]
        /\ rb'["server"] = rb["server"] /\ written'["client"] = written["client"]
    BY <1>1
  <2> QED BY <1>5, <1>6, <1>7, <2>1, <2>2, MessagesKept
<1>9. MessagesOf("client")'
  <2> SUFFICES ASSUME taken'["client"] = Len(Handshake("server"))
               PROVE  ExactOf("server", returned'["client"]) /\ Carried("client")'
    BY DEF MessagesOf, Whole
  <2>1. Handshake("server") = Response BY DEF Handshake
  <2>2. k = 5 BY <1>6, <2>1, Words
  <2>3. wire'["server"] = <<>>
    <3>0. wire["server"] = Response
      <4>1. Len(<<>>) = 0 /\ Len(ErrorPage) = 4 BY Words
      <4>2. 5 \in 1 .. Len(wire["server"]) BY <1>0, <2>2
      <4>3. wire["server"] # <<>> /\ wire["server"] # ErrorPage
        <5>1. 5 \notin 1 .. 0 /\ 5 \notin 1 .. 4 OBVIOUS
        <5> QED BY <4>1, <4>2, <5>1
      <4> QED BY <1>3, <4>3
    <3>1. SubSeq(Response, 6, 5) = <<>> BY DEF Response
    <3>2. k + 1 = 6 /\ Len(Response) = 5 BY <2>2, Words
    <3> QED BY <1>7, <3>0, <3>1, <3>2
  <2>4. ExactOf("server", returned'["client"]) BY <1>1, <1>4, ExactNone
  <2>5. CarriedBy("server", 0, 0, Reading, <<>>, <<>>, up') BY CarriedFirst
  <2>6. /\ written'["server"] = 0 /\ Len(returned'["client"]) = 0 /\ rd'["client"] = Reading
        /\ rb'["client"] = <<>>
    BY <1>1, <1>3, <1>4, Words
  <2>7. CarriedBy("server", written'["server"], Len(returned'["client"]), rd'["client"], rb'["client"],
                  wire'["server"], up')
    BY <2>3, <2>5, <2>6
  <2> QED BY <2>4, <2>7 DEF Carried
<1>10. Unheard' BY <1>1, <1>5 DEF Unheard, MInv
<1> QED BY <1>8, <1>9, <1>10 DEF MInv, Ends

LEMMA MessagesWrite == ASSUME HInv, MInv, NEW f \in Ends, AsyncWrite(f) PROVE MInv'
<1> USE TwoEnds
<1>0. /\ pc[f] = "up" /\ up /\ written[f] < Len(Messages[f])
      /\ written' = [written EXCEPT ![f] = @ + 1] /\ UNCHANGED <<pc, up, rb, rd, returned, taken>>
  BY DEF AsyncWrite, MayWrite
<1>1. PICK key \in MaskKeys : wire' = [wire EXCEPT ![f] = @ \o NextFrame(f, key)]
  BY DEF AsyncWrite, Sends
<1>2. wire \in [Ends -> Seq(Nat)] /\ written \in [Ends -> Nat] /\ Shape BY DEF HInv, Shape
<1>3. written[f] + 1 \in 1 .. Len(Messages[f]) /\ NextFrame(f, key) = Frame(f, written[f] + 1, key)
  BY <1>0, <1>2, NextFrameIs
<1>4. MessagesOf(f)'
  <2>1. MessagesOf(f) BY DEF MInv
  <2>2. wire'[Peer(f)] = wire[Peer(f)] /\ written'[Peer(f)] = written[Peer(f)] BY <1>0, <1>1, <1>2
  <2> QED BY <1>0, <2>1, <2>2, MessagesKept
<1>5. PICK e \in Ends : e = Peer(f) /\ Peer(e) = f BY Zenon
<1>6. MessagesOf(e)'
  <2>1. MessagesOf(e) BY DEF MInv
  <2> SUFFICES ASSUME taken'[e] = Len(Handshake(f))
               PROVE  ExactOf(f, returned'[e]) /\ (pc'[e] = "up" => Carried(e)')
    BY <1>5 DEF MessagesOf, Whole
  <2>2. Whole(e) BY <1>0, <1>5 DEF Whole
  <2>3. ExactOf(f, returned'[e]) BY <1>0, <1>5, <2>1, <2>2 DEF MessagesOf
  <2>4. ASSUME pc'[e] = "up" PROVE Carried(e)'
    <3>1. pc[e] = "up" /\ up = TRUE
      <4>1. up \in BOOLEAN BY DEF HInv, Shape
      <4> QED BY <1>0, <2>4, <4>1
    <3>2. CarriedBy(f, written[f], Len(returned[e]), rd[e], rb[e], wire[f], TRUE)
      BY <1>5, <2>1, <2>2, <3>1 DEF MessagesOf, Carried
    <3>3. written[f] \in Nat BY <1>2
    <3>4. CarriedBy(f, written[f] + 1, Len(returned[e]), rd[e], rb[e],
                    wire[f] \o Frame(f, written[f] + 1, key), TRUE)
      BY <1>3, <3>2, <3>3, CarriedSend
    <3>5. /\ written'[f] = written[f] + 1 /\ wire'[f] = wire[f] \o Frame(f, written[f] + 1, key)
          /\ returned'[e] = returned[e] /\ rd'[e] = rd[e] /\ rb'[e] = rb[e] /\ up' = TRUE
      BY <1>0, <1>1, <1>2, <1>3, <3>1
    <3>6. CarriedBy(f, written'[f], Len(returned'[e]), rd'[e], rb'[e], wire'[f], up')
      BY <3>4, <3>5
    <3> QED BY <1>5, <3>6 DEF Carried
  <2> QED BY <2>3, <2>4
<1>7. \A g \in Ends : g = f \/ g = e BY <1>5, Zenon
<1>8. Unheard'
  <2>1. ASSUME pc["server"] \in {"idle", "wait"} PROVE f # "client"
    BY <1>0, <2>1 DEF HInv, ServerWaits
  <2> QED BY <1>0, <1>2, <2>1 DEF Unheard, MInv
<1> QED BY <1>4, <1>6, <1>7, <1>8 DEF MInv

LEMMA MessagesFill == ASSUME HInv, MInv, NEW f \in Ends, Fill(f) PROVE MInv'
<1> USE TwoEnds
<1>0. pc[f] = "up" /\ rb[f] = <<>> /\ UNCHANGED <<pc, up, rd, written, returned, taken>> BY DEF Fill
<1>1. PICK k \in 1 .. Len(wire[Peer(f)]) :
         /\ rb' = [rb EXCEPT ![f] = SubSeq(wire[Peer(f)], 1, k)]
         /\ wire' = [wire EXCEPT ![Peer(f)] = SubSeq(@, k + 1, Len(@))]
  BY DEF Fill
<1>2. wire \in [Ends -> Seq(Nat)] /\ rb \in [Ends -> Seq(Nat)] BY DEF HInv, Shape
<1>3. PICK e \in Ends : e = Peer(f) /\ Peer(e) = f /\ e # f BY Zenon
<1>4. MessagesOf(e)'
  <2>1. MessagesOf(e) BY DEF MInv
  <2>2. rb'[e] = rb[e] /\ wire'[f] = wire[f] BY <1>1, <1>2, <1>3
  <2> QED BY <1>0, <1>3, <2>1, <2>2, MessagesKept
<1>5. MessagesOf(f)'
  <2>1. MessagesOf(f) BY DEF MInv
  <2> SUFFICES ASSUME taken'[f] = Len(Handshake(e))
               PROVE  ExactOf(e, returned'[f]) /\ Carried(f)'
    BY <1>3 DEF MessagesOf, Whole
  <2>2. Whole(f) BY <1>0, <1>3 DEF Whole
  <2>3. ExactOf(e, returned'[f]) BY <1>0, <1>3, <2>1, <2>2 DEF MessagesOf
  <2>4. CarriedBy(e, written[e], Len(returned[f]), rd[f], <<>>, wire[e], up)
    BY <1>0, <1>3, <2>1, <2>2 DEF MessagesOf, Carried
  <2>5. k \in 1 .. Len(wire[e]) BY <1>3
  <2>6. CarriedBy(e, written[e], Len(returned[f]), rd[f], SubSeq(wire[e], 1, k),
                  SubSeq(wire[e], k + 1, Len(wire[e])), up)
    BY <2>4, <2>5, CarriedFill
  <2>7. rb'[f] = SubSeq(wire[e], 1, k) /\ wire'[e] = SubSeq(wire[e], k + 1, Len(wire[e]))
    BY <1>1, <1>2, <1>3
  <2>8. CarriedBy(e, written'[e], Len(returned'[f]), rd'[f], rb'[f], wire'[e], up')
    BY <1>0, <2>6, <2>7
  <2> QED BY <1>3, <2>3, <2>8 DEF Carried
<1>6. \A g \in Ends : g = f \/ g = e BY <1>3, Zenon
<1>7. Unheard' BY <1>0 DEF Unheard, MInv
<1> QED BY <1>4, <1>5, <1>6, <1>7 DEF MInv

LEMMA MessagesTake == ASSUME HInv, MInv, NEW f \in Ends, Take(f) PROVE MInv'
<1> USE TwoEnds
<1> DEFINE t == TakeNext(rd[f], rb[f])
           x == IF t.mask THEN Masked(t.got, t.key) ELSE t.got
<1>0. /\ pc[f] = "up" /\ rb[f] # <<>>
      /\ rb' = [rb EXCEPT ![f] = TakeLeft(rd[f], rb[f])]
      /\ UNCHANGED <<wire, written, taken>>
      /\ \/ Fail(f) /\ UNCHANGED <<rd, returned>> /\ (t.len > Room \/ (TakeDone(t) /\ t.len = 0))
         \/ /\ ~(t.len > Room \/ (TakeDone(t) /\ t.len = 0))
            /\ rd' = [rd EXCEPT ![f] = IF TakeDone(t) THEN Reading ELSE t]
            /\ returned' = [returned EXCEPT ![f] = IF TakeDone(t) THEN Append(@, x) ELSE @]
            /\ UNCHANGED <<pc, up>>
  BY TakeIs
<1> HIDE DEF t, x
<1>1. /\ pc \in [Ends -> States] /\ rb \in [Ends -> Seq(Nat)] /\ DOMAIN rd = Ends /\ DOMAIN returned = Ends
      /\ written \in [Ends -> Nat] /\ \A g \in Ends : written[g] <= Len(Messages[g])
  BY DEF HInv, Shape
<1>2. PICK e \in Ends : e = Peer(f) /\ Peer(e) = f /\ e # f BY Zenon
<1>3. rb'[e] = rb[e] /\ rb'[f] = TakeLeft(rd[f], rb[f]) BY <1>0, <1>1, <1>2
<1>4. rd'[e] = rd[e] /\ returned'[e] = returned[e] BY <1>0, <1>1, <1>2
<1>5. pc'[e] = pc[e] /\ (up' = up \/ up' = FALSE) BY <1>0, <1>1, <1>2 DEF Fail
<1>6. MessagesOf(e)'
  <2>1. MessagesOf(e) BY DEF MInv
  <2> QED BY <1>0, <1>2, <1>3, <1>4, <1>5, <2>1, MessagesKept
<1>7. MessagesOf(f)'
  <2>1. MessagesOf(f) BY DEF MInv
  <2> SUFFICES ASSUME taken'[f] = Len(Handshake(e))
               PROVE  ExactOf(e, returned'[f]) /\ (pc'[f] = "up" => Carried(f)')
    BY <1>2 DEF MessagesOf, Whole
  <2>2. Whole(f) BY <1>0, <1>2 DEF Whole
  <2>3. ExactOf(e, returned[f]) BY <1>2, <2>1, <2>2 DEF MessagesOf
  <2>4. CarriedBy(e, written[e], Len(returned[f]), rd[f], rb[f], wire[e], up)
    BY <1>0, <1>2, <2>1, <2>2 DEF MessagesOf, Carried
  <2>5. written[e] \in Nat /\ written[e] <= Len(Messages[e]) BY <1>1
  <2>6. TakeGoesOn(e, written[e], Len(returned[f]), rd[f], rb[f], wire[e], up, t)
    BY <1>0, <2>4, <2>5, CarriedTake DEF t
  <2>7. /\ ~(t.len > Room) /\ ~(TakeDone(t) /\ t.len = 0)
        /\ ~TakeDone(t) => CarriedBy(e, written[e], Len(returned[f]), t, TakeLeft(rd[f], rb[f]), wire[e], up)
        /\ TakeDone(t) =>
              /\ Len(returned[f]) + 1 \in 1 .. written[e] /\ x = Message(e, Len(returned[f]) + 1)
              /\ CarriedBy(e, written[e], Len(returned[f]) + 1, Reading, TakeLeft(rd[f], rb[f]), wire[e], up)
    BY <2>6, Zenon DEF TakeGoesOn, x
  <2>8. /\ rd'[f] = IF TakeDone(t) THEN Reading ELSE t
        /\ returned'[f] = IF TakeDone(t) THEN Append(returned[f], x) ELSE returned[f]
        /\ up' = up
    BY <1>0, <1>1, <2>7
  <2>9. CASE ~TakeDone(t)
    <3>1. rd'[f] = t /\ returned'[f] = returned[f] BY <2>8, <2>9
    <3>2. CarriedBy(e, written'[e], Len(returned'[f]), rd'[f], rb'[f], wire'[e], up')
      BY <1>0, <1>3, <2>7, <2>8, <2>9, <3>1
    <3> QED BY <1>2, <2>3, <3>1, <3>2 DEF Carried
  <2>10. CASE TakeDone(t)
    <3>1. rd'[f] = Reading /\ returned'[f] = Append(returned[f], x) BY <2>8, <2>10
    <3>2. Len(returned[f]) + 1 \in 1 .. written[e] /\ x = Message(e, Len(returned[f]) + 1)
      BY <2>7, <2>10
    <3>3. ExactOf(e, Append(returned[f], x)) /\ Len(Append(returned[f], x)) = Len(returned[f]) + 1
      BY <2>3, <2>5, <3>2, ExactAppend
    <3>4. CarriedBy(e, written'[e], Len(returned'[f]), rd'[f], rb'[f], wire'[e], up')
      BY <1>0, <1>3, <2>7, <2>8, <2>10, <3>1, <3>3
    <3> QED BY <1>2, <3>1, <3>3, <3>4 DEF Carried
  <2> QED BY <2>9, <2>10
<1>8. \A g \in Ends : g = f \/ g = e BY <1>2, Zenon
<1>9. Unheard'
  <2>1. pc'["server"] \in {"idle", "wait"} => pc["server"] = pc'["server"]
    BY <1>0, <1>1 DEF Fail
  <2> QED BY <1>0, <2>1 DEF Unheard, MInv
<1> QED BY <1>6, <1>7, <1>8, <1>9 DEF MInv

LEMMA MessagesStep == ASSUME HandshakeInv, MInv, [Next]_vars PROVE MInv'
<1> USE TwoEnds
<1>0. HInv /\ (\A e \in Ends : MessagesOf(e)) /\ Unheard BY DEF HandshakeInv, MInv
<1>1. pc \in [Ends -> States] /\ wire \in [Ends -> Seq(Nat)] /\ up \in BOOLEAN BY <1>0 DEF HInv, Shape
<1>2. ASSUME UNCHANGED <<pc, up, wire, rb, rd, written, returned, taken>> PROVE MInv'
  <2>1. ASSUME NEW e \in Ends PROVE MessagesOf(e)' BY <1>0, <1>2, MessagesKept
  <2> QED BY <1>0, <1>2, <2>1 DEF MInv, Unheard
<1>3. CASE UNCHANGED vars BY <1>2, <1>3 DEF vars
<1>4. CASE StartMuxServer \/ AcceptFails \/ Quiet
  BY <1>2, <1>4 DEF StartMuxServer, AcceptFails, Quiet, vars
<1>5. CASE NewConnection
  <2>1. /\ pc' = [pc EXCEPT !["client"] = "open", !["server"] = "wait"] /\ pc["client"] = "idle"
        /\ UNCHANGED <<wire, rb, rd, written, returned, taken>>
    BY <1>5 DEF NewConnection
  <2>2. pc'["client"] = "open" /\ pc'["server"] = "wait" BY <1>1, <2>1
  <2>3. ASSUME NEW e \in Ends PROVE MessagesOf(e)'
    <3>1. pc'[e] # "up" BY <2>2 DEF Ends
    <3> QED BY <1>0, <2>1, <3>1, MessagesKept
  <2>4. written["client"] = 0 BY <1>0, <2>1 DEF HInv, Fresh
  <2> QED BY <2>1, <2>3, <2>4 DEF MInv, Unheard
<1>6. CASE Break
  <2>1. up' = FALSE /\ wire' = None /\ UNCHANGED <<pc, rb, rd, written, returned, taken>>
    BY <1>6 DEF Break
  <2>2. ASSUME NEW e \in Ends PROVE MessagesOf(e)'
    <3>1. wire'[Peer(e)] = <<>> BY <2>1 DEF None
    <3> QED BY <1>0, <2>1, <3>1, MessagesKept
  <2> QED BY <1>0, <2>1, <2>2 DEF MInv, Unheard
<1>7. CASE ConnectWrite
  <2>1. /\ pc["client"] = "open" /\ pc' = [pc EXCEPT !["client"] = "wait"]
        /\ UNCHANGED <<up, rb, rd, written, returned, taken>>
    BY <1>7 DEF ConnectWrite
  <2>2. pc["server"] # "up" BY <1>0, <2>1 DEF HInv, ClientWaits
  <2>3. pc'["client"] = "wait" /\ pc'["server"] = pc["server"] BY <1>1, <2>1
  <2>4. ASSUME NEW e \in Ends PROVE MessagesOf(e)'
    <3>1. pc'[e] # "up" BY <2>2, <2>3 DEF Ends
    <3> QED BY <1>0, <2>1, <3>1, MessagesKept
  <2> QED BY <1>0, <2>1, <2>3, <2>4 DEF MInv, Unheard
<1>8. CASE AsyncAccept BY <1>0, <1>8, MessagesAccept
<1>9. CASE ConnectRead BY <1>0, <1>9, MessagesConnectRead
<1>10. ASSUME NEW f \in Ends, AsyncWrite(f) PROVE MInv' BY <1>0, <1>10, MessagesWrite
<1>11. ASSUME NEW f \in Ends, Fill(f) PROVE MInv' BY <1>0, <1>11, MessagesFill
<1>12. ASSUME NEW f \in Ends, Take(f) PROVE MInv' BY <1>0, <1>12, MessagesTake
<1>13. ASSUME NEW f \in Ends, IoFails(f) PROVE MInv'
  <2>1. /\ pc' = [pc EXCEPT ![f] = "failed"] /\ up' = FALSE
        /\ UNCHANGED <<wire, rb, rd, written, returned, taken>>
    BY <1>13 DEF IoFails, Fail
  <2>2. ASSUME NEW e \in Ends PROVE MessagesOf(e)'
    <3>1. pc'[e] = "up" => pc[e] = "up" BY <1>1, <2>1
    <3>2. /\ taken'[e] = taken[e] /\ returned'[e] = returned[e] /\ rd'[e] = rd[e] /\ rb'[e] = rb[e]
          /\ written'[Peer(e)] = written[Peer(e)] /\ up' = FALSE
          /\ wire'[Peer(e)] \in {<<>>, wire[Peer(e)]} /\ MessagesOf(e)
      BY <1>0, <2>1
    <3> QED BY <3>1, <3>2, MessagesKept
  <2>3. pc'["server"] \in {"idle", "wait"} => pc["server"] = pc'["server"] BY <1>1, <2>1
  <2> QED BY <1>0, <2>1, <2>2, <2>3 DEF MInv, Unheard
<1> QED
  BY <1>3, <1>4, <1>5, <1>6, <1>7, <1>8, <1>9, <1>10, <1>11, <1>12, <1>13 DEF Next, AsyncRead

\* However TCP cuts the stream and whenever it breaks, with any messages and any
\* keys: an end whose one read of the handshake took all of it returns the
\* messages of its peer from AsyncRead, whole, unmasked and in order.
THEOREM MessagesAreExact == Spec => []MessagesExact
<1>1. ASSUME Init PROVE MInv
  <2>1. written["client"] = 0 BY <1>1, TwoEnds DEF Init
  <2>2. ASSUME NEW e \in Ends PROVE ~Whole(e)
    <3>1. taken[e] = 0 BY <1>1 DEF Init
    <3>2. Len(Handshake(Peer(e))) = 5 \/ Len(Handshake(Peer(e))) = 7 BY Words DEF Handshake
    <3>3. taken[e] # Len(Handshake(Peer(e)))
      <4>1. 0 # 5 /\ 0 # 7 OBVIOUS
      <4> QED BY <3>1, <3>2, <4>1, Zenon
    <3> QED BY <3>3 DEF Whole
  <2> QED BY <2>1, <2>2 DEF MInv, Unheard, MessagesOf
<1>2. HandshakeInv /\ MInv /\ [Next]_vars => MInv' BY MessagesStep
<1>3. MInv => MessagesExact
  <2> SUFFICES ASSUME MInv, NEW e \in Ends, Whole(e)
               PROVE  returned[e] = SubSeq(Messages[Peer(e)], 1, Len(returned[e]))
    BY DEF MessagesExact
  <2>1. ExactOf(Peer(e), returned[e]) /\ Peer(e) \in Ends BY TwoEnds DEF MInv, MessagesOf
  <2> QED BY <2>1, ExactMeans
<1> QED BY <1>1, <1>2, <1>3, HandshakeHolds, PTL DEF Spec
=============================================================================
