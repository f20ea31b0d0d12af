------------------------ MODULE SocketReaderProofs ------------------------
(***************************************************************************)
(* Proofs about SocketReader, for any set of messages, any size of a byte, *)
(* any way to cut the stream and a reset at any moment.                    *)
(*                                                                         *)
(* The inductive invariant says where the messages that were not delivered *)
(* are: the bytes the reader holds, those that have arrived and those      *)
(* under way are together the frames of these messages, one after another  *)
(* (IsFrames).  To say that without a recursive definition it asks for the *)
(* places at which the frames start.                                       *)
(***************************************************************************)
EXTENDS SocketReader, SequenceTheorems, TLAPS

ReaderType ==
  [state : {"READING_HEADER", "READING_BODY"},
   header : Seq(Byte), body : Seq(Byte), pos : Int, remain : Nat]

\* The reader's counters agree with its buffers.
Reading(r) ==
  /\ r \in ReaderType
  /\ Len(r.header) = HeaderSize
  /\ r.state = "READING_HEADER" =>
       r.body = << >> /\ r.pos \in 0..HeaderSize /\ r.remain = HeaderSize - r.pos
  /\ r.state = "READING_BODY" =>
       /\ Len(r.body) = BodySize(r.header)
       /\ r.pos \in 0..Len(r.body) /\ r.remain = Len(r.body) - r.pos

\* The bytes of the message being read that have been received.
Held(r) ==
  IF r.state = "READING_HEADER" THEN SubSeq(r.header, 1, r.pos)
                                ELSE r.header \o SubSeq(r.body, 1, r.pos)

\* The bytes of all messages that were not delivered.
Ahead == Held(reader) \o (arrived \o network)

\* In s, the frame of ms[i] starts behind byte start[i], for each i > d, and
\* there is nothing else in s.
FramesAt(start, s, ms, d) ==
  /\ start[d + 1] = 0 /\ start[Len(ms) + 1] = Len(s)
  /\ \A i \in (d + 1)..Len(ms) :
       /\ start[i + 1] = start[i] + Len(Encode(ms[i]))
       /\ \A k \in 1..Len(Encode(ms[i])) : s[start[i] + k] = Encode(ms[i])[k]
  /\ \A i, j \in (d + 1)..(Len(ms) + 1) : i <= j => start[i] <= start[j]

IsFrames(s, ms, d) ==
  \E start \in [(d + 1)..(Len(ms) + 1) -> 0..Len(s)] : FramesAt(start, s, ms, d)

ReaderInv ==
  /\ TypeOK
  /\ Len(delivered) <= Len(sent)
  /\ ~broken => /\ Reading(reader) /\ reader.remain > 0
                /\ IsFrames(Ahead, sent, Len(delivered))

---------------------------------------------------------------------------
(* The encoding.                                                           *)

\* A length is the sum of its two digits, each of which fits in a byte.
LEMMA LengthDigits ==
  ASSUME NEW L \in Nat, L < ByteBase * ByteBase
  PROVE  /\ L % ByteBase \in Byte /\ L \div ByteBase \in Byte
         /\ (L % ByteBase) + ByteBase * (L \div ByteBase) = L
<1> DEFINE q == L \div ByteBase
<1> DEFINE m == L % ByteBase
<1>1. ByteBase \in Nat \ {0}
  BY ReaderAssumption
<1>2. m \in Nat /\ q \in Nat /\ m < ByteBase
  BY <1>1, SMT
<1>3. m + ByteBase * q = L
  BY <1>1, SMT
<1> HIDE DEF m, q
<1>4. q < ByteBase
  <2>1. SUFFICES ASSUME q >= ByteBase PROVE FALSE
    BY <1>1, <1>2
  <2>2. ByteBase * q >= ByteBase * ByteBase
    BY <1>1, <1>2, <2>1, SMT
  <2> QED BY <1>1, <1>2, <1>3, <2>2
<1>5. m \in Byte /\ q \in Byte
  BY <1>1, <1>2, <1>4 DEF Byte
<1> QED BY <1>3, <1>5 DEF m, q

\* What is in the frame of a message.
LEMMA EncodeFrame ==
  ASSUME NEW m \in Messages
  PROVE  /\ Encode(m) \in Seq(Byte)
         /\ Len(m.body) \in Nat /\ Len(Encode(m)) = HeaderSize + Len(m.body)
         /\ Encode(m)[1] = m.id
         /\ BodySize(Encode(m)) = Len(m.body)
         /\ \A k \in 1..Len(m.body) : Encode(m)[HeaderSize + k] = m.body[k]
<1> DEFINE L == Len(m.body)
<1>1. m \in [id : Byte, body : Seq(Byte)] /\ L < ByteBase * ByteBase
  BY ReaderAssumption
<1>2. m.body \in Seq(Byte) /\ m.id \in Byte /\ L \in Nat
  BY <1>1
<1>3. L % ByteBase \in Byte /\ L \div ByteBase \in Byte
      /\ (L % ByteBase) + ByteBase * (L \div ByteBase) = L
  BY <1>1, <1>2, LengthDigits
<1> DEFINE h == <<m.id, L % ByteBase, L \div ByteBase>>
<1>4. h \in Seq(Byte) /\ Len(h) = 3
  BY <1>2, <1>3
<1>5. h[1] = m.id /\ h[2] = L % ByteBase /\ h[3] = L \div ByteBase
  OBVIOUS
<1>6. Encode(m) = h \o m.body
  BY DEF Encode
<1> HIDE DEF h, L
<1>7. /\ h \o m.body \in Seq(Byte) /\ Len(h \o m.body) = 3 + Len(m.body)
      /\ \A i \in 1..(3 + Len(m.body)) :
           (h \o m.body)[i] = IF i <= 3 THEN h[i] ELSE m.body[i - 3]
  <2> DEFINE b == m.body
  <2>1. h \in Seq(Byte) /\ b \in Seq(Byte) /\ Len(h) = 3
    BY <1>2, <1>4
  <2> HIDE DEF b
  <2>2. /\ h \o b \in Seq(Byte) /\ Len(h \o b) = Len(h) + Len(b)
        /\ \A i \in 1..(Len(h) + Len(b)) :
             (h \o b)[i] = IF i <= Len(h) THEN h[i] ELSE b[i - Len(h)]
    BY <2>1, ConcatProperties
  <2>3. /\ h \o b \in Seq(Byte) /\ Len(h \o b) = 3 + Len(b)
        /\ \A i \in 1..(3 + Len(b)) :
             (h \o b)[i] = IF i <= 3 THEN h[i] ELSE b[i - 3]
    BY <2>1, <2>2
  <2> QED BY <2>3 DEF b
<1>8. (h \o m.body)[1] = h[1] /\ (h \o m.body)[2] = h[2] /\ (h \o m.body)[3] = h[3]
  BY <1>2, <1>7 DEF L
<1>9. \A k \in 1..Len(m.body) : (h \o m.body)[3 + k] = m.body[k]
  BY <1>2, <1>7 DEF L
<1>10. BodySize(h \o m.body) = L
  BY <1>3, <1>5, <1>8 DEF BodySize
<1> QED BY <1>2, <1>5, <1>6, <1>7, <1>8, <1>9, <1>10 DEF HeaderSize, L

\* The length of a body is never negative.
LEMMA BodySizeNat ==
  ASSUME NEW h \in Seq(Byte), Len(h) >= HeaderSize
  PROVE  BodySize(h) \in Nat
<1>1. h[2] \in Byte /\ h[3] \in Byte /\ ByteBase \in Nat
  BY ReaderAssumption DEF HeaderSize
<1>2. h[2] \in Nat /\ h[3] \in Nat
  BY <1>1 DEF Byte
<1>3. ByteBase * h[3] \in Nat
  BY <1>1, <1>2, SMT
<1> QED BY <1>2, <1>3 DEF BodySize

\* A new buffer is a sequence of bytes.
LEMMA ZerosType ==
  ASSUME NEW n \in Nat
  PROVE  Zeros(n) \in Seq(Byte) /\ Len(Zeros(n)) = n
<1>1. 0 \in Byte
  BY ReaderAssumption DEF Byte
<1> QED BY <1>1 DEF Zeros

---------------------------------------------------------------------------
(* The frames.                                                             *)

\* A frame may be put behind the others.
LEMMA FramesNew ==
  ASSUME NEW s \in Seq(Byte), NEW ms \in Seq(Messages), NEW d \in 0..Len(ms),
         NEW m \in Messages, IsFrames(s, ms, d)
  PROVE  IsFrames(s \o Encode(m), Append(ms, m), d)
<1> DEFINE n == Len(ms)
<1> DEFINE e == Encode(m)
<1> DEFINE t == s \o e
<1> DEFINE ns == Append(ms, m)
<1>1. PICK start \in [(d + 1)..(n + 1) -> 0..Len(s)] : FramesAt(start, s, ms, d)
  BY DEF IsFrames
<1>2. e \in Seq(Byte) /\ Len(e) \in Nat
  BY EncodeFrame
<1>3. Len(s) \in Nat /\ n \in Nat
  OBVIOUS
<1> HIDE DEF e
<1>4. /\ t \in Seq(Byte) /\ Len(t) = Len(s) + Len(e)
      /\ \A i \in 1..(Len(s) + Len(e)) : t[i] = IF i <= Len(s) THEN s[i] ELSE e[i - Len(s)]
  BY <1>2, ConcatProperties
<1>5. Len(ns) = n + 1 /\ ns[n + 1] = m /\ \A i \in 1..n : ns[i] = ms[i]
  BY AppendProperties
<1> DEFINE next == [i \in (d + 1)..(n + 2) |-> IF i = n + 2 THEN Len(t) ELSE start[i]]
<1> HIDE DEF t, ns
<1>6. next \in [(d + 1)..(Len(ns) + 1) -> 0..Len(t)]
  BY <1>2, <1>3, <1>4, <1>5
<1>7. next[d + 1] = 0 /\ next[Len(ns) + 1] = Len(t)
  BY <1>1, <1>3, <1>5 DEF FramesAt
<1>8. ASSUME NEW i \in (d + 1)..Len(ns)
      PROVE  /\ next[i + 1] = next[i] + Len(Encode(ns[i]))
             /\ \A k \in 1..Len(Encode(ns[i])) : t[next[i] + k] = Encode(ns[i])[k]
  <2>1. CASE i = n + 1
    <3>1. next[i] = Len(s) /\ next[i + 1] = Len(t) /\ ns[i] = m
      BY <1>1, <1>3, <1>5, <2>1 DEF FramesAt
    <3>2. \A k \in 1..Len(e) : t[Len(s) + k] = e[k]
      <4> TAKE k \in 1..Len(e)
      <4> DEFINE x == Len(s) + k
      <4>1. x \in 1..(Len(s) + Len(e)) /\ ~(x <= Len(s)) /\ x - Len(s) = k
        BY <1>2, <1>3
      <4> HIDE DEF x
      <4>2. t[x] = e[x - Len(s)]
        BY <1>4, <4>1
      <4> QED BY <4>1, <4>2 DEF x
    <3> QED BY <1>4, <3>1, <3>2 DEF e
  <2>2. CASE i # n + 1
    <3>1. i \in (d + 1)..n /\ ns[i] = ms[i]
      BY <1>3, <1>5, <2>2
    <3>2. next[i] = start[i] /\ next[i + 1] = start[i + 1] /\ start[i + 1] \in 0..Len(s)
          /\ start[i] \in 0..Len(s)
      BY <1>3, <3>1
    <3>3. ms[i] \in Messages
      BY <3>1
    <3>4. Len(Encode(ms[i])) \in Nat
      BY <3>3, EncodeFrame
    <3>5. /\ start[i + 1] = start[i] + Len(Encode(ms[i]))
          /\ \A k \in 1..Len(Encode(ms[i])) : s[start[i] + k] = Encode(ms[i])[k]
      BY <1>1, <3>1 DEF FramesAt
    <3>6. \A k \in 1..Len(Encode(ms[i])) : t[start[i] + k] = s[start[i] + k]
      <4> TAKE k \in 1..Len(Encode(ms[i]))
      <4> DEFINE x == start[i] + k
      <4>1. x \in 1..Len(s)
        <5> DEFINE l == Len(Encode(ms[i]))
        <5> HIDE DEF l
        <5>1. start[i + 1] = start[i] + l /\ l \in Nat /\ k \in 1..l
          BY <3>4, <3>5 DEF l
        <5> QED BY <1>3, <3>2, <5>1, SMTT(30)
      <4>2. x \in 1..(Len(s) + Len(e)) /\ x <= Len(s)
        BY <1>2, <1>3, <4>1
      <4> HIDE DEF x
      <4>3. t[x] = s[x]
        BY <1>4, <4>2
      <4> QED BY <4>3 DEF x
    <3> QED BY <3>1, <3>2, <3>5, <3>6
  <2> QED BY <2>1, <2>2
<1>9. \A i, j \in (d + 1)..(Len(ns) + 1) : i <= j => next[i] <= next[j]
  <2> TAKE i, j \in (d + 1)..(Len(ns) + 1)
  <2>1. CASE i = n + 2 \/ j = n + 2
    <3>1. \A c \in (d + 1)..(n + 2) : next[c] \in 0..Len(t)
      BY <1>5, <1>6
    <3>2. next[n + 2] = Len(t)
      BY <1>5, <1>7
    <3>3. i \in (d + 1)..(n + 2) /\ j \in (d + 1)..(n + 2)
      BY <1>3, <1>5
    <3>4. Len(t) \in Nat
      BY <1>2, <1>3, <1>4
    <3>5. i <= j => j = n + 2
      BY <1>3, <2>1, <3>3
    <3> HIDE DEF next
    <3> QED BY <3>1, <3>2, <3>3, <3>4, <3>5
  <2>2. CASE i # n + 2 /\ j # n + 2
    <3>1. i \in (d + 1)..(n + 1) /\ j \in (d + 1)..(n + 1)
      BY <1>3, <1>5, <2>2
    <3>2. next[i] = start[i] /\ next[j] = start[j]
      BY <1>3, <2>2, <3>1
    <3>3. i <= j => start[i] <= start[j]
      BY <1>1, <3>1 DEF FramesAt
    <3> QED BY <3>2, <3>3
  <2> QED BY <2>1, <2>2
<1> HIDE DEF next
<1>10. FramesAt(next, t, ns, d)
  BY <1>7, <1>8, <1>9 DEF FramesAt
<1> QED BY <1>6, <1>10 DEF IsFrames, t, ns, e

\* Bytes are of a message that was not delivered, and begin with its frame.
LEMMA FramesFirst ==
  ASSUME NEW s \in Seq(Byte), NEW ms \in Seq(Messages), NEW d \in 0..Len(ms),
         IsFrames(s, ms, d), Len(s) > 0
  PROVE  /\ d < Len(ms)
         /\ Len(Encode(ms[d + 1])) \in HeaderSize..Len(s)
         /\ \A k \in 1..Len(Encode(ms[d + 1])) : s[k] = Encode(ms[d + 1])[k]
<1> DEFINE n == Len(ms)
<1>1. PICK start \in [(d + 1)..(n + 1) -> 0..Len(s)] : FramesAt(start, s, ms, d)
  BY DEF IsFrames
<1>2. Len(s) \in Nat /\ n \in Nat
  OBVIOUS
<1>3. d < n
  BY <1>1, <1>2 DEF FramesAt
<1>4. ms[d + 1] \in Messages
  BY <1>2, <1>3
<1>5. Len(Encode(ms[d + 1])) \in Nat /\ Len(Encode(ms[d + 1])) >= HeaderSize
  <2> DEFINE m == ms[d + 1]
  <2> HIDE DEF m
  <2>1. Len(m.body) \in Nat /\ Len(Encode(m)) = HeaderSize + Len(m.body)
    BY <1>4, EncodeFrame DEF m
  <2>2. Len(Encode(m)) \in Nat /\ Len(Encode(m)) >= HeaderSize
    BY <2>1 DEF HeaderSize
  <2> QED BY <2>2 DEF m
<1>6. /\ start[d + 1] = 0 /\ start[d + 2] = start[d + 1] + Len(Encode(ms[d + 1]))
      /\ \A k \in 1..Len(Encode(ms[d + 1])) :
           s[start[d + 1] + k] = Encode(ms[d + 1])[k]
  <2> DEFINE c == d + 1
  <2>1. c \in (d + 1)..Len(ms) /\ c + 1 = d + 2
    BY <1>2, <1>3
  <2> HIDE DEF c
  <2>2. /\ start[c + 1] = start[c] + Len(Encode(ms[c]))
        /\ \A k \in 1..Len(Encode(ms[c])) : s[start[c] + k] = Encode(ms[c])[k]
    BY <1>1, <2>1 DEF FramesAt
  <2>3. start[c] = 0
    BY <1>1 DEF FramesAt, c
  <2> QED BY <2>1, <2>2, <2>3 DEF c
<1>7. start[d + 2] \in 0..Len(s)
  BY <1>2, <1>3
<1> QED BY <1>2, <1>3, <1>5, <1>6, <1>7 DEF HeaderSize

\* Without its first frame s is still frames.
LEMMA FramesRest ==
  ASSUME NEW h \in Seq(Byte), NEW t \in Seq(Byte),
         NEW ms \in Seq(Messages), NEW d \in 0..Len(ms), d < Len(ms),
         IsFrames(h \o t, ms, d), Len(h) = Len(Encode(ms[d + 1]))
  PROVE  IsFrames(t, ms, d + 1)
<1> DEFINE n == Len(ms)
<1> DEFINE s == h \o t
<1> DEFINE z == Len(h)
<1>1. PICK start \in [(d + 1)..(n + 1) -> 0..Len(s)] : FramesAt(start, s, ms, d)
  BY DEF IsFrames
<1>2. /\ s \in Seq(Byte) /\ Len(s) = z + Len(t)
      /\ \A i \in 1..(z + Len(t)) : s[i] = IF i <= z THEN h[i] ELSE t[i - z]
  BY ConcatProperties
<1>3. z \in Nat /\ Len(t) \in Nat /\ n \in Nat
  OBVIOUS
<1> HIDE DEF s
<1>4. start[d + 2] = z
  <2> DEFINE c == d + 1
  <2>1. c \in (d + 1)..Len(ms) /\ c + 1 = d + 2
    BY <1>3
  <2> HIDE DEF c
  <2>2. start[c + 1] = start[c] + Len(Encode(ms[c]))
    BY <1>1, <2>1 DEF FramesAt
  <2>3. start[c] = 0 /\ Len(Encode(ms[c])) = z
    BY <1>1 DEF FramesAt, c
  <2> QED BY <1>3, <2>1, <2>2, <2>3
<1> DEFINE next == [i \in (d + 2)..(n + 1) |-> start[i] - z]
<1>5. \A i \in (d + 2)..(n + 1) : start[i] \in z..Len(s)
  <2> TAKE i \in (d + 2)..(n + 1)
  <2>1. start[d + 2] <= start[i]
    BY <1>1, <1>3 DEF FramesAt
  <2>2. start[i] \in 0..Len(s)
    BY <1>3
  <2> QED BY <1>2, <1>3, <1>4, <2>1, <2>2
<1>6. next \in [((d + 1) + 1)..(Len(ms) + 1) -> 0..Len(t)]
  BY <1>2, <1>3, <1>5
<1>7. next[(d + 1) + 1] = 0 /\ next[Len(ms) + 1] = Len(t)
  BY <1>1, <1>2, <1>3, <1>4 DEF FramesAt
<1>8. ASSUME NEW i \in ((d + 1) + 1)..Len(ms)
      PROVE  /\ next[i + 1] = next[i] + Len(Encode(ms[i]))
             /\ \A k \in 1..Len(Encode(ms[i])) : t[next[i] + k] = Encode(ms[i])[k]
  <2>1. ms[i] \in Messages
    BY <1>3
  <2>2. Len(Encode(ms[i])) \in Nat
    BY <2>1, EncodeFrame
  <2>3. next[i] = start[i] - z /\ next[i + 1] = start[i + 1] - z
        /\ start[i] \in z..Len(s) /\ start[i + 1] \in z..Len(s)
    BY <1>3, <1>5
  <2>4. /\ start[i + 1] = start[i] + Len(Encode(ms[i]))
        /\ \A k \in 1..Len(Encode(ms[i])) : s[start[i] + k] = Encode(ms[i])[k]
    BY <1>1, <1>3 DEF FramesAt
  <2>5. \A k \in 1..Len(Encode(ms[i])) : s[start[i] + k] = t[(start[i] - z) + k]
    <3> TAKE k \in 1..Len(Encode(ms[i]))
    <3> DEFINE x == start[i] + k
    <3>1. x \in (z + 1)..(z + Len(t))
      <4> DEFINE l == Len(Encode(ms[i]))
      <4> HIDE DEF l
      <4>1. start[i] \in Nat /\ start[i] >= z /\ start[i + 1] <= z + Len(t)
        BY <1>2, <1>3, <2>3
      <4>2. start[i + 1] = start[i] + l /\ l \in Nat /\ k \in 1..l
        BY <2>2, <2>4 DEF l
      <4> QED BY <1>3, <4>1, <4>2
    <3>2. x - z = (start[i] - z) + k
      BY <1>3, <2>2, <2>3
    <3> HIDE DEF x
    <3>3. s[x] = t[x - z]
      BY <1>2, <1>3, <3>1
    <3> QED BY <3>2, <3>3 DEF x
  <2>6. next[i + 1] = next[i] + Len(Encode(ms[i]))
    <3> DEFINE l == Len(Encode(ms[i]))
    <3> HIDE DEF l, next
    <3>1. start[i] \in Int /\ l \in Int /\ start[i + 1] = start[i] + l
      BY <1>2, <1>3, <2>2, <2>3, <2>4 DEF l
    <3>2. next[i] = start[i] - z /\ next[i + 1] = start[i + 1] - z
      BY <2>3
    <3>3. next[i + 1] = next[i] + l
      BY <1>3, <3>1, <3>2
    <3> QED BY <3>3 DEF l
  <2>7. \A k \in 1..Len(Encode(ms[i])) : t[next[i] + k] = Encode(ms[i])[k]
    <3> HIDE DEF next
    <3> QED BY <2>3, <2>4, <2>5
  <2> QED BY <2>6, <2>7
<1>9. \A i, j \in ((d + 1) + 1)..(Len(ms) + 1) : i <= j => next[i] <= next[j]
  <2> TAKE i, j \in ((d + 1) + 1)..(Len(ms) + 1)
  <2>1. i <= j => start[i] <= start[j]
    BY <1>1, <1>3 DEF FramesAt
  <2>2. start[i] \in Nat /\ start[j] \in Nat /\ next[i] = start[i] - z
        /\ next[j] = start[j] - z
    BY <1>3, <1>5
  <2> QED BY <1>3, <2>1, <2>2
<1> HIDE DEF next
<1>10. FramesAt(next, t, ms, d + 1)
  BY <1>7, <1>8, <1>9 DEF FramesAt
<1> QED BY <1>6, <1>10 DEF IsFrames

\* A whole frame at the beginning: it is the next message, and the rest is
\* what is to be delivered after it.
LEMMA FrameComplete ==
  ASSUME NEW h \in Seq(Byte), NEW t \in Seq(Byte),
         NEW ms \in Seq(Messages), NEW d \in 0..Len(ms), IsFrames(h \o t, ms, d),
         Len(h) >= HeaderSize, Len(h) = HeaderSize + BodySize(h)
  PROVE  /\ d < Len(ms) /\ IsFrames(t, ms, d + 1)
         /\ ms[d + 1].id = h[1]
         /\ ms[d + 1].body = SubSeq(h, HeaderSize + 1, Len(h))
<1> DEFINE m == ms[d + 1]
<1> DEFINE s == h \o t
<1>1. /\ s \in Seq(Byte) /\ Len(s) = Len(h) + Len(t)
      /\ \A i \in 1..Len(h) : s[i] = h[i]
  <2>1. /\ s \in Seq(Byte) /\ Len(s) = Len(h) + Len(t)
        /\ \A i \in 1..(Len(h) + Len(t)) :
             s[i] = IF i <= Len(h) THEN h[i] ELSE t[i - Len(h)]
    BY ConcatProperties
  <2>2. Len(h) \in Nat /\ Len(t) \in Nat
    OBVIOUS
  <2> HIDE DEF s, m
  <2> QED BY <2>1, <2>2
<1>2. Len(h) \in Nat /\ Len(t) \in Nat
  OBVIOUS
<1>3. Len(s) > 0
  BY <1>1, <1>2 DEF HeaderSize
<1> HIDE DEF s
<1>4. /\ d < Len(ms) /\ Len(Encode(m)) \in HeaderSize..Len(s)
      /\ \A k \in 1..Len(Encode(m)) : s[k] = Encode(m)[k]
  BY <1>1, <1>3, FramesFirst DEF s
<1>5. m \in Messages
  BY <1>4
<1>6. /\ Encode(m) \in Seq(Byte)
      /\ Len(m.body) \in Nat /\ Len(Encode(m)) = HeaderSize + Len(m.body)
      /\ Encode(m)[1] = m.id
      /\ BodySize(Encode(m)) = Len(m.body)
      /\ \A k \in 1..Len(m.body) : Encode(m)[HeaderSize + k] = m.body[k]
  BY <1>5, EncodeFrame
<1>7. \A k \in 1..HeaderSize : h[k] = Encode(m)[k]
  BY <1>1, <1>2, <1>4, <1>6 DEF HeaderSize
<1>8. BodySize(h) = Len(m.body)
  BY <1>6, <1>7 DEF BodySize, HeaderSize
<1>9. Len(h) = Len(Encode(m))
  BY <1>6, <1>8
<1>10. m.id = h[1]
  BY <1>6, <1>7 DEF HeaderSize
<1>11. m.body = SubSeq(h, HeaderSize + 1, Len(h))
  <2>1. m.body \in Seq(Byte)
    BY <1>5, ReaderAssumption
  <2>2. SubSeq(h, HeaderSize + 1, Len(h)) \in Seq(Byte)
        /\ Len(SubSeq(h, HeaderSize + 1, Len(h))) = Len(m.body)
    BY <1>2, <1>6, <1>9 DEF HeaderSize
  <2>3. ASSUME NEW k \in 1..Len(m.body)
        PROVE  m.body[k] = SubSeq(h, HeaderSize + 1, Len(h))[k]
    <3>1. HeaderSize + k \in 1..Len(h)
      BY <1>2, <1>6, <1>9 DEF HeaderSize
    <3>2. h[HeaderSize + k] = Encode(m)[HeaderSize + k]
      BY <1>1, <1>4, <1>9, <3>1
    <3>3. SubSeq(h, HeaderSize + 1, Len(h))[k] = h[HeaderSize + k]
      BY <1>2, <1>6, <1>9, <3>1 DEF HeaderSize
    <3> QED BY <1>6, <3>2, <3>3
  <2> DEFINE b == m.body
  <2> DEFINE r == SubSeq(h, HeaderSize + 1, Len(h))
  <2> HIDE DEF b, r
  <2>4. b \in Seq(Byte) /\ r \in Seq(Byte) /\ Len(b) = Len(r)
        /\ \A k \in 1..Len(b) : b[k] = r[k]
    BY <2>1, <2>2, <2>3 DEF b, r
  <2>5. b = r
    BY <2>4, SeqEqual
  <2> QED BY <2>5 DEF b, r
<1> HIDE DEF m
<1>12. IsFrames(t, ms, d + 1)
  BY <1>4, <1>9, FramesRest DEF m
<1> QED BY <1>4, <1>10, <1>11, <1>12 DEF m

---------------------------------------------------------------------------
(* The reader.                                                             *)

\* Bytes written at m_readPos follow the ones that were there.
LEMMA WrittenPrefix ==
  ASSUME NEW buffer \in Seq(Byte), NEW pos \in Nat, NEW chunk \in Seq(Byte),
         pos + Len(chunk) <= Len(buffer)
  PROVE  /\ Written(buffer, pos, chunk) \in Seq(Byte)
         /\ Len(Written(buffer, pos, chunk)) = Len(buffer)
         /\ SubSeq(Written(buffer, pos, chunk), 1, pos + Len(chunk))
              = SubSeq(buffer, 1, pos) \o chunk
<1> DEFINE w == Written(buffer, pos, chunk)
<1> DEFINE p == SubSeq(buffer, 1, pos)
<1> DEFINE l == Len(chunk)
<1>1. Len(buffer) \in Nat /\ l \in Nat
  OBVIOUS
<1>2. w = [i \in 1..Len(buffer) |->
             IF i - pos \in 1..l THEN chunk[i - pos] ELSE buffer[i]]
  BY DEF Written
<1>3. w \in Seq(Byte) /\ Len(w) = Len(buffer)
  BY <1>1, <1>2
<1>4. p \in Seq(Byte) /\ Len(p) = pos /\ \A i \in 1..pos : p[i] = buffer[i]
  BY <1>1
<1> HIDE DEF w, p
<1>5. /\ p \o chunk \in Seq(Byte) /\ Len(p \o chunk) = pos + l
      /\ \A i \in 1..(pos + l) :
           (p \o chunk)[i] = IF i <= pos THEN p[i] ELSE chunk[i - pos]
  BY <1>4, ConcatProperties
<1>6. /\ SubSeq(w, 1, pos + l) \in Seq(Byte)
      /\ Len(SubSeq(w, 1, pos + l)) = pos + l
      /\ \A i \in 1..(pos + l) : SubSeq(w, 1, pos + l)[i] = w[i]
  BY <1>1, <1>3
<1>7. \A i \in 1..(pos + l) : w[i] = (p \o chunk)[i]
  <2> TAKE i \in 1..(pos + l)
  <2>1. i \in 1..Len(buffer)
    BY <1>1
  <2>2. w[i] = IF i - pos \in 1..l THEN chunk[i - pos] ELSE buffer[i]
    BY <1>2, <2>1
  <2>3. i <= pos <=> ~(i - pos \in 1..l)
    BY <1>1
  <2>4. i <= pos => p[i] = buffer[i]
    BY <1>4
  <2> QED BY <1>5, <2>2, <2>3, <2>4
<1> DEFINE x == SubSeq(w, 1, pos + l)
<1> DEFINE y == p \o chunk
<1> HIDE DEF x, y
<1>8. x \in Seq(Byte) /\ y \in Seq(Byte) /\ Len(x) = Len(y)
      /\ \A i \in 1..Len(x) : x[i] = y[i]
  BY <1>5, <1>6, <1>7 DEF x, y
<1>9. x = y
  BY <1>8, SeqEqual
<1> QED BY <1>3, <1>9 DEF x, y, w, p

\* What recv() wrote is part of the message being read.
LEMMA FilledReading ==
  ASSUME NEW r, Reading(r), NEW chunk \in Seq(Byte), Len(chunk) <= r.remain
  PROVE  /\ Reading(Filled(r, chunk))
         /\ Filled(r, chunk).state = r.state
         /\ Filled(r, chunk).remain = r.remain - Len(chunk)
         /\ Held(Filled(r, chunk)) = Held(r) \o chunk
<1> DEFINE f == Filled(r, chunk)
<1> DEFINE l == Len(chunk)
<1>0. l \in Nat /\ r \in ReaderType /\ Len(r.header) = 3
  BY DEF Reading, HeaderSize
<1>1. CASE r.state = "READING_HEADER"
  <2>1. r.pos \in Nat /\ r.pos + l <= Len(r.header) /\ r.header \in Seq(Byte)
        /\ r.remain = 3 - r.pos /\ r.body = << >> /\ r.body \in Seq(Byte)
    BY <1>0, <1>1 DEF Reading, ReaderType, HeaderSize
  <2> DEFINE w == Written(r.header, r.pos, chunk)
  <2>2. w \in Seq(Byte) /\ Len(w) = 3
        /\ SubSeq(w, 1, r.pos + l) = SubSeq(r.header, 1, r.pos) \o chunk
    BY <1>0, <2>1, WrittenPrefix
  <2> HIDE DEF w
  <2>3. f = [state |-> "READING_HEADER", header |-> w, body |-> r.body,
             pos |-> r.pos + l, remain |-> r.remain - l]
    <3>1. f = [[r EXCEPT !.header = w] EXCEPT !.pos = @ + l, !.remain = @ - l]
      BY <1>1 DEF Filled, w
    <3>2. r = [state |-> r.state, header |-> r.header, body |-> r.body,
               pos |-> r.pos, remain |-> r.remain]
      BY <1>0 DEF ReaderType
    <3> QED BY <1>1, <3>1, <3>2
  <2> HIDE DEF f
  <2>4. r.pos + l \in 0..3 /\ r.remain - l = 3 - (r.pos + l) /\ r.remain - l \in Nat
    BY <1>0, <2>1
  <2>5. f \in ReaderType
    BY <2>1, <2>2, <2>3, <2>4 DEF ReaderType
  <2>6. Reading(f)
    BY <2>1, <2>2, <2>3, <2>4, <2>5 DEF Reading, HeaderSize
  <2>7. Held(f) = Held(r) \o chunk
    BY <1>1, <2>2, <2>3 DEF Held
  <2> QED BY <1>1, <2>3, <2>6, <2>7 DEF f
<1>2. CASE r.state = "READING_BODY"
  <2>1. r.pos \in Nat /\ r.pos + l <= Len(r.body) /\ r.header \in Seq(Byte)
        /\ r.remain = Len(r.body) - r.pos /\ r.body \in Seq(Byte)
        /\ Len(r.body) = BodySize(r.header) /\ Len(r.body) \in Nat
    BY <1>0, <1>2 DEF Reading, ReaderType
  <2> DEFINE w == Written(r.body, r.pos, chunk)
  <2>2. w \in Seq(Byte) /\ Len(w) = Len(r.body)
        /\ SubSeq(w, 1, r.pos + l) = SubSeq(r.body, 1, r.pos) \o chunk
    BY <1>0, <2>1, WrittenPrefix
  <2> HIDE DEF w
  <2>3. f = [state |-> "READING_BODY", header |-> r.header, body |-> w,
             pos |-> r.pos + l, remain |-> r.remain - l]
    <3>1. f = [[r EXCEPT !.body = w] EXCEPT !.pos = @ + l, !.remain = @ - l]
      BY <1>2 DEF Filled, w
    <3>2. r = [state |-> r.state, header |-> r.header, body |-> r.body,
               pos |-> r.pos, remain |-> r.remain]
      BY <1>0 DEF ReaderType
    <3> QED BY <1>2, <3>1, <3>2
  <2> HIDE DEF f
  <2>4. r.pos + l \in 0..Len(w) /\ r.remain - l = Len(w) - (r.pos + l)
        /\ r.remain - l \in Nat
    BY <1>0, <2>1, <2>2
  <2>5. f \in ReaderType
    BY <2>1, <2>2, <2>3, <2>4 DEF ReaderType
  <2>6. Reading(f)
    BY <1>0, <2>1, <2>2, <2>3, <2>4, <2>5 DEF Reading, HeaderSize
  <2>7. r.header \o (SubSeq(r.body, 1, r.pos) \o chunk)
          = (r.header \o SubSeq(r.body, 1, r.pos)) \o chunk
    <3> DEFINE a == r.header
    <3> DEFINE b == SubSeq(r.body, 1, r.pos)
    <3>1. a \in Seq(Byte) /\ b \in Seq(Byte)
      BY <2>1
    <3> HIDE DEF a, b
    <3>2. (a \o b) \o chunk = a \o (b \o chunk)
      BY <3>1, ConcatAssociative
    <3> QED BY <3>2 DEF a, b
  <2>8. Held(f) = Held(r) \o chunk
    BY <1>2, <2>2, <2>3, <2>7 DEF Held
  <2> QED BY <1>2, <2>3, <2>6, <2>8 DEF f
<1> QED BY <1>0, <1>1, <1>2 DEF ReaderType

\* The bytes held are bytes.
LEMMA HeldType ==
  ASSUME NEW r, Reading(r)
  PROVE  Held(r) \in Seq(Byte)
<1>1. /\ r.header \in Seq(Byte) /\ r.body \in Seq(Byte) /\ Len(r.header) = 3
      /\ r.state \in {"READING_HEADER", "READING_BODY"}
  BY DEF Reading, ReaderType, HeaderSize
<1>2. CASE r.state = "READING_HEADER"
  <2>1. r.pos \in 0..Len(r.header)
    BY <1>1, <1>2 DEF Reading, HeaderSize
  <2> QED BY <1>1, <1>2, <2>1 DEF Held
<1>3. CASE r.state = "READING_BODY"
  <2>1. r.pos \in 0..Len(r.body)
    BY <1>1, <1>3 DEF Reading
  <2> DEFINE b == SubSeq(r.body, 1, r.pos)
  <2>2. b \in Seq(Byte)
    BY <1>1, <2>1
  <2> HIDE DEF b
  <2>3. r.header \o b \in Seq(Byte)
    BY <1>1, <2>2, ConcatProperties
  <2> QED BY <1>3, <2>3 DEF Held, b
<1> QED BY <1>1, <1>2, <1>3

\* The fresh reader holds nothing and expects a header.
LEMMA NewReading ==
  /\ Reading(NewReader) /\ NewReader.remain > 0 /\ NewReader \in ReaderType
  /\ Held(NewReader) = << >>
<1>1. Zeros(3) \in Seq(Byte) /\ Len(Zeros(3)) = 3
  BY ZerosType
<1>2. NewReader = [state |-> "READING_HEADER", header |-> Zeros(3),
                   body |-> << >>, pos |-> 0, remain |-> 3]
  BY DEF NewReader, HeaderSize
<1>3. << >> \in Seq(Byte)
  BY EmptySeq
<1>4. NewReader \in ReaderType
  BY <1>1, <1>2, <1>3 DEF ReaderType
<1>5. SubSeq(Zeros(3), 1, 0) = << >>
  BY <1>1
<1> QED BY <1>1, <1>2, <1>4, <1>5 DEF Reading, HeaderSize, Held

---------------------------------------------------------------------------
(* The steps.                                                              *)

\* What was received and what is left are what had arrived.
LEMMA ChunkFits ==
  ASSUME arrived \in Seq(Byte), reader.remain \in Nat
  PROVE  /\ Chunk \in Seq(Byte) /\ Len(Chunk) <= reader.remain
         /\ Len(Chunk) \in 0..Len(arrived)
         /\ SubSeq(arrived, Len(Chunk) + 1, Len(arrived)) \in Seq(Byte)
         /\ Chunk \o SubSeq(arrived, Len(Chunk) + 1, Len(arrived)) = arrived
<1> DEFINE n == IF reader.remain < Len(arrived) THEN reader.remain ELSE Len(arrived)
<1>1. Len(arrived) \in Nat /\ n \in 0..Len(arrived) /\ n <= reader.remain
  OBVIOUS
<1>2. Chunk = SubSeq(arrived, 1, n)
  BY DEF Chunk
<1> HIDE DEF n
<1>3. Chunk \in Seq(Byte) /\ Len(Chunk) = n
  BY <1>1, <1>2
<1>4. SubSeq(arrived, n + 1, Len(arrived)) \in Seq(Byte)
  BY <1>1
<1>5. SubSeq(arrived, 1, n) \o SubSeq(arrived, n + 1, Len(arrived)) = arrived
  <2>1. SubSeq(arrived, 1, Len(arrived)) = arrived
    OBVIOUS
  <2>2. SubSeq(arrived, 1, n) \o SubSeq(arrived, n + 1, Len(arrived))
          = SubSeq(arrived, 1, Len(arrived))
    <3> DEFINE a == arrived
    <3> DEFINE l == Len(arrived)
    <3>1. a \in Seq(Byte) /\ 1 \in 1..(Len(a) + 1) /\ n \in (1 - 1)..Len(a)
          /\ l \in n..Len(a)
      BY <1>1
    <3> HIDE DEF a, l
    <3>2. SubSeq(a, 1, n) \o SubSeq(a, n + 1, l) = SubSeq(a, 1, l)
      BY <3>1, ConcatAdjacentSubSeq
    <3> QED BY <3>2 DEF a, l
  <2> QED BY <2>1, <2>2
<1> QED BY <1>1, <1>2, <1>3, <1>4, <1>5

\* A recv() moves bytes into the reader; none of those ahead is lost.
LEMMA ReceiveMoves ==
  ASSUME ReaderInv, Receive
  PROVE  LET f == Filled(reader, Chunk) IN
         /\ ~broken /\ broken' = broken /\ sent' = sent
         /\ network' \in Seq(Byte) /\ arrived' \in Seq(Byte) /\ fdRead' \in BOOLEAN
         /\ Reading(f) /\ f.state = reader.state /\ Held(f) \in Seq(Byte)
         /\ arrived' \o network' \in Seq(Byte)
         /\ Held(f) \o (arrived' \o network') = Ahead
<1> DEFINE f == Filled(reader, Chunk)
<1> DEFINE rest == SubSeq(arrived, Len(Chunk) + 1, Len(arrived))
<1>1. ~broken /\ arrived' = rest /\ UNCHANGED <<sent, network, broken>>
      /\ fdRead' \in BOOLEAN
  BY DEF Receive
<1>2. Reading(reader) /\ arrived \in Seq(Byte) /\ network \in Seq(Byte)
  BY <1>1 DEF ReaderInv, TypeOK
<1>3. reader.remain \in Nat
  BY <1>2 DEF Reading, ReaderType
<1>4. Chunk \in Seq(Byte) /\ Len(Chunk) <= reader.remain /\ rest \in Seq(Byte)
      /\ Chunk \o rest = arrived
  BY <1>2, <1>3, ChunkFits
<1>5. Reading(f) /\ f.state = reader.state /\ Held(f) = Held(reader) \o Chunk
  BY <1>2, <1>4, FilledReading
<1>6. Held(f) \in Seq(Byte) /\ Held(reader) \in Seq(Byte)
  BY <1>2, <1>5, HeldType
<1> HIDE DEF f, rest
<1>7. rest \o network \in Seq(Byte)
  BY <1>2, <1>4, ConcatProperties
<1>8. (Held(reader) \o Chunk) \o (rest \o network)
        = Held(reader) \o ((Chunk \o rest) \o network)
  <2> DEFINE a == Held(reader)
  <2> DEFINE c == Chunk
  <2> DEFINE n == network
  <2>1. a \in Seq(Byte) /\ c \in Seq(Byte) /\ rest \in Seq(Byte) /\ n \in Seq(Byte)
        /\ rest \o n \in Seq(Byte)
    BY <1>2, <1>4, <1>6, <1>7
  <2> HIDE DEF a, c, n
  <2>2. (a \o c) \o (rest \o n) = a \o (c \o (rest \o n))
    BY <2>1, ConcatAssociative, SMTT(30)
  <2>3. (c \o rest) \o n = c \o (rest \o n)
    BY <2>1, ConcatAssociative
  <2> QED BY <2>2, <2>3 DEF a, c, n
<1>9. Held(f) \o (rest \o network) = Ahead
  BY <1>4, <1>5, <1>8 DEF Ahead
<1> QED BY <1>1, <1>2, <1>4, <1>5, <1>6, <1>7, <1>9 DEF f

\* What TypeOK says of the variables, with the reader's type named.
LEMMA TypeFacts ==
  TypeOK <=> /\ reader \in ReaderType
             /\ delivered \in Seq([id : Byte, body : Seq(Byte)])
             /\ sent \in Seq(Messages)
             /\ network \in Seq(Byte) /\ arrived \in Seq(Byte)
             /\ fdRead \in BOOLEAN /\ broken \in BOOLEAN
BY DEF TypeOK, ReaderType

\* It holds at first: nothing was sent.
LEMMA ReaderInit == Init => ReaderInv
<1> SUFFICES ASSUME Init PROVE ReaderInv
  OBVIOUS
<1>1. /\ reader = NewReader /\ sent = << >> /\ network = << >> /\ arrived = << >>
      /\ fdRead = FALSE /\ broken = FALSE /\ delivered = << >>
  BY DEF Init
<1>2. TypeOK
  <2>1. << >> \in Seq(Byte) /\ << >> \in Seq(Messages)
        /\ << >> \in Seq([id : Byte, body : Seq(Byte)])
    OBVIOUS
  <2> QED BY <1>1, <2>1, NewReading, TypeFacts
<1>3. Ahead = << >>
  <2>1. << >> \o << >> = << >>
    OBVIOUS
  <2> QED BY <1>1, <2>1, NewReading DEF Ahead
<1>4. IsFrames(<< >>, << >>, 0)
  <2> DEFINE start == [i \in 1..1 |-> 0]
  <2>1. start \in [(0 + 1)..(Len(<< >>) + 1) -> 0..Len(<< >>)]
    OBVIOUS
  <2>2. FramesAt(start, << >>, << >>, 0)
    BY DEF FramesAt
  <2> QED BY <2>1, <2>2 DEF IsFrames
<1>5. Len(<< >>) = 0
  OBVIOUS
<1> QED BY <1>1, <1>2, <1>3, <1>4, <1>5, NewReading DEF ReaderInv

LEMMA PeerSendKeepsInv ==
  ASSUME ReaderInv, NEW m \in Messages, PeerSend(m)
  PROVE  ReaderInv'
<1> DEFINE e == Encode(m)
<1>1. /\ ~broken /\ sent' = Append(sent, m) /\ network' = network \o e
      /\ UNCHANGED <<reader, arrived, fdRead, broken, delivered>>
  BY DEF PeerSend
<1>2. /\ TypeOK /\ Reading(reader) /\ reader.remain > 0
      /\ IsFrames(Ahead, sent, Len(delivered)) /\ Len(delivered) <= Len(sent)
  BY <1>1 DEF ReaderInv
<1>3. /\ network \in Seq(Byte) /\ arrived \in Seq(Byte) /\ sent \in Seq(Messages)
      /\ delivered \in Seq([id : Byte, body : Seq(Byte)])
  BY <1>2, TypeFacts
<1>4. e \in Seq(Byte)
  BY EncodeFrame
<1>5. Held(reader) \in Seq(Byte)
  BY <1>2, HeldType
<1> HIDE DEF e
<1>6. sent' \in Seq(Messages) /\ Len(sent') = Len(sent) + 1
  BY <1>1, <1>3
<1>7. network' \in Seq(Byte)
  BY <1>1, <1>3, <1>4, ConcatProperties
<1>8. TypeOK'
  BY <1>1, <1>2, <1>6, <1>7 DEF TypeOK
<1>9. Ahead \in Seq(Byte) /\ Ahead' = Ahead \o e
  <2> DEFINE a == Held(reader)
  <2> DEFINE b == arrived
  <2> DEFINE c == network
  <2>1. a \in Seq(Byte) /\ b \in Seq(Byte) /\ c \in Seq(Byte)
    BY <1>3, <1>5
  <2>2. Ahead = a \o (b \o c) /\ Ahead' = a \o (b \o (c \o e))
    BY <1>1 DEF Ahead
  <2> HIDE DEF a, b, c
  <2>3. b \o c \in Seq(Byte)
    BY <2>1, ConcatProperties
  <2>4. a \o (b \o c) \in Seq(Byte)
    BY <2>1, <2>3, ConcatProperties
  <2>5. (b \o c) \o e = b \o (c \o e)
    BY <1>4, <2>1, ConcatAssociative
  <2>6. (a \o (b \o c)) \o e = a \o ((b \o c) \o e)
    BY <1>4, <2>1, <2>3, ConcatAssociative, SMTT(30)
  <2> QED BY <2>2, <2>4, <2>5, <2>6
<1>10. IsFrames(Ahead \o e, Append(sent, m), Len(delivered))
  <2>1. Len(delivered) \in 0..Len(sent)
    BY <1>2, <1>3
  <2> QED BY <1>2, <1>3, <1>9, <2>1, FramesNew DEF e
<1>11. IsFrames(Ahead', sent', Len(delivered'))
  BY <1>1, <1>9, <1>10
<1>12. Len(delivered') <= Len(sent')
  BY <1>1, <1>2, <1>3, <1>6
<1> QED BY <1>1, <1>2, <1>8, <1>11, <1>12 DEF ReaderInv

LEMMA ArriveKeepsInv ==
  ASSUME ReaderInv, NEW k \in 1..Len(network), Arrive(k)
  PROVE  ReaderInv'
<1> DEFINE f == SubSeq(network, 1, k)
<1> DEFINE g == SubSeq(network, k + 1, Len(network))
<1>1. /\ arrived' = arrived \o f /\ network' = g /\ fdRead' = TRUE
      /\ UNCHANGED <<reader, sent, broken, delivered>>
  BY DEF Arrive
<1>2. TypeOK /\ network \in Seq(Byte) /\ arrived \in Seq(Byte)
  BY TypeFacts DEF ReaderInv
<1>3. f \in Seq(Byte) /\ g \in Seq(Byte)
  BY <1>2
<1>4. f \o g = network
  <2> DEFINE n == network
  <2>1. /\ n \in Seq(Byte) /\ 1 \in 1..(Len(n) + 1) /\ k \in (1 - 1)..Len(n)
        /\ Len(n) \in k..Len(n) /\ SubSeq(n, 1, Len(n)) = n
    BY <1>2
  <2> HIDE DEF n
  <2>2. SubSeq(n, 1, k) \o SubSeq(n, k + 1, Len(n)) = SubSeq(n, 1, Len(n))
    BY <2>1, ConcatAdjacentSubSeq
  <2> QED BY <2>1, <2>2 DEF n
<1> HIDE DEF f, g
<1>5. arrived' \in Seq(Byte) /\ network' \in Seq(Byte)
  BY <1>1, <1>2, <1>3, ConcatProperties
<1>6. TypeOK'
  BY <1>1, <1>2, <1>5 DEF TypeOK
<1>7. (arrived \o f) \o g = arrived \o (f \o g)
  BY <1>2, <1>3, ConcatAssociative, SMTT(30)
<1>8. Ahead' = Ahead
  BY <1>1, <1>4, <1>7 DEF Ahead
<1> QED BY <1>1, <1>6, <1>8 DEF ReaderInv

\* A message is complete: what the reader holds is the next one.
LEMMA CompleteMessage ==
  ASSUME ReaderInv, Receive, ReadDone(Filled(reader, Chunk)),
         LET f == Filled(reader, Chunk) IN
           /\ Len(Held(f)) = HeaderSize + BodySize(f.header)
           /\ Held(f) = f.header \o f.body
  PROVE  /\ ReaderInv'
         /\ Len(delivered) < Len(sent)
         /\ delivered' = Append(delivered, sent[Len(delivered) + 1])
<1> DEFINE f == Filled(reader, Chunk)
<1> DEFINE h == Held(f)
<1> DEFINE t == arrived' \o network'
<1> DEFINE d == Len(delivered)
<1>1. /\ ~broken /\ broken' = broken /\ sent' = sent
      /\ network' \in Seq(Byte) /\ arrived' \in Seq(Byte) /\ fdRead' \in BOOLEAN
      /\ Reading(f) /\ h \in Seq(Byte) /\ t \in Seq(Byte)
      /\ h \o t = Ahead
  BY ReceiveMoves
<1>2. /\ TypeOK /\ IsFrames(Ahead, sent, d) /\ Len(delivered) <= Len(sent)
  BY <1>1 DEF ReaderInv
<1>3. delivered \in Seq([id : Byte, body : Seq(Byte)]) /\ sent \in Seq(Messages)
  BY <1>2, TypeFacts
<1>4. d \in 0..Len(sent)
  BY <1>2, <1>3
<1>5. /\ Len(h) = HeaderSize + BodySize(f.header) /\ h = f.header \o f.body
      /\ f.header \in Seq(Byte) /\ f.body \in Seq(Byte) /\ Len(f.header) = HeaderSize
  BY <1>1 DEF Reading, ReaderType
<1>6. reader' = NewReader
      /\ delivered' = Append(delivered, [id |-> f.header[1], body |-> f.body])
  BY DEF ReadDone
<1> DEFINE hd == f.header
<1> DEFINE b == f.body
<1> HIDE DEF f, h, hd, b
<1>7. /\ hd \in Seq(Byte) /\ b \in Seq(Byte) /\ Len(hd) = 3 /\ h = hd \o b
      /\ Len(h) = 3 + BodySize(hd)
  BY <1>5 DEF hd, b, HeaderSize
<1>8. /\ Len(h) = 3 + Len(b)
      /\ \A i \in 1..(3 + Len(b)) : h[i] = IF i <= 3 THEN hd[i] ELSE b[i - 3]
  <2>1. /\ Len(hd \o b) = Len(hd) + Len(b)
        /\ \A i \in 1..(Len(hd) + Len(b)) :
             (hd \o b)[i] = IF i <= Len(hd) THEN hd[i] ELSE b[i - Len(hd)]
    BY <1>7, ConcatProperties
  <2> QED BY <1>7, <2>1
<1>9. Len(b) \in Nat
  BY <1>7
<1>10. h[1] = hd[1] /\ h[2] = hd[2] /\ h[3] = hd[3]
  BY <1>8, <1>9
<1>11. BodySize(h) = BodySize(hd)
  BY <1>10 DEF BodySize
<1>12. SubSeq(h, 4, Len(h)) = b
  <2> DEFINE x == SubSeq(h, 4, Len(h))
  <2>1. x \in Seq(Byte) /\ Len(x) = Len(b) /\ \A i \in 1..Len(b) : x[i] = h[3 + i]
    BY <1>1, <1>8, <1>9
  <2>2. \A i \in 1..Len(b) : h[3 + i] = b[i]
    BY <1>8, <1>9
  <2> HIDE DEF x
  <2>3. x = b
    BY <1>7, <2>1, <2>2, SeqEqual
  <2> QED BY <2>3 DEF x
<1> HIDE DEF t, d
<1>13. IsFrames(h \o t, sent, d)
  BY <1>1, <1>2
<1>14. Len(h) >= HeaderSize /\ Len(h) = HeaderSize + BodySize(h)
  BY <1>7, <1>8, <1>9, <1>11 DEF HeaderSize
<1>15. /\ d < Len(sent) /\ IsFrames(t, sent, d + 1)
       /\ sent[d + 1].id = h[1]
       /\ sent[d + 1].body = SubSeq(h, HeaderSize + 1, Len(h))
  BY <1>1, <1>3, <1>4, <1>13, <1>14, FrameComplete
<1>16. sent[d + 1].id = hd[1] /\ sent[d + 1].body = b
  BY <1>10, <1>12, <1>15 DEF HeaderSize
<1>17. sent[d + 1] \in [id : Byte, body : Seq(Byte)]
  <2>1. d + 1 \in 1..Len(sent)
    BY <1>3, <1>4, <1>15
  <2>2. sent[d + 1] \in Messages
    BY <1>3, <2>1
  <2> QED BY <2>2, ReaderAssumption
<1>18. sent[d + 1] = [id |-> hd[1], body |-> b]
  BY <1>16, <1>17
<1>19. delivered' = Append(delivered, sent[d + 1])
  BY <1>6, <1>18 DEF hd, b
<1>20. delivered' \in Seq([id : Byte, body : Seq(Byte)]) /\ Len(delivered') = d + 1
  BY <1>3, <1>17, <1>19 DEF d
<1>21. TypeOK'
  <2>1. reader' \in [state : {"READING_HEADER", "READING_BODY"},
                     header : Seq(Byte), body : Seq(Byte), pos : Int, remain : Nat]
    BY <1>6, NewReading DEF ReaderType
  <2>2. broken' \in BOOLEAN /\ sent' \in Seq(Messages)
    BY <1>1, <1>2, <1>3 DEF TypeOK
  <2> QED BY <1>1, <1>20, <2>1, <2>2 DEF TypeOK
<1>22. Ahead' = t
  <2>1. << >> \o t = t
    BY <1>1, ConcatEmptySeq
  <2>2. Ahead' = << >> \o t
    BY <1>6, NewReading DEF Ahead, t
  <2> QED BY <2>1, <2>2
<1>23. Len(delivered') <= Len(sent')
  BY <1>1, <1>3, <1>4, <1>15, <1>20
<1>24. IsFrames(Ahead', sent', Len(delivered'))
  BY <1>1, <1>15, <1>20, <1>22
<1>25. Reading(reader') /\ reader'.remain > 0
  BY <1>6, NewReading
<1>26. ReaderInv'
  BY <1>21, <1>23, <1>24, <1>25 DEF ReaderInv
<1> QED BY <1>15, <1>19, <1>26 DEF d

LEMMA ReadPartKeepsInv ==
  ASSUME ReaderInv, ReadPart
  PROVE  ReaderInv'
<1> DEFINE f == Filled(reader, Chunk)
<1>1. Receive /\ f.remain # 0 /\ reader' = f /\ UNCHANGED delivered
  BY DEF ReadPart
<1>2. /\ ~broken /\ broken' = broken /\ sent' = sent
      /\ network' \in Seq(Byte) /\ arrived' \in Seq(Byte) /\ fdRead' \in BOOLEAN
      /\ Reading(f) /\ Held(f) \o (arrived' \o network') = Ahead
  BY <1>1, ReceiveMoves
<1> HIDE DEF f
<1>3. Reading(reader') /\ reader' \in ReaderType /\ Ahead' = Ahead
  BY <1>1, <1>2 DEF Reading, Ahead
<1>4. reader'.remain > 0
  BY <1>1, <1>3 DEF ReaderType
<1>5. TypeOK'
  BY <1>1, <1>2, <1>3 DEF ReaderInv, TypeOK, ReaderType
<1> QED BY <1>1, <1>2, <1>3, <1>4, <1>5 DEF ReaderInv

LEMMA ReadHeaderKeepsInv ==
  ASSUME ReaderInv, ReadHeader
  PROVE  ReaderInv'
<1> DEFINE f == Filled(reader, Chunk)
<1> DEFINE n == BodySize(f.header)
<1>1. /\ Receive /\ f.state = "READING_HEADER" /\ f.remain = 0 /\ n > 0
      /\ reader' = ExpectingBody(f) /\ UNCHANGED delivered
  BY DEF ReadHeader
<1>2. /\ ~broken /\ broken' = broken /\ sent' = sent
      /\ network' \in Seq(Byte) /\ arrived' \in Seq(Byte) /\ fdRead' \in BOOLEAN
      /\ Reading(f) /\ Held(f) \o (arrived' \o network') = Ahead
  BY <1>1, ReceiveMoves
<1> HIDE DEF f
<1>3. /\ f \in ReaderType /\ f.header \in Seq(Byte) /\ Len(f.header) = 3 /\ f.pos = 3
      /\ f.body = << >>
  BY <1>1, <1>2 DEF Reading, ReaderType, HeaderSize
<1>4. n \in Nat
  <2> DEFINE h == f.header
  <2>1. h \in Seq(Byte) /\ Len(h) >= HeaderSize
    BY <1>3 DEF HeaderSize
  <2> HIDE DEF h
  <2>2. BodySize(h) \in Nat
    BY <2>1, BodySizeNat
  <2> QED BY <2>2 DEF h
<1>5. reader' = [state |-> "READING_BODY", header |-> f.header, body |-> Zeros(n),
                 pos |-> 0, remain |-> n]
  <2>1. f = [state |-> f.state, header |-> f.header, body |-> f.body,
             pos |-> f.pos, remain |-> f.remain]
    BY <1>3 DEF ReaderType
  <2> QED BY <1>1, <2>1 DEF ExpectingBody
<1> HIDE DEF n
<1>6. Zeros(n) \in Seq(Byte) /\ Len(Zeros(n)) = n
  BY <1>4, ZerosType
<1>7. reader' \in ReaderType
  BY <1>3, <1>4, <1>5, <1>6 DEF ReaderType
<1>8. Reading(reader') /\ reader'.remain > 0
  BY <1>1, <1>3, <1>4, <1>5, <1>6, <1>7 DEF Reading, HeaderSize, n
<1>9. Held(reader') = Held(f)
  <2>1. Held(f) = f.header
    BY <1>1, <1>3 DEF Held
  <2>2. SubSeq(Zeros(n), 1, 0) = << >>
    BY <1>6
  <2>3. f.header \o << >> = f.header
    BY <1>3, ConcatEmptySeq
  <2> QED BY <1>5, <2>1, <2>2, <2>3 DEF Held
<1>10. Ahead' = Ahead
  BY <1>2, <1>9 DEF Ahead
<1>11. TypeOK'
  BY <1>1, <1>2, <1>7 DEF ReaderInv, TypeOK, ReaderType
<1> QED BY <1>1, <1>2, <1>8, <1>10, <1>11 DEF ReaderInv

\* A header that announces no body is a message.
LEMMA ReadEmptyMessageDelivers ==
  ASSUME ReaderInv, ReadEmptyMessage
  PROVE  /\ ReaderInv'
         /\ Len(delivered) < Len(sent)
         /\ delivered' = Append(delivered, sent[Len(delivered) + 1])
<1> DEFINE f == Filled(reader, Chunk)
<1>1. /\ Receive /\ f.state = "READING_HEADER" /\ f.remain = 0
      /\ BodySize(f.header) = 0 /\ ReadDone(f)
  BY DEF ReadEmptyMessage
<1>2. Reading(f)
  BY <1>1, ReceiveMoves
<1> HIDE DEF f
<1>3. f.header \in Seq(Byte) /\ Len(f.header) = 3 /\ f.pos = 3 /\ f.body = << >>
  BY <1>1, <1>2 DEF Reading, ReaderType, HeaderSize
<1>4. Held(f) = f.header
  BY <1>1, <1>3 DEF Held
<1>5. f.header \o << >> = f.header
  BY <1>3, ConcatEmptySeq
<1>6. Len(Held(f)) = HeaderSize + BodySize(f.header) /\ Held(f) = f.header \o f.body
  BY <1>1, <1>3, <1>4, <1>5 DEF HeaderSize
<1> QED BY <1>1, <1>6, CompleteMessage DEF f

\* A body that is complete ends a message.
LEMMA ReadBodyDelivers ==
  ASSUME ReaderInv, ReadBody
  PROVE  /\ ReaderInv'
         /\ Len(delivered) < Len(sent)
         /\ delivered' = Append(delivered, sent[Len(delivered) + 1])
<1> DEFINE f == Filled(reader, Chunk)
<1>1. Receive /\ f.state = "READING_BODY" /\ f.remain = 0 /\ ReadDone(f)
  BY DEF ReadBody
<1>2. Reading(f)
  BY <1>1, ReceiveMoves
<1> HIDE DEF f
<1>3. /\ f.header \in Seq(Byte) /\ Len(f.header) = 3 /\ f.body \in Seq(Byte)
      /\ f.pos = Len(f.body) /\ Len(f.body) = BodySize(f.header)
  BY <1>1, <1>2 DEF Reading, ReaderType, HeaderSize
<1>4. Held(f) = f.header \o f.body
  <2>1. SubSeq(f.body, 1, f.pos) = f.body
    BY <1>3
  <2> QED BY <1>1, <2>1 DEF Held
<1>5. Len(f.header \o f.body) = Len(f.header) + Len(f.body)
  BY <1>3, ConcatProperties
<1>6. Len(Held(f)) = HeaderSize + BodySize(f.header)
  BY <1>3, <1>4, <1>5 DEF HeaderSize
<1> QED BY <1>1, <1>4, <1>6, CompleteMessage DEF f

\* A failed recv() happens on a broken connection only; it may move the
\* position before the buffer, but it delivers nothing.
LEMMA ReadFailsKeepsInv ==
  ASSUME ReaderInv, ReadFails
  PROVE  ReaderInv'
<1>1. /\ broken /\ broken' = broken /\ fdRead' = FALSE
      /\ reader' = [reader EXCEPT !.pos = @ - 1, !.remain = @ + 1]
      /\ UNCHANGED <<sent, network, arrived, delivered>>
  BY DEF ReadFails
<1>2. TypeOK /\ reader \in ReaderType /\ Len(delivered) <= Len(sent)
  BY TypeFacts DEF ReaderInv
<1>3. reader' \in ReaderType
  <2>1. reader.pos - 1 \in Int /\ reader.remain + 1 \in Nat
    BY <1>2 DEF ReaderType
  <2>2. reader = [state |-> reader.state, header |-> reader.header,
                  body |-> reader.body, pos |-> reader.pos, remain |-> reader.remain]
    BY <1>2 DEF ReaderType
  <2>3. reader' = [state |-> reader.state, header |-> reader.header,
                   body |-> reader.body, pos |-> reader.pos - 1,
                   remain |-> reader.remain + 1]
    BY <1>1, <2>2
  <2>4. /\ reader.state \in {"READING_HEADER", "READING_BODY"}
        /\ reader.header \in Seq(Byte) /\ reader.body \in Seq(Byte)
    BY <1>2 DEF ReaderType
  <2> QED BY <2>1, <2>3, <2>4 DEF ReaderType
<1>4. TypeOK'
  BY <1>1, <1>2, <1>3 DEF TypeOK, ReaderType
<1> QED BY <1>1, <1>2, <1>4 DEF ReaderInv

\* A reset leaves nothing to be promised.
LEMMA ResetKeepsInv ==
  ASSUME ReaderInv, Reset
  PROVE  ReaderInv'
<1>1. << >> \in Seq(Byte)
  OBVIOUS
<1> QED BY <1>1 DEF Reset, ReaderInv, TypeOK

\* Every step keeps it.
LEMMA ReaderStep == ReaderInv /\ [Next]_vars => ReaderInv'
<1> SUFFICES ASSUME ReaderInv, [Next]_vars PROVE ReaderInv'
  OBVIOUS
<1>1. ASSUME NEW m \in Messages, PeerSend(m) PROVE ReaderInv'
  BY <1>1, PeerSendKeepsInv
<1>2. ASSUME NEW k \in 1..Len(network), Arrive(k) PROVE ReaderInv'
  BY <1>2, ArriveKeepsInv
<1>3. ASSUME OnMsgSocketRead PROVE ReaderInv'
  BY <1>3, ReadPartKeepsInv, ReadHeaderKeepsInv, ReadEmptyMessageDelivers,
     ReadBodyDelivers, ReadFailsKeepsInv DEF OnMsgSocketRead
<1>4. CASE UNCHANGED vars
  BY <1>4 DEF vars, ReaderInv, TypeOK, Ahead
<1> QED BY <1>1, <1>2, <1>3, <1>4, ResetKeepsInv DEF Next

---------------------------------------------------------------------------
\* The reader's fields and the connection always have their types.
THEOREM ReaderTypeCorrect == Spec => []TypeOK
<1>1. ReaderInv => TypeOK
  BY DEF ReaderInv
<1> QED BY ReaderInit, ReaderStep, <1>1, PTL DEF Spec

\* recv() is always asked for a part of the buffer that is there, at least a
\* byte of it, whatever the lengths in the headers.
THEOREM ReaderStaysInBuffer == Spec => []RecvStaysInBuffer
<1>1. ReaderInv => RecvStaysInBuffer
  <2>1. SUFFICES ASSUME ReaderInv, ~broken PROVE RecvStaysInBuffer
    BY DEF RecvStaysInBuffer
  <2>2. Reading(reader) /\ reader.remain > 0
    BY <2>1 DEF ReaderInv
  <2>3. reader \in ReaderType /\ Len(reader.header) = 3
    BY <2>2 DEF Reading, HeaderSize
  <2>4. CASE reader.state = "READING_HEADER"
    <3>1. reader.pos \in 0..3 /\ reader.remain = 3 - reader.pos
      BY <2>2, <2>4 DEF Reading, HeaderSize
    <3>2. reader.pos >= 0 /\ reader.pos + reader.remain = 3
      BY <3>1
    <3> QED BY <2>2, <2>3, <2>4, <3>2 DEF RecvStaysInBuffer
  <2>5. CASE reader.state = "READING_BODY"
    <3>1. /\ reader.pos \in 0..Len(reader.body)
          /\ reader.remain = Len(reader.body) - reader.pos /\ Len(reader.body) \in Nat
      BY <2>2, <2>3, <2>5 DEF Reading, ReaderType
    <3>2. reader.pos >= 0 /\ reader.pos + reader.remain = Len(reader.body)
      BY <3>1
    <3> QED BY <2>2, <2>5, <3>2 DEF RecvStaysInBuffer
  <2> QED BY <2>3, <2>4, <2>5 DEF ReaderType
<1> QED BY ReaderInit, ReaderStep, <1>1, PTL DEF Spec

\* Each step of the reader is a step of the channel or changes none of what
\* the channel sees.
LEMMA ChannelStep == ReaderInv /\ [Next]_vars => [Channel!Next]_(Channel!vars)
<1> SUFFICES ASSUME ReaderInv, [Next]_vars PROVE [Channel!Next]_(Channel!vars)
  OBVIOUS
<1> USE DEF Channel!vars
<1>1. ASSUME NEW m \in Messages, PeerSend(m) PROVE Channel!Next
  BY <1>1 DEF PeerSend, Channel!Next, Channel!Send
<1>2. ASSUME NEW k \in 1..Len(network), Arrive(k) PROVE UNCHANGED Channel!vars
  BY <1>2 DEF Arrive
<1>3. CASE Reset
  BY <1>3 DEF Reset, Channel!Next, Channel!Break
<1>4. CASE ReadPart \/ ReadHeader \/ ReadFails
  BY <1>4 DEF ReadPart, ReadHeader, ReadFails, Receive
<1>5. CASE ReadEmptyMessage \/ ReadBody
  <2>1. ~broken /\ UNCHANGED <<sent, broken>>
    BY <1>5 DEF ReadEmptyMessage, ReadBody, Receive
  <2>2. /\ Len(delivered) < Len(sent)
        /\ delivered' = Append(delivered, sent[Len(delivered) + 1])
    BY <1>5, ReadEmptyMessageDelivers, ReadBodyDelivers
  <2> QED BY <2>1, <2>2 DEF Channel!Next, Channel!Deliver
<1>6. CASE UNCHANGED vars
  BY <1>6 DEF vars
<1> QED BY <1>1, <1>2, <1>3, <1>4, <1>5, <1>6 DEF Next, OnMsgSocketRead

\* The handlers get the messages that were sent, each once, whole and in
\* order, until the connection breaks: the reader implements MessageChannel.
THEOREM ReaderDeliversMessages == Spec => DeliversMessages
<1>1. Init => Channel!Init
  BY DEF Init, Channel!Init
<1>2. ReaderInv /\ [Next]_vars => [Channel!Next]_(Channel!vars)
  BY ChannelStep
<1> QED BY <1>1, <1>2, ReaderInit, ReaderStep, PTL
        DEF Spec, DeliversMessages, Channel!Spec
============================================================================
