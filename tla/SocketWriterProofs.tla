------------------------ MODULE SocketWriterProofs ------------------------
(***************************************************************************)
(* Proofs about SocketWriter, for every set of frame sizes, every capacity *)
(* and whole or partial sends.                                             *)
(*                                                                         *)
(* IntactUntilDisturbed is not inductive: it speaks of the pending bytes,  *)
(* so the proof has to know that m_writePos and m_remainSize delimit the   *)
(* rest of m_buf (Window), and that an idle writer has no buffer           *)
(* (ReadyIffDrained).                                                      *)
(*                                                                         *)
(* NothingOvertaken needs more: a refused send moves m_writePos back, and  *)
(* two in a row would send bytes again that others have overtaken.  That   *)
(* it takes one step back at most, into bytes that were sent, is due to    *)
(* Winsock: the FD_WRITE after a refusal comes when there is room, and in  *)
(* the meantime nobody else sends (NoRefusal).                             *)
(***************************************************************************)
EXTENDS SocketWriter, SequenceTheorems, TLAPS

\* The pending bytes are the end of m_buf.
Window == ~disturbed => /\ writer.pos \in Nat
                        /\ writer.pos + writer.remain = Len(writer.buf)

WriterInv == TypeOK /\ ReadyIffDrained /\ Window /\ IntactUntilDisturbed

WriterType ==
  [buf : Seq(Nat), pos : Int, remain : Nat, state : {"READY", "WRITING"}]

---------------------------------------------------------------------------
\* send() is refused or takes at least one byte and at most the request.
LEMMA SendResultsBounded ==
  ASSUME NEW n \in Nat \ {0}, NEW r \in SendResults(n)
  PROVE  r = Refused \/ r \in 1..n
BY WriterAssumption DEF SendResults, Refused

\* The pending bytes are a sequence of m_remainSize bytes.
LEMMA PendingType ==
  ASSUME NEW w \in WriterType
  PROVE  Pending(w) \in Seq(Nat) /\ Len(Pending(w)) = w.remain
BY DEF Pending, WriterType, Garbage

\* A frame is a sequence of size new bytes.
LEMMA NextFrameType ==
  ASSUME NEW size \in Nat, submitted \in Nat
  PROVE  NextFrame(size) \in Seq(Nat) /\ Len(NextFrame(size)) = size
BY DEF NextFrame

\* After a send that took k bytes, the pending bytes are the ones behind them.
LEMMA SentPending ==
  ASSUME NEW w \in WriterType, NEW k \in 1..w.remain
  PROVE  SubSeq(Pending(w), 1, k) \o Pending(Sent(w, k)) = Pending(w)
<1> DEFINE P == Pending(w)
<1>1. P \in Seq(Nat) /\ Len(P) = w.remain
  BY PendingType
<1>2. CASE k = w.remain
  <2>1. Pending(Sent(w, k)) = << >>
    BY <1>2 DEF Sent, Cleared, Pending, WriterType
  <2>2. SubSeq(P, 1, k) = P
    BY <1>1, <1>2
  <2> QED BY <1>1, <2>1, <2>2
<1>3. CASE k < w.remain
  <2> DEFINE R == Pending(Sent(w, k))
  <2>1. R = [i \in 1..(w.remain - k) |-> P[k + i]]
    BY <1>3 DEF Sent, Pending, WriterType
  <2> HIDE DEF P, R
  <2>2. R = SubSeq(P, k + 1, w.remain)
    BY <1>1, <1>3, <2>1 DEF WriterType
  <2>3. SubSeq(P, 1, k) \o SubSeq(P, k + 1, w.remain) = SubSeq(P, 1, w.remain)
    BY <1>1, <1>3, ConcatAdjacentSubSeq DEF WriterType
  <2>4. SubSeq(P, 1, w.remain) = P
    BY <1>1
  <2> QED BY <2>2, <2>3, <2>4 DEF P, R
<1> QED BY <1>2, <1>3 DEF WriterType

\* What a send() does to the invariant, whoever called write().
LEMMA SendKeepsInv ==
  ASSUME NEW w \in WriterType, w.remain > 0, w.buf # << >>,
         wire \in Seq(Nat), inFlight \in Nat, blocked \in BOOLEAN,
         disturbed \in BOOLEAN, SendPending(w),
         ~disturbed => /\ w.pos \in Nat
                       /\ w.pos + w.remain = Len(w.buf)
  PROVE  /\ writer' \in WriterType
         /\ wire' \in Seq(Nat) /\ inFlight' \in Nat /\ blocked' \in BOOLEAN
         /\ disturbed' \in BOOLEAN /\ (disturbed => disturbed')
         /\ ReadyIffDrained'
         /\ Window'
         /\ ~disturbed' => wire' \o Pending(writer') = wire \o Pending(w)
<1>0. w.remain \in Nat \ {0}
  BY DEF WriterType
<1>1. PICK sent \in SendResults(w.remain) :
        /\ writer' = Sent(w, sent)
        /\ IF sent = Refused
           THEN /\ blocked' = TRUE
                /\ disturbed' = TRUE
                /\ UNCHANGED <<wire, inFlight>>
           ELSE /\ wire' = wire \o SubSeq(Pending(w), 1, sent)
                /\ inFlight' = inFlight + sent
                /\ UNCHANGED <<blocked, disturbed>>
  BY DEF SendPending
<1>2. sent = Refused \/ sent \in 1..w.remain
  BY <1>0, <1>1, SendResultsBounded
<1>3. /\ writer' \in WriterType
      /\ ReadyIffDrained'
  <2>1. CASE sent = w.remain
    <3>1. writer' = [buf |-> << >>, pos |-> 0, remain |-> 0, state |-> "READY"]
      BY <1>1, <2>1 DEF Sent, Cleared
    <3>2. << >> \in Seq(Nat)
      BY EmptySeq
    <3> QED BY <3>1, <3>2 DEF WriterType, ReadyIffDrained
  <2>2. CASE sent # w.remain
    <3>1. /\ writer' \in WriterType /\ writer'.state = "WRITING"
          /\ writer'.buf = w.buf /\ writer'.remain = w.remain - sent
          /\ writer'.remain # 0
      <4>1. writer' = [w EXCEPT !.pos = @ + sent, !.remain = @ - sent,
                                !.state = "WRITING"]
        BY <1>1, <2>2 DEF Sent
      <4>2. sent \in Int /\ w.remain - sent \in Nat \ {0}
        BY <1>0, <1>2, <2>2 DEF Refused
      <4>3. w.buf \in Seq(Nat) /\ w.pos + sent \in Int
        BY <1>2, <4>2 DEF WriterType
      <4>4. writer' = [buf |-> w.buf, pos |-> w.pos + sent,
                       remain |-> w.remain - sent, state |-> "WRITING"]
        BY <4>1 DEF WriterType
      <4> QED BY <4>2, <4>3, <4>4 DEF WriterType
    <3> QED BY <3>1 DEF ReadyIffDrained
  <2> QED BY <2>1, <2>2
<1>4. CASE sent = Refused
  BY <1>1, <1>3, <1>4 DEF Window
<1>5. CASE sent \in 1..w.remain
  <2> DEFINE P == Pending(w)
  <2>1. sent # Refused
    BY <1>5 DEF Refused
  <2>2. P \in Seq(Nat) /\ Len(P) = w.remain
    BY PendingType
  <2>3. SubSeq(P, 1, sent) \in Seq(Nat)
    BY <1>0, <1>5, <2>2
  <2>4. /\ wire' = wire \o SubSeq(P, 1, sent)
        /\ inFlight' = inFlight + sent
        /\ blocked' = blocked /\ disturbed' = disturbed
    BY <1>1, <2>1
  <2>5. Window'
    BY <1>0, <1>1, <1>5, <2>4 DEF Window, Sent, Cleared, WriterType
  <2>6. Pending(writer') \in Seq(Nat)
    BY <1>3, PendingType
  <2>7. wire' \o Pending(writer') = wire \o P
    <3>1. SubSeq(P, 1, sent) \o Pending(writer') = P
      BY <1>1, <1>5, SentPending
    <3>2. (wire \o SubSeq(P, 1, sent)) \o Pending(writer')
            = wire \o (SubSeq(P, 1, sent) \o Pending(writer'))
      <4> DEFINE Q == SubSeq(P, 1, sent)
      <4> DEFINE R == Pending(writer')
      <4>1. wire \in Seq(Nat) /\ Q \in Seq(Nat) /\ R \in Seq(Nat)
        BY <2>3, <2>6
      <4> HIDE DEF Q, R
      <4>2. (wire \o Q) \o R = wire \o (Q \o R)
        BY <4>1, ConcatAssociative
      <4> QED BY <4>2 DEF Q, R
    <3> QED BY <2>4, <3>1, <3>2
  <2>8. wire' \in Seq(Nat) /\ inFlight' \in Nat
    BY <1>0, <1>5, <2>3, <2>4
  <2> QED BY <1>3, <2>4, <2>5, <2>7, <2>8
<1> QED BY <1>2, <1>4, <1>5

---------------------------------------------------------------------------
\* The new object of a connection satisfies the invariant.
LEMMA WriterInit == Init => WriterInv
<1> SUFFICES ASSUME Init PROVE WriterInv
  OBVIOUS
<1>1. << >> \in Seq(Nat)
  BY EmptySeq
<1>2. TypeOK
  <2>1. writer \in WriterType
    BY <1>1 DEF Init, NewWriter, WriterType
  <2>2. wire \in Seq(Nat)
    BY <1>1 DEF Init
  <2> QED BY <2>1, <2>2 DEF Init, TypeOK, WriterType
<1>3. ReadyIffDrained /\ Window
  BY DEF Init, NewWriter, ReadyIffDrained, Window
<1>4. Pending(writer) = << >>
  BY DEF Init, NewWriter, Pending
<1>5. [i \in 1..submitted |-> i] = << >>
  BY DEF Init
<1>6. wire \o << >> = << >>
  BY DEF Init
<1> QED BY <1>2, <1>3, <1>4, <1>5, <1>6 DEF WriterInv, IntactUntilDisturbed

\* The frame that a handler submits continues the stream.
LEMMA NextFrameContinues ==
  ASSUME submitted \in Nat, NEW size \in Nat
  PROVE  [i \in 1..submitted |-> i] \o NextFrame(size)
           = [i \in 1..submitted + size |-> i]
<1> DEFINE A == [i \in 1..submitted |-> i]
<1> DEFINE B == [i \in 1..submitted + size |-> i]
<1> DEFINE F == NextFrame(size)
<1>1. A \in Seq(Nat) /\ Len(A) = submitted
  OBVIOUS
<1>2. B \in Seq(Nat) /\ Len(B) = submitted + size
  OBVIOUS
<1>3. F \in Seq(Nat) /\ Len(F) = size
  BY NextFrameType
<1>4. /\ A \o F \in Seq(Nat)
      /\ Len(A \o F) = submitted + size
      /\ \A i \in 1..submitted + size :
           (A \o F)[i] = IF i <= submitted THEN A[i] ELSE F[i - submitted]
  <2> HIDE DEF A, F
  <2> QED BY <1>1, <1>3, ConcatProperties
<1>5. \A i \in 1..submitted + size : (A \o F)[i] = B[i]
  <2> SUFFICES ASSUME NEW i \in 1..submitted + size PROVE (A \o F)[i] = B[i]
    OBVIOUS
  <2>1. CASE i <= submitted
    BY <1>4, <2>1
  <2>2. CASE i > submitted
    <3>1. F[i - submitted] = submitted + (i - submitted)
      BY <2>2 DEF NextFrame
    <3>2. (A \o F)[i] = F[i - submitted]
      BY <1>4, <2>2
    <3>3. B[i] = i
      OBVIOUS
    <3> HIDE DEF A, B, F
    <3> QED BY <3>1, <3>2, <3>3
  <2>3. i <= submitted \/ i > submitted
    OBVIOUS
  <2> QED BY <2>1, <2>2, <2>3, Zenon
<1> HIDE DEF A, B, F
<1>6. A \o F = B
  BY <1>2, <1>4, <1>5, SeqEqual
<1> QED BY <1>6 DEF A, B, F

---------------------------------------------------------------------------
\* writeBuffer on an idle writer keeps the invariant.
LEMMA WriteBufferReadyKeepsInv ==
  ASSUME WriterInv, NEW size \in FrameSizes, WriteBufferReady(size)
  PROVE  WriterInv'
<1> DEFINE F == NextFrame(size)
<1> DEFINE w == AppendWriteBuffer(writer, F)
<1>0. /\ writer \in WriterType /\ submitted \in Nat /\ wire \in Seq(Nat)
      /\ inFlight \in Nat /\ blocked \in BOOLEAN /\ fdWrite \in BOOLEAN
      /\ disturbed \in BOOLEAN
  BY DEF WriterInv, TypeOK, WriterType
<1>1. size \in Nat \ {0}
  BY WriterAssumption
<1>2. F \in Seq(Nat) /\ Len(F) = size
  BY <1>0, <1>1, NextFrameType
<1>3. writer.buf = << >> /\ writer.remain = 0
  BY DEF WriteBufferReady, WriterInv, ReadyIffDrained
<1>4. SendPending(w) /\ submitted' = submitted + size /\ fdWrite' = fdWrite
  BY DEF WriteBufferReady
<1>5. w = [buf |-> F, pos |-> 0, remain |-> Len(F), state |-> writer.state]
  BY <1>3 DEF AppendWriteBuffer
<1> HIDE DEF F, w
<1>6. w \in WriterType /\ w.remain = size /\ w.buf = F /\ w.pos = 0
  BY <1>0, <1>1, <1>2, <1>5 DEF WriterType
<1>7. /\ w.buf # << >> /\ w.remain > 0
      /\ ~disturbed => /\ w.pos \in Nat
                       /\ w.pos + w.remain = Len(w.buf)
  BY <1>1, <1>2, <1>6
<1>8. /\ writer' \in WriterType
      /\ wire' \in Seq(Nat) /\ inFlight' \in Nat /\ blocked' \in BOOLEAN
      /\ disturbed' \in BOOLEAN /\ (disturbed => disturbed')
      /\ ReadyIffDrained'
      /\ Window'
      /\ ~disturbed' => wire' \o Pending(writer') = wire \o Pending(w)
  BY <1>0, <1>4, <1>6, <1>7, SendKeepsInv
<1>9. ASSUME ~disturbed' PROVE wire' \o Pending(writer') = [i \in 1..submitted' |-> i]
  <2>1. Pending(writer) = << >>
    BY <1>3 DEF Pending
  <2>2. wire = [i \in 1..submitted |-> i]
    <3>1. wire \o << >> = wire
      BY <1>0, ConcatEmptySeq
    <3> QED BY <1>8, <1>9, <2>1, <3>1 DEF WriterInv, IntactUntilDisturbed
  <2>3. Pending(w) = F
    BY <1>1, <1>2, <1>6 DEF Pending
  <2>4. wire \o F = [i \in 1..submitted + size |-> i]
    BY <1>0, <1>1, <2>2, NextFrameContinues DEF F
  <2> QED BY <1>4, <1>8, <1>9, <2>3, <2>4
<1>10. TypeOK'
  BY <1>0, <1>1, <1>4, <1>8 DEF TypeOK, WriterType
<1> QED BY <1>8, <1>9, <1>10 DEF WriterInv, IntactUntilDisturbed

\* So does writeBuffer on a busy one.
LEMMA WriteBufferBusyKeepsInv ==
  ASSUME WriterInv, NEW size \in FrameSizes, WriteBufferBusy(size)
  PROVE  WriterInv'
<1> DEFINE F == NextFrame(size)
<1>0. /\ writer \in WriterType /\ submitted \in Nat /\ wire \in Seq(Nat)
      /\ inFlight \in Nat /\ blocked \in BOOLEAN /\ fdWrite \in BOOLEAN
      /\ disturbed \in BOOLEAN
  BY DEF WriterInv, TypeOK, WriterType
<1>1. size \in Nat \ {0}
  BY WriterAssumption
<1>2. F \in Seq(Nat) /\ Len(F) = size
  BY <1>0, <1>1, NextFrameType
<1>3. /\ writer' = [buf |-> Pending(writer) \o F, pos |-> 0,
                    remain |-> Len(F), state |-> "WRITING"]
      /\ submitted' = submitted + size
      /\ disturbed' = TRUE
      /\ wire' = wire /\ inFlight' = inFlight /\ blocked' = blocked
      /\ fdWrite' = fdWrite
  BY DEF WriteBufferBusy, AppendWriteBuffer, Winsock, WriterInv, ReadyIffDrained
<1>4. Pending(writer) \in Seq(Nat)
  BY <1>0, PendingType
<1> HIDE DEF F
<1>5. /\ Pending(writer) \o F \in Seq(Nat)
      /\ Len(Pending(writer) \o F) = Len(Pending(writer)) + size
  BY <1>2, <1>4, ConcatProperties
<1>6. Pending(writer) \o F # << >>
  BY <1>1, <1>4, <1>5
<1>7. TypeOK'
  BY <1>0, <1>1, <1>2, <1>3, <1>5 DEF TypeOK
<1>8. ReadyIffDrained'
  BY <1>1, <1>2, <1>3, <1>6 DEF ReadyIffDrained
<1> QED BY <1>3, <1>7, <1>8 DEF WriterInv, Window, IntactUntilDisturbed

\* FD_WRITE keeps the invariant: it submits nothing, it only moves bytes.
LEMMA OnMsgSocketWriteKeepsInv ==
  ASSUME WriterInv, OnMsgSocketWrite
  PROVE  WriterInv'
<1>0. /\ writer \in WriterType /\ submitted \in Nat /\ wire \in Seq(Nat)
      /\ inFlight \in Nat /\ blocked \in BOOLEAN /\ fdWrite \in BOOLEAN
      /\ disturbed \in BOOLEAN
  BY DEF WriterInv, TypeOK, WriterType
<1>1. CASE writer.remain = 0
  <2>1. /\ UNCHANGED <<writer, submitted, wire, inFlight, blocked, disturbed>>
        /\ fdWrite' \in BOOLEAN
    BY <1>1 DEF OnMsgSocketWrite
  <2> QED BY <2>1 DEF WriterInv, TypeOK, ReadyIffDrained, Window,
                      IntactUntilDisturbed, Pending
<1>2. CASE writer.remain # 0
  <2>1. SendPending(writer) /\ submitted' = submitted /\ fdWrite' = FALSE
    BY <1>2 DEF OnMsgSocketWrite
  <2>2. writer.remain > 0 /\ writer.buf # << >>
    BY <1>0, <1>2 DEF WriterInv, ReadyIffDrained, WriterType
  <2>3. ~disturbed => writer.pos \in Nat
                      /\ writer.pos + writer.remain = Len(writer.buf)
    BY DEF WriterInv, Window
  <2>4. /\ writer' \in WriterType
        /\ wire' \in Seq(Nat) /\ inFlight' \in Nat /\ blocked' \in BOOLEAN
        /\ disturbed' \in BOOLEAN /\ (disturbed => disturbed')
        /\ ReadyIffDrained'
        /\ Window'
        /\ ~disturbed' => wire' \o Pending(writer') = wire \o Pending(writer)
    BY <1>0, <2>1, <2>2, <2>3, SendKeepsInv
  <2>5. TypeOK'
    BY <1>0, <2>1, <2>4 DEF TypeOK, WriterType
  <2>6. IntactUntilDisturbed'
    BY <1>0, <2>1, <2>4 DEF WriterInv, IntactUntilDisturbed
  <2> QED BY <2>4, <2>5, <2>6 DEF WriterInv
<1> QED BY <1>1, <1>2

\* Every step keeps it.
LEMMA WriterStep == WriterInv /\ [Next]_vars => WriterInv'
<1> SUFFICES ASSUME WriterInv, [Next]_vars PROVE WriterInv'
  OBVIOUS
<1>1. ASSUME NEW size \in FrameSizes, WriteBufferReady(size) PROVE WriterInv'
  BY <1>1, WriteBufferReadyKeepsInv
<1>2. ASSUME NEW size \in FrameSizes, WriteBufferBusy(size) PROVE WriterInv'
  BY <1>2, WriteBufferBusyKeepsInv
<1>3. ASSUME OnMsgSocketWrite PROVE WriterInv'
  BY <1>3, OnMsgSocketWriteKeepsInv
<1>4. ASSUME NEW k \in 1..inFlight, Drain(k) PROVE WriterInv'
  <2>1. /\ UNCHANGED <<writer, submitted, wire, disturbed>>
        /\ inFlight' = inFlight - k
        /\ blocked' \in BOOLEAN /\ fdWrite' \in BOOLEAN
    BY <1>4 DEF Drain, WriterInv, TypeOK
  <2>2. inFlight' \in Nat
    BY <2>1 DEF WriterInv, TypeOK
  <2> QED BY <2>1, <2>2 DEF WriterInv, TypeOK, ReadyIffDrained, Window,
                            IntactUntilDisturbed, Pending
<1>5. CASE UNCHANGED vars
  BY <1>5 DEF vars, WriterInv, TypeOK, ReadyIffDrained, Window,
              IntactUntilDisturbed, Pending
<1> QED BY <1>1, <1>2, <1>3, <1>4, <1>5 DEF Next

\* The fields of the writer always have their types: in particular the
\* number of bytes left to send never becomes negative.
THEOREM WriterTypeCorrect == Spec => []TypeOK
<1>1. WriterInv => TypeOK
  BY DEF WriterInv
<1> QED BY WriterInit, WriterStep, <1>1, PTL DEF Spec

\* The writer is READY exactly when nothing is left to send.
THEOREM WriterReadyIffDrained == Spec => []ReadyIffDrained
<1>1. WriterInv => ReadyIffDrained
  BY DEF WriterInv
<1> QED BY WriterInit, WriterStep, <1>1, PTL DEF Spec

\* Until a send is refused or a frame meets a backlog, the stream that goes
\* out is the stream that was submitted, whatever part of a request each
\* send() takes.
THEOREM WriterIntact == Spec => []IntactUntilDisturbed
<1>1. WriterInv => IntactUntilDisturbed
  BY DEF WriterInv
<1> QED BY WriterInit, WriterStep, <1>1, PTL DEF Spec

---------------------------------------------------------------------------
(* The order of the bytes.                                                 *)

Ordered(s) ==
  \A i, j \in 1..Len(s) : i < j /\ s[i] # Garbage /\ s[j] # Garbage => s[i] <= s[j]

\* What is in the buffer of w from byte p on does not come before out.
Behind(w, p, out) ==
  \A i \in 1..Len(out), j \in 1..Len(w.buf) :
    j >= p /\ out[i] # Garbage /\ w.buf[j] # Garbage => out[i] <= w.buf[j]

UpTo(s, n) == \A i \in 1..Len(s) : s[i] <= n

\* The next send is not refused.
NoRefusal == (blocked /\ ~fdWrite) \/ (fdWrite /\ inFlight < Capacity)

OrderInv ==
  /\ Ordered(wire) /\ Ordered(writer.buf)
  /\ UpTo(wire, submitted) /\ UpTo(writer.buf, submitted)
  /\ Behind(writer, writer.pos + 1, wire)
  /\ writer.pos >= 1 => Behind(writer, writer.pos, wire) \/ NoRefusal

\* A pending byte is one of the buffer behind m_writePos, or garbage.
LEMMA PendingByte ==
  ASSUME NEW w \in WriterType, NEW i \in 1..w.remain, Pending(w)[i] # Garbage
  PROVE  w.pos + i \in 1..Len(w.buf) /\ Pending(w)[i] = w.buf[w.pos + i]
<1>1. w.buf \in Seq(Nat) /\ DOMAIN w.buf = 1..Len(w.buf)
  BY DEF WriterType
<1> QED BY <1>1 DEF Pending

\* A refusal moves the position back by one byte.
LEMMA RefusedOrder ==
  ASSUME NEW w \in WriterType, w.remain > 0, Ordered(w.buf),
         Behind(w, w.pos + 1, wire),
         w.pos >= 1 => Behind(w, w.pos, wire)
  PROVE  /\ Sent(w, Refused).buf = w.buf /\ Sent(w, Refused).pos = w.pos - 1
         /\ Behind(Sent(w, Refused), Sent(w, Refused).pos + 1, wire)
<1> DEFINE v == Sent(w, Refused)
<1>1. w.pos \in Int /\ w.remain \in Nat /\ w.buf \in Seq(Nat)
  BY DEF WriterType
<1>2. v.buf = w.buf /\ v.pos = w.pos - 1
  <2>1. Refused # w.remain
    BY <1>1 DEF Refused
  <2>2. v = [w EXCEPT !.pos = @ + Refused, !.remain = @ - Refused, !.state = "WRITING"]
    BY <2>1 DEF Sent
  <2>3. w = [buf |-> w.buf, pos |-> w.pos, remain |-> w.remain, state |-> w.state]
    BY DEF WriterType
  <2>4. v.buf = w.buf /\ v.pos = w.pos + Refused
    BY <2>2, <2>3
  <2>5. w.pos + Refused = w.pos - 1
    BY <1>1 DEF Refused
  <2> QED BY <2>4, <2>5
<1>3. Behind(w, w.pos, wire)
  <2>1. CASE w.pos >= 1
    BY <2>1
  <2>2. CASE ~(w.pos >= 1)
    <3>1. \A j \in 1..Len(w.buf) : j >= w.pos + 1
      BY <1>1, <2>2
    <3> QED BY <3>1 DEF Behind
  <2> QED BY <2>1, <2>2
<1>4. v.pos + 1 = w.pos
  BY <1>1, <1>2
<1> HIDE DEF v
<1>5. Behind(v, v.pos + 1, wire)
  BY <1>2, <1>3, <1>4 DEF Behind
<1> QED BY <1>2, <1>5 DEF v

\* Bytes that were taken continue the wire in order, and those that are left
\* do not come before them, nor does the last one that was taken.
LEMMA TakenOrder ==
  ASSUME NEW w \in WriterType, NEW k \in 1..w.remain, NEW n \in Nat,
         wire \in Seq(Nat), Ordered(wire), Ordered(w.buf),
         UpTo(wire, n), UpTo(w.buf, n), Behind(w, w.pos + 1, wire)
  PROVE  LET out == wire \o SubSeq(Pending(w), 1, k)
             v == Sent(w, k)
         IN  /\ Ordered(out) /\ UpTo(out, n)
             /\ Ordered(v.buf) /\ UpTo(v.buf, n)
             /\ Behind(v, v.pos, out) /\ Behind(v, v.pos + 1, out)
<1> DEFINE P == Pending(w)
<1> DEFINE Q == SubSeq(P, 1, k)
<1> DEFINE out == wire \o Q
<1> DEFINE v == Sent(w, k)
<1> DEFINE z == Len(wire)
<1>1. w.pos \in Int /\ w.remain \in Nat /\ w.buf \in Seq(Nat) /\ z \in Nat
      /\ Len(w.buf) \in Nat
  BY DEF WriterType
<1>2. P \in Seq(Nat) /\ Len(P) = w.remain
  BY PendingType
<1>3. \A i \in 1..k : P[i] # Garbage =>
        w.pos + i \in 1..Len(w.buf) /\ P[i] = w.buf[w.pos + i]
  BY <1>1, PendingByte
<1> HIDE DEF P
<1>4. Q \in Seq(Nat) /\ Len(Q) = k /\ \A i \in 1..k : Q[i] = P[i]
  BY <1>1, <1>2
<1> HIDE DEF Q
<1>5. /\ out \in Seq(Nat) /\ Len(out) = z + k
      /\ \A x \in 1..(z + k) : out[x] = IF x <= z THEN wire[x] ELSE Q[x - z]
  BY <1>4, ConcatProperties
<1> HIDE DEF out
\* Where a byte that is out comes from.
<1>6. \A x \in 1..Len(out) : out[x] # Garbage =>
        \/ x \in 1..z /\ out[x] = wire[x]
        \/ /\ x - z \in 1..k
           /\ w.pos + (x - z) \in 1..Len(w.buf) /\ out[x] = w.buf[w.pos + (x - z)]
  <2> SUFFICES ASSUME NEW x \in 1..Len(out), out[x] # Garbage, ~(x \in 1..z)
               PROVE  /\ x - z \in 1..k /\ w.pos + (x - z) \in 1..Len(w.buf)
                      /\ out[x] = w.buf[w.pos + (x - z)]
    BY <1>1, <1>5
  <2>1. x \in 1..(z + k) /\ ~(x <= z) /\ x - z \in 1..k
    BY <1>1, <1>5
  <2>2. out[x] = Q[x - z]
    BY <1>5, <2>1
  <2>3. out[x] = P[x - z]
    BY <1>4, <2>1, <2>2
  <2> QED BY <1>3, <2>1, <2>3
<1>7. Ordered(out)
  <2> SUFFICES ASSUME NEW x \in 1..Len(out), NEW y \in 1..Len(out), x < y,
                      out[x] # Garbage, out[y] # Garbage
               PROVE  out[x] <= out[y]
    BY DEF Ordered
  <2> DEFINE a == w.pos + (x - z)
  <2> DEFINE b == w.pos + (y - z)
  <2>0. x \in Int /\ y \in Int
    BY <1>1, <1>5
  <2>1. CASE y \in 1..z /\ out[y] = wire[y]
    <3>1. x \in 1..z /\ ~(x - z \in 1..k)
      BY <1>1, <1>5, <2>1, SMTT(30)
    <3>2. out[x] = wire[x]
      BY <1>6, <3>1
    <3> QED BY <2>1, <3>1, <3>2 DEF Ordered
  <2>2. CASE y - z \in 1..k /\ b \in 1..Len(w.buf) /\ out[y] = w.buf[b]
    <3>1. CASE x \in 1..z /\ out[x] = wire[x]
      <4>1. b >= w.pos + 1
        BY <1>1, <2>0, <2>2
      <4> HIDE DEF b
      <4> QED BY <2>2, <3>1, <4>1 DEF Behind
    <3>2. CASE x - z \in 1..k /\ a \in 1..Len(w.buf) /\ out[x] = w.buf[a]
      <4>1. a < b
        BY <1>1, <2>0
      <4> HIDE DEF a, b
      <4> QED BY <2>2, <3>2, <4>1 DEF Ordered
    <3> QED BY <1>6, <3>1, <3>2
  <2> QED BY <1>6, <2>1, <2>2
<1>8. UpTo(out, n)
  <2> SUFFICES ASSUME NEW x \in 1..Len(out) PROVE out[x] <= n
    BY DEF UpTo
  <2>1. CASE out[x] = Garbage
    BY <2>1 DEF Garbage
  <2>2. CASE out[x] # Garbage
    BY <1>6, <2>2 DEF UpTo
  <2> QED BY <2>1, <2>2
<1>9. CASE k = w.remain
  <2>1. v.buf = << >>
    BY <1>9 DEF Sent, Cleared
  <2>2. \A j \in 1..Len(v.buf) : FALSE
    BY <2>1
  <2> HIDE DEF v
  <2>3. Ordered(v.buf) /\ UpTo(v.buf, n)
    BY <2>2 DEF Ordered, UpTo
  <2>4. Behind(v, v.pos, out) /\ Behind(v, v.pos + 1, out)
    BY <2>2 DEF Behind
  <2> QED BY <1>7, <1>8, <2>3, <2>4 DEF v, out, Q, P
<1>10. CASE k # w.remain
  <2>1. v.buf = w.buf /\ v.pos = w.pos + k
    <3>1. v = [w EXCEPT !.pos = @ + k, !.remain = @ - k, !.state = "WRITING"]
      BY <1>10 DEF Sent
    <3>2. w = [buf |-> w.buf, pos |-> w.pos, remain |-> w.remain, state |-> w.state]
      BY DEF WriterType
    <3> QED BY <3>1, <3>2
  <2> HIDE DEF v
  <2>2. Behind(v, v.pos, out)
    <3> SUFFICES ASSUME NEW x \in 1..Len(out), NEW j \in 1..Len(w.buf), j >= w.pos + k,
                        out[x] # Garbage, w.buf[j] # Garbage
                 PROVE  out[x] <= w.buf[j]
      BY <2>1 DEF Behind
    <3> DEFINE a == w.pos + (x - z)
    <3>0. x \in Int
      BY <1>1, <1>5
    <3>1. CASE x \in 1..z /\ out[x] = wire[x]
      <4>1. j >= w.pos + 1
        BY <1>1
      <4> QED BY <3>1, <4>1 DEF Behind
    <3>2. CASE x - z \in 1..k /\ a \in 1..Len(w.buf) /\ out[x] = w.buf[a]
      <4>1. a <= j
        BY <1>1, <3>0, <3>2, SMTT(30)
      <4>2. w.buf[j] \in Nat
        BY <1>1, SMTT(30)
      <4> HIDE DEF a
      <4>3. a < j => w.buf[a] <= w.buf[j]
        BY <3>2 DEF Ordered
      <4>4. a < j \/ a = j
        BY <1>1, <3>2, <4>1
      <4>5. a = j => w.buf[a] <= w.buf[j]
        BY <4>2
      <4> QED BY <3>2, <4>3, <4>4, <4>5
    <3> QED BY <1>6, <3>1, <3>2
  <2>3. Behind(v, v.pos + 1, out)
    <3>1. \A j \in 1..Len(v.buf) : j >= v.pos + 1 => j >= v.pos
      BY <1>1, <2>1
    <3> QED BY <2>2, <3>1 DEF Behind
  <2> QED BY <1>7, <1>8, <2>1, <2>2, <2>3 DEF v, out, Q, P
<1> QED BY <1>9, <1>10

\* What a write() does to the order, whoever called it.
LEMMA SendKeepsOrder ==
  ASSUME NEW w \in WriterType, w.remain > 0, NEW n \in Nat,
         wire \in Seq(Nat), inFlight \in Nat, SendPending(w),
         Ordered(wire), Ordered(w.buf), UpTo(wire, n), UpTo(w.buf, n),
         Behind(w, w.pos + 1, wire),
         w.pos >= 1 => Behind(w, w.pos, wire) \/ inFlight < Capacity
  PROVE  /\ Ordered(wire') /\ UpTo(wire', n)
         /\ Ordered(writer'.buf) /\ UpTo(writer'.buf, n)
         /\ Behind(writer', writer'.pos + 1, wire')
         /\ writer'.pos >= 1 =>
              Behind(writer', writer'.pos, wire') \/ (blocked' /\ w.pos >= 1)
<1>0. w.remain \in Nat \ {0} /\ w.pos \in Int
  BY DEF WriterType
<1>1. PICK sent \in SendResults(w.remain) :
        /\ writer' = Sent(w, sent)
        /\ IF sent = Refused
           THEN /\ blocked' = TRUE
                /\ disturbed' = TRUE
                /\ UNCHANGED <<wire, inFlight>>
           ELSE /\ wire' = wire \o SubSeq(Pending(w), 1, sent)
                /\ inFlight' = inFlight + sent
                /\ UNCHANGED <<blocked, disturbed>>
  BY DEF SendPending
<1>2. sent = Refused \/ sent \in 1..w.remain
  BY <1>0, <1>1, SendResultsBounded
<1>3. CASE sent = Refused
  <2>1. ~(inFlight < Capacity)
    <3>1. SUFFICES ASSUME inFlight < Capacity PROVE FALSE
      OBVIOUS
    <3>2. ~(inFlight >= Capacity) /\ Capacity \in Nat
      BY <3>1, WriterAssumption
    <3>3. sent \in 1..w.remain
      BY <1>0, <1>1, <3>2 DEF SendResults
    <3> QED BY <1>0, <1>3, <3>3 DEF Refused
  <2>2. /\ writer'.buf = w.buf /\ writer'.pos = w.pos - 1
        /\ Behind(writer', writer'.pos + 1, wire)
    BY <1>1, <1>3, <2>1, RefusedOrder
  <2>3. wire' = wire /\ blocked' = TRUE
    BY <1>1, <1>3
  <2>4. writer'.pos >= 1 => w.pos >= 1
    BY <1>0, <2>2
  <2> QED BY <2>2, <2>3, <2>4
<1>4. CASE sent \in 1..w.remain
  <2>1. sent # Refused
    BY <1>0, <1>4 DEF Refused
  <2>2. wire' = wire \o SubSeq(Pending(w), 1, sent) /\ writer' = Sent(w, sent)
    BY <1>1, <2>1
  <2> QED BY <1>4, <2>2, TakenOrder
<1> QED BY <1>2, <1>3, <1>4

\* A frame is appended behind what is pending.
LEMMA AppendKeepsOrder ==
  ASSUME TypeOK, OrderInv, NEW size \in Nat
  PROVE  LET buf == Pending(writer) \o NextFrame(size) IN
         /\ Ordered(buf) /\ UpTo(buf, submitted + size)
         /\ \A i \in 1..Len(wire), j \in 1..Len(buf) :
              wire[i] # Garbage /\ buf[j] # Garbage => wire[i] <= buf[j]
<1> DEFINE P == Pending(writer)
<1> DEFINE F == NextFrame(size)
<1> DEFINE buf == P \o F
<1> DEFINE z == Len(P)
<1>1. /\ writer \in WriterType /\ submitted \in Nat /\ wire \in Seq(Nat)
      /\ writer.pos \in Int /\ writer.remain \in Nat /\ writer.buf \in Seq(Nat)
  BY DEF TypeOK, WriterType
<1>2. P \in Seq(Nat) /\ z = writer.remain /\ z \in Nat
  BY <1>1, PendingType
<1>3. F \in Seq(Nat) /\ Len(F) = size /\ \A i \in 1..size : F[i] = submitted + i
  BY <1>1, NextFrameType DEF NextFrame
<1>4. \A i \in 1..z : P[i] # Garbage =>
        writer.pos + i \in 1..Len(writer.buf) /\ P[i] = writer.buf[writer.pos + i]
  BY <1>1, <1>2, PendingByte
<1> HIDE DEF P, F
<1>5. /\ buf \in Seq(Nat) /\ Len(buf) = z + size
      /\ \A x \in 1..(z + size) : buf[x] = IF x <= z THEN P[x] ELSE F[x - z]
  BY <1>2, <1>3, ConcatProperties
<1> HIDE DEF buf
\* Where a byte of the new buffer comes from.
<1>6. \A x \in 1..Len(buf) : buf[x] # Garbage =>
        \/ /\ x \in 1..z /\ writer.pos + x \in 1..Len(writer.buf)
           /\ buf[x] = writer.buf[writer.pos + x]
        \/ x - z \in 1..size /\ buf[x] = submitted + (x - z)
  <2> TAKE x \in 1..Len(buf)
  <2>0. x \in 1..(z + size) /\ x \in Int
    BY <1>2, <1>5
  <2>1. CASE x <= z
    <3>1. x \in 1..z /\ buf[x] = P[x]
      BY <1>2, <1>5, <2>0, <2>1
    <3> QED BY <1>4, <3>1
  <2>2. CASE ~(x <= z)
    <3>1. x - z \in 1..size /\ buf[x] = F[x - z]
      BY <1>2, <1>5, <2>0, <2>2
    <3> QED BY <1>3, <3>1
  <2> QED BY <2>1, <2>2
<1>7. Ordered(buf)
  <2> SUFFICES ASSUME NEW x \in 1..Len(buf), NEW y \in 1..Len(buf), x < y,
                      buf[x] # Garbage, buf[y] # Garbage
               PROVE  buf[x] <= buf[y]
    BY DEF Ordered
  <2> DEFINE a == writer.pos + x
  <2> DEFINE b == writer.pos + y
  <2>0. x \in Int /\ y \in Int
    BY <1>2, <1>5
  <2>1. CASE y \in 1..z /\ b \in 1..Len(writer.buf) /\ buf[y] = writer.buf[b]
    <3>1. ~(x - z \in 1..size)
      BY <1>2, <2>0, <2>1
    <3>2. a \in 1..Len(writer.buf) /\ buf[x] = writer.buf[a]
      BY <1>6, <3>1
    <3>3. a < b
      BY <1>1, <2>0
    <3> HIDE DEF a, b
    <3> QED BY <2>1, <3>2, <3>3 DEF OrderInv, Ordered
  <2>2. CASE y - z \in 1..size /\ buf[y] = submitted + (y - z)
    <3>1. CASE a \in 1..Len(writer.buf) /\ buf[x] = writer.buf[a]
      <4>1. writer.buf[a] <= submitted /\ writer.buf[a] \in Nat
        <5> HIDE DEF a
        <5> QED BY <1>1, <3>1 DEF OrderInv, UpTo
      <4>2. submitted <= buf[y] /\ buf[y] \in Nat
        BY <1>1, <1>2, <2>0, <2>2
      <4> QED BY <1>1, <3>1, <4>1, <4>2
    <3>2. CASE x - z \in 1..size /\ buf[x] = submitted + (x - z)
      BY <1>1, <1>2, <2>0, <2>2, <3>2
    <3> QED BY <1>6, <3>1, <3>2
  <2> QED BY <1>6, <2>1, <2>2
<1>8. UpTo(buf, submitted + size)
  <2> SUFFICES ASSUME NEW x \in 1..Len(buf) PROVE buf[x] <= submitted + size
    BY DEF UpTo
  <2>0. x \in Int
    BY <1>2, <1>5
  <2> DEFINE a == writer.pos + x
  <2>1. CASE buf[x] = Garbage
    BY <1>1, <2>1 DEF Garbage
  <2>2. CASE a \in 1..Len(writer.buf) /\ buf[x] = writer.buf[a]
    <3> HIDE DEF a
    <3>1. writer.buf[a] <= submitted /\ writer.buf[a] \in Nat
      BY <1>1, <2>2 DEF OrderInv, UpTo
    <3> QED BY <1>1, <2>2, <3>1
  <2>3. CASE x - z \in 1..size /\ buf[x] = submitted + (x - z)
    BY <1>1, <1>2, <2>0, <2>3
  <2> QED BY <1>6, <2>1, <2>2, <2>3
<1>9. ASSUME NEW i \in 1..Len(wire), NEW x \in 1..Len(buf),
             wire[i] # Garbage, buf[x] # Garbage
      PROVE  wire[i] <= buf[x]
  <2>0. x \in Int
    BY <1>2, <1>5
  <2> DEFINE a == writer.pos + x
  <2>1. CASE a \in 1..Len(writer.buf) /\ buf[x] = writer.buf[a]
    <3>1. a >= writer.pos + 1
      BY <1>1, <1>5
    <3> HIDE DEF a
    <3> QED BY <1>9, <2>1, <3>1 DEF OrderInv, Behind
  <2>2. CASE x - z \in 1..size /\ buf[x] = submitted + (x - z)
    <3>1. wire[i] <= submitted /\ wire[i] \in Nat
      BY <1>1 DEF OrderInv, UpTo
    <3>2. submitted <= buf[x] /\ buf[x] \in Nat
      BY <1>1, <1>2, <2>0, <2>2, SMTT(30)
    <3> QED BY <1>1, <3>1, <3>2
  <2> QED BY <1>6, <1>9, <2>1, <2>2
<1> QED BY <1>7, <1>8, <1>9 DEF buf, P, F

LEMMA OrderInit == Init => OrderInv
<1> SUFFICES ASSUME Init PROVE OrderInv
  OBVIOUS
<1>1. /\ \A i \in 1..Len(wire) : FALSE
      /\ \A i \in 1..Len(writer.buf) : FALSE
      /\ writer.pos = 0
  BY DEF Init, NewWriter
<1> QED BY <1>1 DEF OrderInv, Ordered, UpTo, Behind

LEMMA WriteBufferReadyKeepsOrder ==
  ASSUME WriterInv, OrderInv, NEW size \in FrameSizes, WriteBufferReady(size)
  PROVE  OrderInv'
<1> DEFINE F == NextFrame(size)
<1> DEFINE w == AppendWriteBuffer(writer, F)
<1>0. /\ writer \in WriterType /\ submitted \in Nat /\ wire \in Seq(Nat)
      /\ inFlight \in Nat /\ TypeOK
  BY DEF WriterInv, TypeOK, WriterType
<1>1. size \in Nat \ {0}
  BY WriterAssumption
<1>2. F \in Seq(Nat) /\ Len(F) = size
  BY <1>0, <1>1, NextFrameType
<1>3. writer.buf = << >> /\ writer.remain = 0
  BY DEF WriteBufferReady, WriterInv, ReadyIffDrained
<1>4. SendPending(w) /\ submitted' = submitted + size
  BY DEF WriteBufferReady
<1>5. w = [buf |-> F, pos |-> 0, remain |-> Len(F), state |-> writer.state]
  BY <1>3 DEF AppendWriteBuffer
<1>6. Pending(writer) \o F = F
  <2>1. Pending(writer) = << >>
    BY <1>3 DEF Pending
  <2> HIDE DEF F
  <2> QED BY <1>2, <2>1, ConcatEmptySeq
<1>7. /\ Ordered(F) /\ UpTo(F, submitted + size)
      /\ \A i \in 1..Len(wire), j \in 1..Len(F) :
           wire[i] # Garbage /\ F[j] # Garbage => wire[i] <= F[j]
  BY <1>0, <1>1, <1>6, AppendKeepsOrder
<1> DEFINE n == submitted + size
<1>8. n \in Nat /\ submitted <= n
  BY <1>0, <1>1
<1>9. UpTo(wire, n)
  <2> SUFFICES ASSUME NEW i \in 1..Len(wire) PROVE wire[i] <= n
    BY DEF UpTo
  <2>1. wire[i] <= submitted /\ wire[i] \in Nat
    BY <1>0 DEF OrderInv, UpTo
  <2> QED BY <1>0, <1>8, <2>1
<1> HIDE DEF F, w, n
<1>10. w \in WriterType /\ w.remain > 0 /\ w.buf = F /\ w.pos = 0
  BY <1>0, <1>1, <1>2, <1>5 DEF WriterType
<1>11. Behind(w, w.pos + 1, wire)
  BY <1>7, <1>10 DEF Behind
<1>12. /\ Ordered(wire') /\ UpTo(wire', n)
       /\ Ordered(writer'.buf) /\ UpTo(writer'.buf, n)
       /\ Behind(writer', writer'.pos + 1, wire')
       /\ writer'.pos >= 1 =>
            Behind(writer', writer'.pos, wire') \/ (blocked' /\ w.pos >= 1)
  <2>1. ~(w.pos >= 1) /\ Ordered(wire) /\ Ordered(w.buf) /\ UpTo(w.buf, n)
    BY <1>7, <1>10 DEF OrderInv, n
  <2> QED BY <1>0, <1>4, <1>8, <1>9, <1>10, <1>11, <2>1, SendKeepsOrder
<1> QED BY <1>4, <1>10, <1>12 DEF OrderInv, n

LEMMA WriteBufferBusyKeepsOrder ==
  ASSUME WriterInv, OrderInv, NEW size \in FrameSizes, WriteBufferBusy(size)
  PROVE  OrderInv'
<1> DEFINE buf == Pending(writer) \o NextFrame(size)
<1>0. TypeOK /\ submitted \in Nat /\ wire \in Seq(Nat) /\ size \in Nat
  BY WriterAssumption DEF WriterInv, TypeOK
<1>1. /\ Ordered(buf) /\ UpTo(buf, submitted + size)
      /\ \A i \in 1..Len(wire), j \in 1..Len(buf) :
           wire[i] # Garbage /\ buf[j] # Garbage => wire[i] <= buf[j]
  BY <1>0, AppendKeepsOrder
<1>2. /\ writer'.buf = buf /\ writer'.pos = 0
      /\ submitted' = submitted + size /\ wire' = wire
  BY DEF WriteBufferBusy, AppendWriteBuffer, WriterInv, ReadyIffDrained
<1> HIDE DEF buf
<1>3. UpTo(wire, submitted + size)
  <2> SUFFICES ASSUME NEW i \in 1..Len(wire) PROVE wire[i] <= submitted + size
    BY DEF UpTo
  <2>1. wire[i] <= submitted /\ wire[i] \in Nat
    BY <1>0 DEF OrderInv, UpTo
  <2> QED BY <1>0, <2>1
<1>4. Behind(writer', writer'.pos + 1, wire')
  BY <1>1, <1>2 DEF Behind
<1> QED BY <1>1, <1>2, <1>3, <1>4 DEF OrderInv

LEMMA OnMsgSocketWriteKeepsOrder ==
  ASSUME WriterInv, OrderInv, OnMsgSocketWrite
  PROVE  OrderInv'
<1>0. /\ writer \in WriterType /\ submitted \in Nat /\ wire \in Seq(Nat)
      /\ inFlight \in Nat
  BY DEF WriterInv, TypeOK, WriterType
<1>1. CASE writer.remain = 0
  <2>1. UNCHANGED <<writer, wire, submitted>>
    BY <1>1 DEF OnMsgSocketWrite
  <2>2. \A j \in 1..Len(writer.buf) : FALSE
    BY <1>1 DEF WriterInv, ReadyIffDrained
  <2> QED BY <2>1, <2>2 DEF OrderInv, Behind
<1>2. CASE writer.remain # 0
  <2>1. fdWrite /\ SendPending(writer) /\ submitted' = submitted /\ fdWrite' = FALSE
    BY <1>2 DEF OnMsgSocketWrite
  <2>2. writer.remain > 0
    BY <1>0, <1>2 DEF WriterType
  <2>3. writer.pos >= 1 => Behind(writer, writer.pos, wire) \/ inFlight < Capacity
    BY <2>1 DEF OrderInv, NoRefusal
  <2>4. /\ Ordered(wire') /\ UpTo(wire', submitted)
        /\ Ordered(writer'.buf) /\ UpTo(writer'.buf, submitted)
        /\ Behind(writer', writer'.pos + 1, wire')
        /\ writer'.pos >= 1 =>
             Behind(writer', writer'.pos, wire') \/ (blocked' /\ writer.pos >= 1)
    BY <1>0, <2>1, <2>2, <2>3, SendKeepsOrder DEF OrderInv
  <2> QED BY <2>1, <2>4 DEF OrderInv, NoRefusal
<1> QED BY <1>1, <1>2

\* When the peer takes bytes, room comes back and FD_WRITE may be posted.
LEMMA DrainKeepsOrder ==
  ASSUME WriterInv, OrderInv, NEW k \in 1..inFlight, Drain(k)
  PROVE  OrderInv'
<1>1. UNCHANGED <<writer, submitted, wire>> /\ inFlight' = inFlight - k
  BY DEF Drain
<1>2. NoRefusal => NoRefusal'
  <2>1. inFlight \in Nat /\ inFlight - k < inFlight /\ Capacity \in Nat
    BY WriterAssumption DEF WriterInv, TypeOK
  <2>2. inFlight < Capacity => inFlight - k < Capacity
    BY <2>1
  <2> QED BY <1>1, <2>2 DEF NoRefusal, Drain
<1> QED BY <1>1, <1>2 DEF OrderInv, Ordered, UpTo, Behind

LEMMA OrderStep == WriterInv /\ OrderInv /\ [Next]_vars => OrderInv'
<1> SUFFICES ASSUME WriterInv, OrderInv, [Next]_vars PROVE OrderInv'
  OBVIOUS
<1>1. CASE UNCHANGED vars
  BY <1>1 DEF vars, OrderInv, Ordered, UpTo, Behind, NoRefusal
<1> QED BY <1>1, WriteBufferReadyKeepsOrder, WriteBufferBusyKeepsOrder,
        OnMsgSocketWriteKeepsOrder, DrainKeepsOrder DEF Next

\* The peer never sees a byte after one that was submitted later, however
\* often sends are refused and frames meet a backlog.
THEOREM WriterNothingOvertaken == Spec => []NothingOvertaken
<1>1. OrderInv => NothingOvertaken
  BY DEF OrderInv, Ordered, NothingOvertaken
<1> QED BY WriterInit, WriterStep, OrderInit, OrderStep, <1>1, PTL DEF Spec
============================================================================
