--------------------------- MODULE SocketWriter ---------------------------
(***************************************************************************)
(* The sending half of one connection: class SocketWriter of Socket.h and  *)
(* Socket.cpp, driven by Socket::writeBuffer (a handler of the server has  *)
(* a frame to send) and by Socket::write (Windows posted FD_WRITE).  All   *)
(* of it runs in the one thread of the message loop, so a call is a step.  *)
(*                                                                         *)
(* A byte is identified by its position in the stream the server submits:  *)
(* byte k is the k-th byte ever handed to writeBuffer.  Garbage, 0, is     *)
(* whatever lies in memory outside the buffer.  A null m_buf is <<>>.      *)
(* m_size is written and never read by the code and is left out.           *)
(*                                                                         *)
(* Winsock's side of the socket is external and modelled from its use:     *)
(* a non-blocking send() either takes bytes or is refused (-1,             *)
(* WSAEWOULDBLOCK); FD_WRITE is posted once after accept(), and after that *)
(* only when room comes back to a socket that refused a send.              *)
(***************************************************************************)
EXTENDS Integers, Sequences

CONSTANTS
  FrameSizes,    \* the sizes of the frames the handlers submit
  Capacity,      \* bytes in flight at which Winsock starts to refuse a send
  PartialSends,  \* may Winsock take only a part of what it is given?
  MaxSubmitted   \* bound: bytes submitted in a behaviour

ASSUME WriterAssumption ==
  /\ FrameSizes \subseteq Nat \ {0}
  /\ Capacity \in Nat \ {0}
  /\ PartialSends \in BOOLEAN
  /\ MaxSubmitted \in Nat

VARIABLES
  writer,     \* the SocketWriter object: buf, pos (m_writePos), remain, state
  submitted,  \* how many bytes writeBuffer was given so far
  wire,       \* every byte Winsock took, in order (history)
  inFlight,   \* bytes Winsock took and the peer has not
  blocked,    \* a send was refused and FD_WRITE is still owed
  fdWrite,    \* FD_WRITE is in the window's message queue
  disturbed   \* a send was refused, or a frame met a backlog (history)

vars == <<writer, submitted, wire, inFlight, blocked, fdWrite, disturbed>>

Garbage == 0
Refused == -1

Winsock == <<inFlight, blocked, fdWrite>>

---------------------------------------------------------------------------
(* The writer's own operations, as functions of the object.                *)

\* The member initialisers of the constructor.
NewWriter == [buf |-> <<>>, pos |-> 0, remain |-> 0, state |-> "READY"]

\* clear(): the buffer is freed; the state is not touched.
Cleared(w) == [buf |-> <<>>, pos |-> 0, remain |-> 0, state |-> w.state]

\* The remain bytes at m_writePos, wherever it points.
Pending(w) ==
  [i \in 1..w.remain |->
     IF w.pos + i \in DOMAIN w.buf THEN w.buf[w.pos + i] ELSE Garbage]

\* As if the last byte of a frame were taken for a terminating zero.
MutAppendOneLess(w, frame) ==
  [buf    |-> IF w.buf = <<>> THEN frame ELSE Pending(w) \o frame,
   pos    |-> 0,
   remain |-> Len(frame) - 1,
   state  |-> w.state]

\* appendWriteBuffer: a null m_buf takes the caller's buffer; otherwise the
\* backlog and the frame are copied to a new one.  m_remainSize becomes the
\* size of the frame in both cases: clear() zeroes it before the size is added.
AppendWriteBuffer(w, frame) ==
  [buf    |-> IF w.buf = <<>> THEN frame ELSE Pending(w) \o frame,
   pos    |-> 0,
   remain |-> Len(frame),
   state  |-> w.state]

\* As if the last statement of write(), m_state = READY, were missing.
MutSentForgetsReady(w, sent) ==
  IF sent = w.remain
  THEN [Cleared(w) EXCEPT !.state = "WRITING"]
  ELSE [w EXCEPT !.pos = @ + sent, !.remain = @ - sent, !.state = "WRITING"]

\* As if m_writePos stayed where it was after a partial send.
MutSentPosStays(w, sent) ==
  IF sent = w.remain
  THEN [Cleared(w) EXCEPT !.state = "READY"]
  ELSE [w EXCEPT !.remain = @ - sent, !.state = "WRITING"]

\* As if m_remainSize were reduced by m_size, not by what was sent.
MutSentWholeSize(w, sent) ==
  IF sent = w.remain
  THEN [Cleared(w) EXCEPT !.state = "READY"]
  ELSE [w EXCEPT !.pos = @ + sent, !.remain = @ - Len(w.buf), !.state = "WRITING"]

\* The rest of write() once send() returned `sent`, -1 included.
Sent(w, sent) ==
  IF sent = w.remain
  THEN [Cleared(w) EXCEPT !.state = "READY"]
  ELSE [w EXCEPT !.pos = @ + sent, !.remain = @ - sent, !.state = "WRITING"]

---------------------------------------------------------------------------
(* Winsock.                                                                *)

\* The values send() may return for a request of n bytes.
SendResults(n) ==
  IF inFlight >= Capacity THEN {Refused}
  ELSE IF PartialSends
       THEN {k \in 1..n : k = n \/ k <= Capacity - inFlight}
       ELSE {n}

\* The call send(m_sock, m_writePos, m_remainSize) of a write() on w, and
\* what write() does with its result.
SendPending(w) ==
  \E sent \in SendResults(w.remain) :
    /\ writer' = Sent(w, sent)
    /\ IF sent = Refused
       THEN /\ blocked' = TRUE
            /\ disturbed' = TRUE
            /\ UNCHANGED <<wire, inFlight>>
       ELSE /\ wire' = wire \o SubSeq(Pending(w), 1, sent)
            /\ inFlight' = inFlight + sent
            /\ UNCHANGED <<blocked, disturbed>>

---------------------------------------------------------------------------
Init ==
  /\ writer = NewWriter
  /\ submitted = 0
  /\ wire = <<>>
  /\ inFlight = 0
  /\ blocked = FALSE
  /\ fdWrite = TRUE
  /\ disturbed = FALSE

\* The bytes of the next frame a handler builds.
NextFrame(size) == [i \in 1..size |-> submitted + i]

\* Socket::writeBuffer on an idle writer: the frame is written at once.
WriteBufferReady(size) ==
  /\ submitted + size <= MaxSubmitted
  /\ writer.state = "READY"
  /\ SendPending(AppendWriteBuffer(writer, NextFrame(size)))
  /\ submitted' = submitted + size
  /\ UNCHANGED fdWrite

\* Socket::writeBuffer while an earlier frame is not out yet: only appended.
WriteBufferBusy(size) ==
  /\ submitted + size <= MaxSubmitted
  /\ writer.state = "WRITING"
  /\ writer' = AppendWriteBuffer(writer, NextFrame(size))
  /\ submitted' = submitted + size
  /\ disturbed' = TRUE
  /\ UNCHANGED <<wire, Winsock>>

\* MainWindow::OnMsgSocketWrite -> Socket::write; with nothing to send,
\* write() only warns.
OnMsgSocketWrite ==
  /\ fdWrite
  /\ fdWrite' = FALSE
  /\ IF writer.remain = 0
     THEN UNCHANGED <<writer, wire, inFlight, blocked, disturbed>>
     ELSE SendPending(writer)
  /\ UNCHANGED submitted

\* The peer takes k bytes; if a send was refused and there is room again,
\* Winsock posts FD_WRITE.
Drain(k) ==
  /\ k \in 1..inFlight
  /\ inFlight' = inFlight - k
  /\ IF blocked /\ inFlight - k < Capacity
     THEN blocked' = FALSE /\ fdWrite' = TRUE
     ELSE UNCHANGED <<blocked, fdWrite>>
  /\ UNCHANGED <<writer, submitted, wire, disturbed>>

Next ==
  \/ \E size \in FrameSizes : WriteBufferReady(size) \/ WriteBufferBusy(size)
  \/ OnMsgSocketWrite
  \/ \E k \in 1..inFlight : Drain(k)

Spec == Init /\ [][Next]_vars

\* The loop handles the messages in its queue, and the peer keeps reading.
Fairness == WF_vars(OnMsgSocketWrite) /\ WF_vars(\E k \in 1..inFlight : Drain(k))

FairSpec == Spec /\ Fairness

---------------------------------------------------------------------------
(* Properties.                                                             *)

\* The type invariant of SocketWriter's fields and of Winsock's side.
TypeOK ==
  /\ writer \in [buf : Seq(Nat), pos : Int, remain : Nat,
                 state : {"READY", "WRITING"}]
  /\ submitted \in Nat
  /\ wire \in Seq(Nat)
  /\ inFlight \in Nat
  /\ blocked \in BOOLEAN
  /\ fdWrite \in BOOLEAN
  /\ disturbed \in BOOLEAN

\* The writer is READY exactly when it holds nothing: writeBuffer relies on
\* it, for it sends at once only a frame appended to a READY writer
\* (Socket.cpp:134), and a WRITING writer with nothing left would never send
\* again (Socket.cpp:96).
ReadyIffDrained ==
  /\ (writer.state = "READY") <=> (writer.remain = 0)
  /\ (writer.state = "READY") <=> (writer.buf = <<>>)

\* As long as no send was refused and no frame was appended to a backlog,
\* the peer gets the submitted stream: what went out and what is pending
\* are together every byte, once, in order, partial sends included
\* (Socket.cpp:94-111).
IntactUntilDisturbed ==
  ~disturbed => wire \o Pending(writer) = [i \in 1..submitted |-> i]

\* Even when bytes are lost or sent twice, no byte overtakes a later one:
\* the peer never sees a byte of an older frame after one of a newer frame
\* (Socket.cpp:83-90 copies the backlog before the new frame).
NothingOvertaken ==
  \A i, j \in 1..Len(wire) :
    i < j /\ wire[i] # Garbage /\ wire[j] # Garbage => wire[i] <= wire[j]

\* What the frame format of SockEventDef.h:3-9 needs of every stream: the
\* peer, which finds a frame only by the length in the one before, gets the
\* submitted bytes with none missing, none doubled and none invented.
FramesArriveIntact ==
  \A i \in 1..Len(wire) : wire[i] = i

\* A writer that waits for room gets rid of what it has, if Winsock takes
\* requests whole: the FD_WRITE owed after a refusal (MainWindow.cpp:135-145)
\* is always enough to send the rest.
EventuallyReady == writer.state = "WRITING" ~> writer.state = "READY"
============================================================================
