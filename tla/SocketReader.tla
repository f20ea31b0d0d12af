--------------------------- MODULE SocketReader ---------------------------
(***************************************************************************)
(* The receiving half of one connection: class SocketReader of Socket.h    *)
(* and Socket.cpp, called once for every FD_READ message that Windows      *)
(* posts (MainWindow::Read).  It cuts the byte stream into messages again, *)
(* of which TCP may deliver any part at any time.                          *)
(*                                                                         *)
(* A byte is a number below ByteBase (256 in the code).  A frame is one    *)
(* byte of event id, the length of the body in two bytes, low byte first   *)
(* (the code reads them as a UINT16 of an x86), and the body.              *)
(*                                                                         *)
(* External, modelled from its use: the peer, which sends whole frames,    *)
(* and Winsock, whose recv() returns as much as has arrived and fits, or   *)
(* fails (-1) on a connection that was reset, and which posts FD_READ when *)
(* data arrives and again after a recv() that leaves some behind.          *)
(***************************************************************************)
EXTENDS Integers, Sequences

CONSTANTS
  Messages,     \* the messages a peer may send: records [id, body]
  ByteBase,     \* the number of values of a byte
  MaxMessages,  \* bound: messages sent over one connection
  MayReset      \* may the connection be reset?

Byte == 0..(ByteBase - 1)

ASSUME ReaderAssumption ==
  /\ ByteBase \in Nat \ {0}
  /\ MaxMessages \in Nat
  /\ MayReset \in BOOLEAN
  /\ \A m \in Messages : /\ m \in [id : Byte, body : Seq(Byte)]
                         /\ Len(m.body) < ByteBase * ByteBase

VARIABLES
  reader,     \* the SocketReader object
  sent,       \* the messages the peer sent (history)
  network,    \* bytes sent that have not arrived
  arrived,    \* bytes that recv() can return
  fdRead,     \* FD_READ is in the window's message queue
  broken,     \* the connection was reset
  delivered   \* the messages given to Session::readDone, in order

vars == <<reader, sent, network, arrived, fdRead, broken, delivered>>

HeaderSize == 3
Zeros(n) == [i \in 1..n |-> 0]

---------------------------------------------------------------------------
(* The reader's own operations.                                            *)

\* The constructor, and clear(): waiting for the header of a message.
NewReader ==
  [state |-> "READING_HEADER", header |-> Zeros(HeaderSize), body |-> <<>>,
   pos |-> 0, remain |-> HeaderSize]

\* As if the length were read with the high byte first.
MutBodySizeBigEndian(header) == ByteBase * header[2] + header[3]

\* The UINT16 at m_header[1].
BodySize(header) == header[2] + ByteBase * header[3]

\* buffer with chunk written behind its first pos bytes.
Written(buffer, pos, chunk) ==
  [i \in DOMAIN buffer |->
     IF i - pos \in DOMAIN chunk THEN chunk[i - pos] ELSE buffer[i]]

\* recv() wrote chunk at m_readPos.
Filled(r, chunk) ==
  [(IF r.state = "READING_HEADER"
    THEN [r EXCEPT !.header = Written(@, r.pos, chunk)]
    ELSE [r EXCEPT !.body = Written(@, r.pos, chunk)])
   EXCEPT !.pos = @ + Len(chunk), !.remain = @ - Len(chunk)]

\* As if m_readPos were left behind the header.
MutExpectingBodyKeepsPos(r) ==
  [r EXCEPT !.state = "READING_BODY",
            !.body = Zeros(BodySize(r.header)),
            !.remain = BodySize(r.header)]

\* The header is complete: a buffer for the body is allocated.
ExpectingBody(r) ==
  [r EXCEPT !.state = "READING_BODY",
            !.body = Zeros(BodySize(r.header)),
            !.pos = 0,
            !.remain = BodySize(r.header)]

---------------------------------------------------------------------------
(* The peer and the network.                                               *)

Encode(m) ==
  <<m.id, Len(m.body) % ByteBase, Len(m.body) \div ByteBase>> \o m.body

PeerSend(m) ==
  /\ ~broken
  /\ Len(sent) < MaxMessages
  /\ sent' = Append(sent, m)
  /\ network' = network \o Encode(m)
  /\ UNCHANGED <<reader, arrived, fdRead, broken, delivered>>

Arrive(k) ==
  /\ k \in 1..Len(network)
  /\ arrived' = arrived \o SubSeq(network, 1, k)
  /\ network' = SubSeq(network, k + 1, Len(network))
  /\ fdRead' = TRUE
  /\ UNCHANGED <<reader, sent, broken, delivered>>

\* A reset drops what was not received; an FD_READ stays in the queue.
Reset ==
  /\ MayReset /\ ~broken
  /\ broken' = TRUE
  /\ network' = <<>>
  /\ arrived' = <<>>
  /\ UNCHANGED <<reader, sent, fdRead, delivered>>

---------------------------------------------------------------------------
(* SocketReader::read, one action for each of its branches.                *)

\* As if recv() were always asked for a whole header.
MutChunkFullHeader ==
  SubSeq(arrived, 1, IF HeaderSize < Len(arrived) THEN HeaderSize
                                                  ELSE Len(arrived))

\* What recv(m_sock, m_readPos, m_remainSize) returns on a live connection.
Chunk ==
  SubSeq(arrived, 1, IF reader.remain < Len(arrived) THEN reader.remain
                                                     ELSE Len(arrived))

\* The FD_READ is handled and recv() returned Chunk.
Receive ==
  /\ fdRead /\ ~broken
  /\ arrived' = SubSeq(arrived, Len(Chunk) + 1, Len(arrived))
  /\ fdRead' = (Len(Chunk) < Len(arrived))
  /\ UNCHANGED <<sent, network, broken>>

\* readDone, then clear().
ReadDone(r) ==
  /\ delivered' = Append(delivered, [id |-> r.header[1], body |-> r.body])
  /\ reader' = NewReader

\* The chunk does not complete the header or the body.
ReadPart ==
  LET r == Filled(reader, Chunk) IN
  /\ Receive
  /\ r.remain # 0
  /\ reader' = r
  /\ UNCHANGED delivered

\* The header is complete and announces a body.
ReadHeader ==
  LET r == Filled(reader, Chunk) IN
  /\ Receive
  /\ r.state = "READING_HEADER" /\ r.remain = 0
  /\ BodySize(r.header) > 0
  /\ reader' = ExpectingBody(r)
  /\ UNCHANGED delivered

\* As if the branch for an empty body were missing.
MutReadEmptyMessageWaits ==
  LET r == Filled(reader, Chunk) IN
  /\ Receive
  /\ r.state = "READING_HEADER" /\ r.remain = 0
  /\ BodySize(r.header) = 0
  /\ reader' = ExpectingBody(r)
  /\ UNCHANGED delivered

\* The header is complete and it is the whole message.
ReadEmptyMessage ==
  LET r == Filled(reader, Chunk) IN
  /\ Receive
  /\ r.state = "READING_HEADER" /\ r.remain = 0
  /\ BodySize(r.header) = 0
  /\ ReadDone(r)

\* The body is complete.
ReadBody ==
  LET r == Filled(reader, Chunk) IN
  /\ Receive
  /\ r.state = "READING_BODY" /\ r.remain = 0
  /\ ReadDone(r)

\* recv() failed: its -1 is taken for a number of bytes.
ReadFails ==
  /\ fdRead /\ broken
  /\ fdRead' = FALSE
  /\ reader' = [reader EXCEPT !.pos = @ - 1, !.remain = @ + 1]
  /\ UNCHANGED <<sent, network, arrived, broken, delivered>>

OnMsgSocketRead ==
  ReadPart \/ ReadHeader \/ ReadEmptyMessage \/ ReadBody \/ ReadFails

---------------------------------------------------------------------------
Init ==
  /\ reader = NewReader
  /\ sent = <<>>
  /\ network = <<>>
  /\ arrived = <<>>
  /\ fdRead = FALSE
  /\ broken = FALSE
  /\ delivered = <<>>

Next ==
  \/ \E m \in Messages : PeerSend(m)
  \/ \E k \in 1..Len(network) : Arrive(k)
  \/ Reset
  \/ OnMsgSocketRead

Spec == Init /\ [][Next]_vars

\* Bytes sent arrive, and the message loop handles the FD_READs it is posted.
FairSpec ==
  /\ Spec
  /\ WF_vars(\E k \in 1..Len(network) : Arrive(k))
  /\ WF_vars(OnMsgSocketRead)

---------------------------------------------------------------------------
(* Properties.                                                             *)

\* The type invariant of SocketReader's fields and of the connection.
TypeOK ==
  /\ reader \in [state : {"READING_HEADER", "READING_BODY"},
                 header : Seq(Byte), body : Seq(Byte), pos : Int, remain : Nat]
  /\ delivered \in Seq([id : Byte, body : Seq(Byte)])
  /\ sent \in Seq(Messages)
  /\ network \in Seq(Byte) /\ arrived \in Seq(Byte)
  /\ fdRead \in BOOLEAN /\ broken \in BOOLEAN

\* The m_remainSize bytes at m_readPos that the next recv() may overwrite
\* are the rest of the header or of the allocated body, never memory outside
\* of them (Socket.cpp:11, 41), and there is at least one to ask for.
RecvStaysInBuffer ==
  LET buffer == IF reader.state = "READING_HEADER" THEN reader.header
                                                   ELSE reader.body
  IN  ~broken => /\ reader.pos >= 0
                 /\ reader.remain > 0
                 /\ reader.pos + reader.remain = Len(buffer)

\* However the stream is split, the handlers get what the peer sent: the
\* reader implements MessageChannel, with sent, delivered and broken as they
\* are here.  A recv() that fails never completes a message, whatever its -1
\* does to the counters (Socket.cpp:4-70).
Channel == INSTANCE MessageChannel

DeliversMessages == Channel!Spec

\* And it implements its liveness: while the connection is up, every message
\* sent is delivered in the end; no split leaves the reader waiting.
DeliversAllMessages == Channel!FairSpec
============================================================================
