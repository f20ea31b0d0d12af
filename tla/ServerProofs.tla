---------------------------- MODULE ServerProofs ----------------------------
(***************************************************************************)
(* Proofs about Server, for any clients and handles, any backlog and any   *)
(* number of requests.                                                     *)
(*                                                                         *)
(* The invariant relates the queue to the sessions: every message is about *)
(* the connection whose handle it has, an FD_CLOSE says that there is      *)
(* nothing left to read, and an FD_WRITE that will find no session any     *)
(* more is for somebody who has finished and not broken off (QueueOK).     *)
(* A second one says that no session is told twice that its connection is  *)
(* over (ClosedOnce): an FD_CLOSE always finds its session.                *)
(***************************************************************************)
EXTENDS Server, SequenceTheorems, TLAPS

WriterStates == {"READY", "REFUSED", "PART"}

NetState == [phase : {"away", "up", "finished", "reset"},
             unread : Nat, room : BOOLEAN, owed : BOOLEAN]

ClientMessage ==
  [sock : Handles, event : {"FD_READ", "FD_WRITE", "FD_CLOSE"}, about : Clients]
SocketMessage == ClientMessage \cup {AcceptMessage}

\* Nothing more will be read from a peer in this state.
Over(n) == n.phase = "reset" \/ (n.phase = "finished" /\ n.unread = 0)

Sound(m, ow, nt) ==
  m # AcceptMessage =>
    /\ m.sock \in DOMAIN ow /\ m.about = ow[m.sock]
    /\ m.event = "FD_CLOSE" => Over(nt[m.about])

ClosesIn(q, h, n) == \E i \in 1..n : q[i].event = "FD_CLOSE" /\ q[i].sock = h

\* Message j of q is an FD_WRITE that will not find its session.
Late(q, j, ss) ==
  /\ q[j].event = "FD_WRITE"
  /\ q[j].sock \notin DOMAIN ss \/ ClosesIn(q, q[j].sock, j - 1)

QueueOK(q, ow, ss, nt) ==
  /\ q \in Seq(SocketMessage)
  /\ \A i \in 1..Len(q) : Sound(q[i], ow, nt)
  /\ \A j \in 1..Len(q) : Late(q, j, ss) => nt[q[j].about].phase = "finished"

\* An FD_WRITE for h is in the queue.
Woken(q, h, ow) == \E i \in 1..Len(q) : q[i] = Message(h, "FD_WRITE", ow[h])

Waits(c) == \E i \in DOMAIN waiting : waiting[i] = c

OwnersDiffer == \A g, h \in DOMAIN owner : owner[g] = owner[h] => g = h

WaitingOK ==
  /\ \A i \in DOMAIN waiting : /\ ~Accepted(waiting[i])
                               /\ net[waiting[i]].phase \in {"up", "finished"}
  /\ \A i, j \in DOMAIN waiting : waiting[i] = waiting[j] => i = j

ClientOK(c) ==
  /\ net[c].phase = "away" => ~Accepted(c)
  /\ net[c].phase \in {"up", "finished"} => Accepted(c) \/ Waits(c)
  /\ net[c].phase # "reset" => asked[c] = handled[c] + net[c].unread
  /\ net[c].phase = "reset" => net[c].unread = 0

\* A session ends only with its connection.
SessionsOK ==
  \A h \in DOMAIN owner \ DOMAIN sessions :
    net[owner[h]].phase \in {"finished", "reset"}

VainInv ==
  \A h \in DOMAIN sessions :
    sessions[h] = "REFUSED" =>
      net[owner[h]].phase = "reset" \/ net[owner[h]].owed \/ Woken(queue, h, owner)

ServerInv ==
  /\ TypeOK /\ OwnersDiffer /\ WaitingOK /\ (\A c \in Clients : ClientOK(c))
  /\ SessionsOK /\ QueueOK(queue, owner, sessions, net) /\ VainInv

---------------------------------------------------------------------------
(* The queue.                                                              *)

LEMMA MessagesDiffer ==
  /\ AcceptMessage.event = "FD_ACCEPT"
  /\ \A m \in ClientMessage : m.event # "FD_ACCEPT" /\ m # AcceptMessage
  /\ \A m \in SocketMessage : m.event # "FD_ACCEPT" => m \in ClientMessage
<1>1. AcceptMessage.event = "FD_ACCEPT"
  BY DEF AcceptMessage, Message
<1>2. \A m \in ClientMessage : m.event # "FD_ACCEPT"
  BY DEF ClientMessage
<1> QED BY <1>1, <1>2 DEF SocketMessage

\* Clients move on, and handles are opened.
LEMMA QueueKeeps ==
  ASSUME NEW q, NEW ow, NEW ss, NEW nt, NEW ow2, NEW ss2, NEW nt2,
         QueueOK(q, ow, ss, nt), ow \in [DOMAIN ow -> Clients],
         DOMAIN ow \subseteq DOMAIN ow2, \A h \in DOMAIN ow : ow2[h] = ow[h],
         \A h \in DOMAIN ow : h \in DOMAIN ss => h \in DOMAIN ss2,
         \A c \in Clients : Over(nt[c]) => Over(nt2[c]),
         \A c \in Clients : nt[c].phase = "finished" => nt2[c].phase = "finished"
  PROVE  QueueOK(q, ow2, ss2, nt2)
<1>1. \A i \in 1..Len(q) : q[i] \in SocketMessage /\ Sound(q[i], ow, nt)
  BY ElementOfSeq DEF QueueOK
<1>2. ASSUME NEW i \in 1..Len(q), q[i] # AcceptMessage
      PROVE  /\ q[i].sock \in DOMAIN ow /\ q[i].about = ow[q[i].sock]
             /\ q[i].about \in Clients
  BY <1>1, <1>2 DEF Sound
<1>3. \A i \in 1..Len(q) : Sound(q[i], ow2, nt2)
  BY <1>1, <1>2 DEF Sound
<1>4. ASSUME NEW j \in 1..Len(q), Late(q, j, ss2)
      PROVE  nt2[q[j].about].phase = "finished"
  <2>1. q[j] # AcceptMessage
    BY <1>4, MessagesDiffer DEF Late
  <2>2. Late(q, j, ss)
    BY <1>2, <1>4, <2>1 DEF Late
  <2>3. nt[q[j].about].phase = "finished"
    BY <2>2 DEF QueueOK
  <2> QED BY <1>2, <2>1, <2>3
<1> QED BY <1>3, <1>4 DEF QueueOK

LEMMA TailShape ==
  ASSUME NEW S, NEW q \in Seq(S), q # << >>
  PROVE  /\ Tail(q) \in Seq(S) /\ Len(q) \in Nat \ {0}
         /\ Len(Tail(q)) = Len(q) - 1
         /\ Head(q) = q[1] /\ q[1] \in S
         /\ \A i \in 1..Len(Tail(q)) : i + 1 \in 1..Len(q) /\ Tail(q)[i] = q[i + 1]
<1>1. Tail(q) \in Seq(S) /\ Len(q) \in Nat \ {0} /\ Len(Tail(q)) = Len(q) - 1
      /\ Head(q) = q[1]
  BY EmptySeq, HeadTailProperties
<1>2. \A i \in 1..Len(Tail(q)) : Tail(q)[i] = q[i + 1]
  BY HeadTailProperties
<1>3. q[1] \in S
  BY <1>1, ElementOfSeq
<1> QED BY <1>1, <1>2, <1>3

\* The oldest message is taken; its session may end with it.
LEMMA QueueTail ==
  ASSUME NEW q, NEW ow, NEW ss, NEW nt, NEW ss2,
         QueueOK(q, ow, ss, nt), q # << >>,
         \A h : h \in DOMAIN ss /\ h \notin DOMAIN ss2 =>
                  Head(q).event = "FD_CLOSE" /\ Head(q).sock = h
  PROVE  QueueOK(Tail(q), ow, ss2, nt)
<1> DEFINE t == Tail(q)
<1>1. /\ t \in Seq(SocketMessage) /\ Len(q) \in Nat \ {0} /\ Len(t) = Len(q) - 1
      /\ Head(q) = q[1]
      /\ \A i \in 1..Len(t) : i + 1 \in 1..Len(q) /\ t[i] = q[i + 1]
  BY TailShape DEF QueueOK
<1> HIDE DEF t
<1>2. \A i \in 1..Len(t) : Sound(t[i], ow, nt)
  BY <1>1 DEF QueueOK
<1>3. ASSUME NEW j \in 1..Len(t), Late(t, j, ss2)
      PROVE  nt[t[j].about].phase = "finished"
  <2>1. j + 1 \in 1..Len(q) /\ t[j] = q[j + 1] /\ j \in Nat \ {0}
    BY <1>1
  <2>2. q[j + 1].event = "FD_WRITE"
    BY <1>3, <2>1 DEF Late
  <2>3. q[j + 1].sock \notin DOMAIN ss \/ ClosesIn(q, q[j + 1].sock, j)
    <3>1. CASE ClosesIn(t, t[j].sock, j - 1)
      <4>1. PICK i \in 1..(j - 1) : t[i].event = "FD_CLOSE" /\ t[i].sock = t[j].sock
        BY <3>1 DEF ClosesIn
      <4>2. i \in 1..Len(t) /\ i + 1 \in 1..j
        BY <1>1, <2>1
      <4>3. t[i] = q[i + 1]
        BY <1>1, <4>2
      <4> QED BY <2>1, <4>1, <4>2, <4>3 DEF ClosesIn
    <3>2. CASE t[j].sock \notin DOMAIN ss2 /\ t[j].sock \in DOMAIN ss
      <4>1. q[1].event = "FD_CLOSE" /\ q[1].sock = q[j + 1].sock /\ 1 \in 1..j
        BY <1>1, <2>1, <3>2
      <4> QED BY <4>1 DEF ClosesIn
    <3> QED BY <1>3, <2>1, <3>1, <3>2 DEF Late
  <2>4. Late(q, j + 1, ss)
    <3>1. (j + 1) - 1 = j
      BY <2>1
    <3> QED BY <2>2, <2>3, <3>1 DEF Late
  <2> QED BY <2>1, <2>4 DEF QueueOK
<1> QED BY <1>1, <1>2, <1>3 DEF QueueOK, t

LEMMA ConcatOne ==
  ASSUME NEW S, NEW q \in Seq(S), NEW m \in S
  PROVE  /\ q \o <<m>> \in Seq(S) /\ Len(q) \in Nat
         /\ Len(q \o <<m>>) = Len(q) + 1
         /\ \A i \in 1..Len(q) : (q \o <<m>>)[i] = q[i]
         /\ (q \o <<m>>)[Len(q) + 1] = m
<1>1. q \o <<m>> = Append(q, m)
  BY AppendIsConcat
<1>2. Len(q) \in Nat
  BY LenProperties
<1>3. Append(q, m) \in Seq(S) /\ Len(Append(q, m)) = Len(q) + 1
      /\ (\A i \in 1..Len(q) : Append(q, m)[i] = q[i])
      /\ Append(q, m)[Len(q) + 1] = m
  BY AppendProperties
<1> QED BY <1>1, <1>2, <1>3

\* A message is posted; an FD_WRITE in time, or to somebody who has finished.
LEMMA QueuePost ==
  ASSUME NEW q, NEW ow, NEW ss, NEW nt, QueueOK(q, ow, ss, nt),
         NEW m \in SocketMessage, Sound(m, ow, nt),
         m.event = "FD_WRITE" =>
           \/ nt[m.about].phase = "finished"
           \/ m.sock \in DOMAIN ss /\ ~ClosesIn(q, m.sock, Len(q))
  PROVE  QueueOK(q \o <<m>>, ow, ss, nt)
<1> DEFINE t == q \o <<m>>
<1>1. /\ t \in Seq(SocketMessage) /\ Len(q) \in Nat /\ Len(t) = Len(q) + 1
      /\ (\A i \in 1..Len(q) : t[i] = q[i]) /\ t[Len(q) + 1] = m
  BY ConcatOne DEF QueueOK
<1> HIDE DEF t
<1>2. \A i \in 1..Len(t) : i \in 1..Len(q) \/ i = Len(q) + 1
  BY <1>1
<1>3. \A i \in 1..Len(t) : Sound(t[i], ow, nt)
  BY <1>1, <1>2 DEF QueueOK
<1>4. ASSUME NEW j \in 1..Len(t), Late(t, j, ss)
      PROVE  nt[t[j].about].phase = "finished"
  <2>1. \A i \in 1..(j - 1) : i \in 1..Len(q) /\ t[i] = q[i]
    BY <1>1
  <2>2. CASE j \in 1..Len(q)
    <3>1. t[j] = q[j]
      BY <1>1, <2>2
    <3>2. Late(q, j, ss)
      BY <1>4, <2>1, <3>1 DEF Late, ClosesIn
    <3> QED BY <2>2, <3>1, <3>2 DEF QueueOK
  <2>3. CASE j = Len(q) + 1
    <3>1. t[j] = m
      BY <1>1, <2>3
    <3>2. ClosesIn(t, m.sock, j - 1) => ClosesIn(q, m.sock, Len(q))
      BY <2>1 DEF ClosesIn
    <3> QED BY <1>4, <3>1, <3>2 DEF Late
  <2> QED BY <1>2, <2>2, <2>3
<1> QED BY <1>1, <1>3, <1>4 DEF QueueOK, t

LEMMA WokenPost ==
  ASSUME NEW S, NEW q \in Seq(S), NEW m \in S, NEW h, NEW ow
  PROVE  /\ Woken(q, h, ow) => Woken(q \o <<m>>, h, ow)
         /\ m = Message(h, "FD_WRITE", ow[h]) => Woken(q \o <<m>>, h, ow)
<1> DEFINE t == q \o <<m>>
<1>1. /\ Len(q) \in Nat /\ Len(t) = Len(q) + 1
      /\ (\A i \in 1..Len(q) : t[i] = q[i]) /\ t[Len(q) + 1] = m
  BY ConcatOne
<1> HIDE DEF t
<1>2. 1..Len(q) \subseteq 1..Len(t) /\ Len(q) + 1 \in 1..Len(t)
  BY <1>1
<1>3. Woken(q, h, ow) => Woken(t, h, ow)
  BY <1>1, <1>2 DEF Woken
<1>4. m = Message(h, "FD_WRITE", ow[h]) => Woken(t, h, ow)
  BY <1>1, <1>2 DEF Woken
<1> QED BY <1>3, <1>4 DEF t

LEMMA WokenTail ==
  ASSUME NEW S, NEW q \in Seq(S), q # << >>, NEW h, NEW ow, Woken(q, h, ow),
         Head(q) # Message(h, "FD_WRITE", ow[h])
  PROVE  Woken(Tail(q), h, ow)
<1>1. PICK i \in 1..Len(q) : q[i] = Message(h, "FD_WRITE", ow[h])
  BY DEF Woken
<1>2. /\ Len(q) \in Nat \ {0} /\ Len(Tail(q)) = Len(q) - 1 /\ Head(q) = q[1]
      /\ \A k \in 1..Len(Tail(q)) : Tail(q)[k] = q[k + 1]
  BY TailShape
<1>3. i # 1
  BY <1>1, <1>2
<1>4. i - 1 \in 1..Len(Tail(q)) /\ (i - 1) + 1 = i
  BY <1>2, <1>3
<1> QED BY <1>1, <1>2, <1>4 DEF Woken

---------------------------------------------------------------------------
(* Handles and peers.                                                      *)

LEMMA Types ==
  ASSUME TypeOK
  PROVE  /\ queue \in Seq(SocketMessage) /\ waiting \in Seq(Clients)
         /\ DOMAIN owner \subseteq Handles /\ owner \in [DOMAIN owner -> Clients]
         /\ DOMAIN sessions \subseteq DOMAIN owner
         /\ sessions \in [DOMAIN sessions -> WriterStates]
         /\ net \in [Clients -> NetState]
         /\ asked \in [Clients -> Nat] /\ handled \in [Clients -> Nat]
         /\ crashed \in BOOLEAN
BY DEF TypeOK, SocketMessage, ClientMessage, NetState, WriterStates

LEMMA HandleOfOwner ==
  ASSUME TypeOK, OwnersDiffer
  PROVE  /\ \A h \in DOMAIN owner : Accepted(owner[h]) /\ HandleOf(owner[h]) = h
         /\ \A c \in Clients : Accepted(c) =>
              HandleOf(c) \in DOMAIN owner /\ owner[HandleOf(c)] = c
<1>1. ASSUME NEW c, Accepted(c)
      PROVE  HandleOf(c) \in DOMAIN owner /\ owner[HandleOf(c)] = c
  BY <1>1 DEF Accepted, HandleOf
<1>2. ASSUME NEW h \in DOMAIN owner
      PROVE  Accepted(owner[h]) /\ HandleOf(owner[h]) = h
  <2>1. Accepted(owner[h])
    BY DEF Accepted
  <2> QED BY <1>1, <2>1 DEF OwnersDiffer
<1> QED BY <1>1, <1>2

LEMMA MessageShape ==
  ASSUME NEW h \in Handles, NEW e \in {"FD_READ", "FD_WRITE", "FD_CLOSE"}, NEW c \in Clients
  PROVE  /\ Message(h, e, c) \in ClientMessage /\ Message(h, e, c) \in SocketMessage
         /\ Message(h, e, c).sock = h /\ Message(h, e, c).event = e
         /\ Message(h, e, c).about = c
BY DEF Message, ClientMessage, SocketMessage

\* What Winsock may post for c when its state becomes n.
Postable(c, n, es) ==
  \/ es = << >>
  \/ \E e \in {"FD_READ", "FD_WRITE", "FD_CLOSE"} :
       /\ es = <<Message(HandleOf(c), e, c)>>
       /\ e = "FD_CLOSE" => Over(n)
       /\ e = "FD_WRITE" => net[c].phase \in {"up", "finished"}

\* Nobody broke off or finished as long as it is not said so in the queue.
LEMMA UpIsOpen ==
  ASSUME ServerInv, NEW h \in DOMAIN owner, net[owner[h]].phase = "up"
  PROVE  h \in DOMAIN sessions /\ ~ClosesIn(queue, h, Len(queue))
<1>1. h \in DOMAIN sessions
  BY DEF ServerInv, SessionsOK
<1>2. ASSUME NEW i \in 1..Len(queue), queue[i].event = "FD_CLOSE", queue[i].sock = h
      PROVE  FALSE
  <2>1. queue[i] # AcceptMessage
    BY <1>2, MessagesDiffer
  <2>2. Over(net[owner[h]])
    BY <1>2, <2>1 DEF ServerInv, QueueOK, Sound
  <2> QED BY <2>2 DEF Over
<1> QED BY <1>1, <1>2 DEF ClosesIn

LEMMA PeerInv ==
  ASSUME ServerInv, NEW c \in Clients, NEW n \in NetState, NEW es, PeerActs(c, n, es),
         Accepted(c) => Postable(c, n, es),
         Over(net[c]) => Over(n), net[c].phase = "finished" => n.phase = "finished",
         net[c].phase = "reset" => n.phase = "reset",
         net[c].owed => \/ n.owed \/ n.phase = "reset" \/ ~Accepted(c)
                        \/ es = <<Message(HandleOf(c), "FD_WRITE", c)>>
  PROVE  /\ queue' \in Seq(SocketMessage) /\ net' \in [Clients -> NetState]
         /\ net'[c] = n /\ \A d \in Clients : d # c => net'[d] = net[d]
         /\ UNCHANGED <<owner, sessions, handled, crashed>>
         /\ QueueOK(queue', owner, sessions, net') /\ SessionsOK' /\ VainInv'
<1> DEFINE h == HandleOf(c)
<1>1. /\ queue \in Seq(SocketMessage) /\ net \in [Clients -> NetState]
      /\ DOMAIN owner \subseteq Handles /\ owner \in [DOMAIN owner -> Clients]
      /\ DOMAIN sessions \subseteq DOMAIN owner
  BY Types DEF ServerInv
<1>2. /\ \A g \in DOMAIN owner : Accepted(owner[g]) /\ HandleOf(owner[g]) = g
      /\ Accepted(c) => h \in DOMAIN owner /\ owner[h] = c
  BY HandleOfOwner DEF ServerInv
<1>3. /\ net' = [net EXCEPT ![c] = n] /\ UNCHANGED <<owner, sessions, handled, crashed>>
      /\ queue' = IF Accepted(c) THEN queue \o es ELSE queue
  BY DEF PeerActs
<1>4. /\ net' \in [Clients -> NetState]
      /\ net'[c] = n /\ \A d \in Clients : d # c => net'[d] = net[d]
  BY <1>1, <1>3
<1> HIDE DEF h
<1>5. QueueOK(queue, owner, sessions, net')
  <2>1. QueueOK(queue, owner, sessions, net)
    BY DEF ServerInv
  <2>2. \A d \in Clients : Over(net[d]) => Over(net'[d])
    BY <1>4
  <2>3. \A d \in Clients : net[d].phase = "finished" => net'[d].phase = "finished"
    BY <1>4
  <2> QED BY <1>1, <2>1, <2>2, <2>3, QueueKeeps
<1>6. SessionsOK'
  BY <1>1, <1>3, <1>4 DEF ServerInv, SessionsOK
<1>7. CASE queue' = queue
  <2>1. ~Accepted(c) \/ es # <<Message(h, "FD_WRITE", c)>>
    <3>1. SUFFICES ASSUME Accepted(c), es = <<Message(h, "FD_WRITE", c)>> PROVE FALSE
      OBVIOUS
    <3>2. Message(h, "FD_WRITE", c) \in SocketMessage
      BY <1>1, <1>2, <3>1, MessageShape
    <3>3. Len(queue \o es) = Len(queue) + 1 /\ Len(queue) \in Nat
      BY <1>1, <3>1, <3>2, ConcatOne
    <3> QED BY <1>3, <1>7, <3>1, <3>3
  <2>2. ASSUME NEW g \in DOMAIN sessions, sessions[g] = "REFUSED"
        PROVE  net'[owner[g]].phase = "reset" \/ net'[owner[g]].owed \/ Woken(queue, g, owner)
    <3>1. \/ net[owner[g]].phase = "reset" \/ net[owner[g]].owed \/ Woken(queue, g, owner)
      BY <2>2 DEF ServerInv, VainInv
    <3>2. owner[g] \in Clients /\ Accepted(owner[g])
      BY <1>1, <1>2
    <3> QED BY <1>4, <2>1, <3>1, <3>2 DEF h
  <2>3. VainInv'
    BY <1>3, <1>7, <2>2 DEF VainInv
  <2> QED BY <1>1, <1>3, <1>4, <1>5, <1>6, <1>7, <2>3
<1>8. CASE queue' # queue
  <2>1. Accepted(c) /\ es # << >> /\ queue' = queue \o es
    <3>1. Accepted(c) /\ queue' = queue \o es
      BY <1>3, <1>8
    <3>2. es # << >>
      BY <1>1, <1>8, <3>1, ConcatEmptySeq
    <3> QED BY <3>1, <3>2
  <2>2. PICK e \in {"FD_READ", "FD_WRITE", "FD_CLOSE"} :
          /\ es = <<Message(h, e, c)>>
          /\ e = "FD_CLOSE" => Over(n)
          /\ e = "FD_WRITE" => net[c].phase \in {"up", "finished"}
    BY <2>1 DEF Postable, h
  <2> DEFINE m == Message(h, e, c)
  <2>3. m \in SocketMessage /\ m.sock = h /\ m.event = e /\ m.about = c /\ h \in DOMAIN owner
        /\ owner[h] = c
    BY <1>1, <1>2, <2>1, MessageShape
  <2>4. queue' = queue \o <<m>>
    BY <2>1, <2>2
  <2> HIDE DEF m
  <2>5. Sound(m, owner, net')
    BY <1>4, <2>2, <2>3 DEF Sound
  <2>6. e = "FD_WRITE" =>
          \/ net'[c].phase = "finished"
          \/ h \in DOMAIN sessions /\ ~ClosesIn(queue, h, Len(queue))
    BY <1>4, <2>2, <2>3, UpIsOpen
  <2>7. QueueOK(queue', owner, sessions, net')
    BY <1>5, <2>3, <2>4, <2>5, <2>6, QueuePost
  <2>8. ASSUME NEW g \in DOMAIN sessions, sessions[g] = "REFUSED"
        PROVE  net'[owner[g]].phase = "reset" \/ net'[owner[g]].owed \/ Woken(queue', g, owner)
    <3>1. \/ net[owner[g]].phase = "reset" \/ net[owner[g]].owed \/ Woken(queue, g, owner)
      BY <2>8 DEF ServerInv, VainInv
    <3>2. owner[g] \in Clients /\ HandleOf(owner[g]) = g
      BY <1>1, <1>2
    <3>3. Woken(queue, g, owner) => Woken(queue', g, owner)
      BY <1>1, <2>3, <2>4, WokenPost
    <3>4. CASE owner[g] = c /\ es = <<Message(h, "FD_WRITE", c)>>
      <4>1. m = Message(g, "FD_WRITE", owner[g])
        BY <2>2, <3>2, <3>4 DEF h, m
      <4> QED BY <1>1, <2>3, <2>4, <4>1, WokenPost
    <3>5. CASE owner[g] = c /\ es # <<Message(h, "FD_WRITE", c)>>
      BY <1>4, <2>1, <3>1, <3>3, <3>5 DEF h
    <3>6. CASE owner[g] # c
      BY <1>4, <3>1, <3>2, <3>3, <3>6
    <3> QED BY <3>4, <3>5, <3>6
  <2>9. VainInv'
    BY <1>3, <2>8 DEF VainInv
  <2> QED BY <1>3, <1>4, <1>6, <2>7, <2>9 DEF QueueOK
<1> QED BY <1>7, <1>8

---------------------------------------------------------------------------
(* The steps of the peers.                                                 *)

LEMMA TypesAgain ==
  ASSUME queue' \in Seq(SocketMessage), waiting' \in Seq(Clients),
         DOMAIN owner' \subseteq Handles, owner' \in [DOMAIN owner' -> Clients],
         DOMAIN sessions' \subseteq DOMAIN owner',
         sessions' \in [DOMAIN sessions' -> WriterStates],
         net' \in [Clients -> NetState],
         asked' \in [Clients -> Nat], handled' \in [Clients -> Nat],
         crashed' \in BOOLEAN
  PROVE  TypeOK'
BY DEF TypeOK, SocketMessage, ClientMessage, NetState, WriterStates

\* A peer that stays acts.
LEMMA PeerStays ==
  ASSUME ServerInv, NEW c \in Clients, NEW n \in NetState, NEW es, PeerActs(c, n, es),
         Accepted(c) => Postable(c, n, es),
         net[c].phase \in {"up", "finished"}, n.phase \in {"up", "finished"},
         Over(net[c]) => Over(n), net[c].phase = "finished" => n.phase = "finished",
         net[c].owed => \/ n.owed \/ ~Accepted(c)
                        \/ es = <<Message(HandleOf(c), "FD_WRITE", c)>>,
         waiting' = waiting, asked' \in [Clients -> Nat],
         \A d \in Clients : d # c => asked'[d] = asked[d],
         asked'[c] = handled[c] + n.unread
  PROVE  ServerInv'
<1>1. /\ queue' \in Seq(SocketMessage) /\ net' \in [Clients -> NetState]
      /\ net'[c] = n /\ \A d \in Clients : d # c => net'[d] = net[d]
      /\ UNCHANGED <<owner, sessions, handled, crashed>>
      /\ QueueOK(queue', owner, sessions, net') /\ SessionsOK' /\ VainInv'
  <2>1. net[c].phase # "reset"
    OBVIOUS
  <2> QED BY <2>1, PeerInv
<1>2. TypeOK'
  <2>1. TypeOK
    BY DEF ServerInv
  <2> QED BY <1>1, <2>1, Types, TypesAgain
<1>3. OwnersDiffer'
  BY <1>1 DEF ServerInv, OwnersDiffer
<1>4. \A d : Accepted(d)' <=> Accepted(d)
  BY <1>1 DEF Accepted
<1>5. waiting \in Seq(Clients)
  BY Types DEF ServerInv
<1>6. \A i \in DOMAIN waiting : waiting[i] \in Clients
  BY <1>5
<1>7. WaitingOK'
  <2>1. WaitingOK
    BY DEF ServerInv
  <2> QED BY <1>1, <1>4, <1>6, <2>1 DEF WaitingOK
<1>8. ASSUME NEW d \in Clients PROVE ClientOK(d)'
  <2>1. ClientOK(d)
    BY DEF ServerInv
  <2>2. Waits(d)' <=> Waits(d)
    BY DEF Waits
  <2>3. CASE d = c
    BY <1>1, <1>4, <2>1, <2>2, <2>3 DEF ClientOK
  <2>4. CASE d # c
    BY <1>1, <1>4, <2>1, <2>2, <2>4 DEF ClientOK
  <2> QED BY <2>3, <2>4
<1> QED BY <1>1, <1>2, <1>3, <1>7, <1>8 DEF ServerInv

LEMMA NetFields ==
  ASSUME TypeOK, NEW c \in Clients
  PROVE  /\ net[c] \in NetState
         /\ net[c] = [phase |-> net[c].phase, unread |-> net[c].unread,
                      room |-> net[c].room, owed |-> net[c].owed]
         /\ net[c].phase \in {"away", "up", "finished", "reset"}
         /\ net[c].unread \in Nat /\ net[c].room \in BOOLEAN /\ net[c].owed \in BOOLEAN
<1>1. net[c] \in NetState
  BY Types
<1> QED BY <1>1 DEF NetState

LEMMA ReadablePostable ==
  ASSUME NEW c \in Clients, NEW n \in NetState
  PROVE  Postable(c, n, Readable(HandleOf(c), c, n)) /\ Postable(c, n, << >>)
<1>1. n.unread \in Nat
  BY DEF NetState
<1> QED BY <1>1 DEF Postable, Readable, Over

LEMMA AskInv ==
  ASSUME ServerInv, NEW c \in Clients, Ask(c) PROVE ServerInv'
<1> DEFINE n == [net[c] EXCEPT !.unread = @ + 1]
<1> DEFINE es == IF net[c].unread = 0 THEN Readable(HandleOf(c), c, n) ELSE << >>
<1>1. /\ net[c].phase = "up" /\ asked' = [asked EXCEPT ![c] = @ + 1]
      /\ PeerActs(c, n, es) /\ waiting' = waiting
  BY DEF Ask
<1>2. TypeOK /\ ClientOK(c) /\ asked \in [Clients -> Nat] /\ handled \in [Clients -> Nat]
  BY Types DEF ServerInv
<1>3. n \in NetState /\ n.phase = "up" /\ n.unread = net[c].unread + 1 /\ n.owed = net[c].owed
  <2> DEFINE x == net[c]
  <2>1. x \in NetState /\ x.unread \in Nat /\ x.phase = "up"
    BY <1>1, <1>2, NetFields
  <2> HIDE DEF x
  <2>2. \A y \in NetState, k \in Nat : LET z == [y EXCEPT !.unread = k]
          IN z \in NetState /\ z.phase = y.phase /\ z.unread = k /\ z.owed = y.owed
    BY DEF NetState
  <2>3. x.unread + 1 \in Nat /\ n = [x EXCEPT !.unread = x.unread + 1]
    BY <2>1 DEF x
  <2> HIDE DEF n
  <2> QED BY <2>1, <2>2, <2>3 DEF x
<1>4. Postable(c, n, es)
  BY <1>3, ReadablePostable
<1>5. /\ asked' \in [Clients -> Nat] /\ \A d \in Clients : d # c => asked'[d] = asked[d]
      /\ asked'[c] = asked[c] + 1
  BY <1>1, <1>2
<1>6. asked'[c] = handled[c] + n.unread
  <2> HIDE DEF n
  <2>1. asked[c] = handled[c] + net[c].unread /\ net[c].unread \in Nat /\ handled[c] \in Nat
    BY <1>1, <1>2, NetFields DEF ClientOK
  <2> QED BY <1>3, <1>5, <2>1
<1>7. ~Over(net[c])
  BY <1>1 DEF Over
<1> HIDE DEF n, es
<1> QED BY <1>1, <1>3, <1>4, <1>5, <1>6, <1>7, PeerStays

LEMMA FinishInv ==
  ASSUME ServerInv, NEW c \in Clients, Finish(c) PROVE ServerInv'
<1> DEFINE n == [net[c] EXCEPT !.phase = "finished"]
<1> DEFINE es == IF n.unread = 0 THEN Readable(HandleOf(c), c, n) ELSE << >>
<1>1. net[c].phase = "up" /\ PeerActs(c, n, es) /\ waiting' = waiting /\ asked' = asked
  BY DEF Finish
<1>2. TypeOK /\ ClientOK(c) /\ asked \in [Clients -> Nat]
  BY Types DEF ServerInv
<1>3. n \in NetState /\ n.phase = "finished" /\ n.unread = net[c].unread /\ n.owed = net[c].owed
  BY <1>2, NetFields DEF NetState
<1>4. Postable(c, n, es)
  BY <1>3, ReadablePostable
<1>5. asked'[c] = handled[c] + n.unread
  BY <1>1, <1>2, <1>3 DEF ClientOK
<1>6. ~Over(net[c])
  BY <1>1 DEF Over
<1> HIDE DEF n, es
<1> QED BY <1>1, <1>2, <1>3, <1>4, <1>5, <1>6, PeerStays

LEMMA TakeDataInv ==
  ASSUME ServerInv, NEW c \in Clients, TakeData(c) PROVE ServerInv'
<1> DEFINE n == [net[c] EXCEPT !.room = TRUE, !.owed = FALSE]
<1> DEFINE es == IF net[c].owed THEN <<Message(HandleOf(c), "FD_WRITE", c)>> ELSE << >>
<1>1. /\ net[c].phase \in {"up", "finished"}
      /\ PeerActs(c, n, es) /\ waiting' = waiting /\ asked' = asked
  BY DEF TakeData
<1>2. TypeOK /\ ClientOK(c) /\ asked \in [Clients -> Nat]
  BY Types DEF ServerInv
<1>3. n \in NetState /\ n.phase = net[c].phase /\ n.unread = net[c].unread
  BY <1>2, NetFields DEF NetState
<1>4. Postable(c, n, es)
  BY <1>1 DEF Postable
<1>5. asked'[c] = handled[c] + n.unread
  BY <1>1, <1>2, <1>3 DEF ClientOK
<1>6. Over(net[c]) => Over(n)
  BY <1>3 DEF Over
<1>7. net[c].owed => es = <<Message(HandleOf(c), "FD_WRITE", c)>>
  OBVIOUS
<1> HIDE DEF n, es
<1> QED BY <1>1, <1>2, <1>3, <1>4, <1>5, <1>6, <1>7, PeerStays

\* A sequence without its element i.
Dropped(w, i) == SubSeq(w, 1, i - 1) \o SubSeq(w, i + 1, Len(w))

LEMMA DroppedShape ==
  ASSUME NEW S, NEW w \in Seq(S), NEW i \in 1..Len(w)
  PROVE  /\ Dropped(w, i) \in Seq(S) /\ Len(w) \in Nat
         /\ Len(Dropped(w, i)) = Len(w) - 1
         /\ \A k \in 1..Len(Dropped(w, i)) :
              Dropped(w, i)[k] = w[IF k < i THEN k ELSE k + 1]
<1> DEFINE v == Dropped(w, i)
<1> DEFINE a == SubSeq(w, 1, i - 1)
           b == SubSeq(w, i + 1, Len(w))
<1>1. Len(w) \in Nat /\ \A k \in 1..Len(w) : w[k] \in S
  BY ElementOfSeq, LenProperties
<1>2. /\ a \in Seq(S) /\ Len(a) = i - 1
      /\ \A k \in 1..(i - 1) : a[k] = w[k]
  BY <1>1, SubSeqProperties
<1>3. /\ b \in Seq(S) /\ Len(b) = Len(w) - i
      /\ \A k \in 1..(Len(w) - i) : b[k] = w[k + i]
  BY <1>1, SubSeqProperties
<1>0. v = a \o b
  BY DEF Dropped
<1> HIDE DEF a, b, v
<1>4. /\ v \in Seq(S) /\ Len(v) = Len(a) + Len(b)
      /\ \A k \in 1..(Len(a) + Len(b)) : v[k] = IF k <= Len(a) THEN a[k] ELSE b[k - Len(a)]
  BY <1>0, <1>2, <1>3, ConcatProperties
<1>5. Len(v) = Len(w) - 1
  BY <1>1, <1>2, <1>3, <1>4
<1>6. ASSUME NEW k \in 1..Len(v) PROVE v[k] = w[IF k < i THEN k ELSE k + 1]
  <2>1. CASE k < i
    BY <1>1, <1>2, <1>4, <1>5, <2>1
  <2>2. CASE ~(k < i)
    <3>1. v[k] = b[k - (i - 1)] /\ k - (i - 1) \in 1..(Len(w) - i)
      BY <1>1, <1>2, <1>4, <1>5, <2>2
    <3>2. (k - (i - 1)) + i = k + 1
      OBVIOUS
    <3> QED BY <1>3, <2>2, <3>1, <3>2
  <2> QED BY <2>1, <2>2
<1> QED BY <1>1, <1>4, <1>5, <1>6 DEF v

\* Who breaks off is not among those who wait any more; the others are.
LEMMA ResetWaiting ==
  ASSUME ServerInv, NEW c \in Clients, Reset(c)
  PROVE  /\ waiting' \in Seq(Clients) /\ ~Waits(c)'
         /\ \A d \in Clients : d # c => (Waits(d)' <=> Waits(d))
         /\ \A k \in DOMAIN waiting' : waiting'[k] # c /\ Waits(waiting'[k])
         /\ \A k, l \in DOMAIN waiting' : waiting'[k] = waiting'[l] => k = l
<1>1. waiting \in Seq(Clients) /\ Len(waiting) \in Nat /\ DOMAIN waiting = 1..Len(waiting)
  BY Types, LenProperties DEF ServerInv
<1>2. /\ \A i \in DOMAIN waiting : ~Accepted(waiting[i]) /\ waiting[i] \in Clients
      /\ \A i, j \in DOMAIN waiting : waiting[i] = waiting[j] => i = j
  BY <1>1 DEF ServerInv, WaitingOK
<1>3. CASE Accepted(c)
  <2>1. waiting' = waiting
    BY <1>3 DEF Reset
  <2>2. ~Waits(c)
    BY <1>2, <1>3 DEF Waits
  <2> QED BY <1>1, <1>2, <1>3, <2>1, <2>2 DEF Waits
<1>4. CASE ~Accepted(c)
  <2>1. PICK i \in DOMAIN waiting : waiting[i] = c /\ waiting' = Dropped(waiting, i)
    BY <1>4 DEF Reset, Dropped
  <2> DEFINE v == waiting'
  <2> DEFINE f(k) == IF k < i THEN k ELSE k + 1
  <2>2. /\ v \in Seq(Clients) /\ Len(v) = Len(waiting) - 1
        /\ \A k \in 1..Len(v) : v[k] = waiting[f(k)]
    BY <1>1, <2>1, DroppedShape
  <2> HIDE DEF v
  <2>3. DOMAIN v = 1..Len(v)
    BY <2>2, LenProperties
  <2>4. /\ i \in 1..Len(waiting)
        /\ \A k \in 1..Len(v) : f(k) \in 1..Len(waiting) /\ f(k) # i
        /\ \A k, l \in 1..Len(v) : f(k) = f(l) => k = l
    BY <1>1, <2>1, <2>2
  <2>5. \A j \in 1..Len(waiting) : j # i => \E k \in 1..Len(v) : f(k) = j
    <3> TAKE j \in 1..Len(waiting)
    <3>1. CASE j < i
      <4>1. j \in 1..Len(v) /\ f(j) = j
        BY <1>1, <2>1, <2>2, <3>1
      <4> QED BY <4>1
    <3>2. CASE j > i
      <4>1. j - 1 \in 1..Len(v) /\ f(j - 1) = j
        BY <1>1, <2>1, <2>2, <3>2
      <4> QED BY <4>1
    <3> QED BY <2>4, <3>1, <3>2
  <2> HIDE DEF f
  <2>6. \A k \in DOMAIN v : v[k] # c /\ Waits(v[k])
    BY <1>1, <1>2, <2>1, <2>2, <2>3, <2>4 DEF Waits
  <2>7. \A k, l \in DOMAIN v : v[k] = v[l] => k = l
    BY <1>1, <1>2, <2>2, <2>3, <2>4
  <2>8. ASSUME NEW d \in Clients, d # c, Waits(d) PROVE \E k \in DOMAIN v : v[k] = d
    <3>1. PICK j \in 1..Len(waiting) : waiting[j] = d
      BY <1>1, <2>8 DEF Waits
    <3>2. PICK k \in 1..Len(v) : f(k) = j
      BY <2>1, <2>5, <2>8, <3>1
    <3> QED BY <2>2, <2>3, <3>1, <3>2
  <2>9. \A d : Waits(d)' <=> \E k \in DOMAIN v : v[k] = d
    BY DEF Waits, v
  <2> QED BY <2>2, <2>6, <2>7, <2>8, <2>9 DEF v
<1> QED BY <1>3, <1>4

LEMMA ResetEffect ==
  ASSUME ServerInv, NEW c \in Clients, Reset(c)
  PROVE  /\ queue' \in Seq(SocketMessage) /\ net' \in [Clients -> NetState]
         /\ net'[c].phase = "reset" /\ net'[c].unread = 0
         /\ \A d \in Clients : d # c => net'[d] = net[d]
         /\ UNCHANGED <<owner, sessions, asked, handled, crashed>>
         /\ QueueOK(queue', owner, sessions, net') /\ SessionsOK' /\ VainInv'
<1> DEFINE n == [phase |-> "reset", unread |-> 0, room |-> FALSE, owed |-> FALSE]
<1> DEFINE es == <<Message(HandleOf(c), "FD_CLOSE", c)>>
<1>1. net[c].phase = "up" /\ PeerActs(c, n, es) /\ asked' = asked
  BY DEF Reset
<1>2. n \in NetState /\ n.phase = "reset" /\ n.unread = 0
  BY DEF NetState
<1>3. Postable(c, n, es)
  BY <1>2 DEF Postable, Over
<1>4. Over(n)
  BY <1>2 DEF Over
<1> HIDE DEF n, es
<1> QED BY <1>1, <1>2, <1>3, <1>4, PeerInv

LEMMA ResetInv ==
  ASSUME ServerInv, NEW c \in Clients, Reset(c) PROVE ServerInv'
<1>1. TypeOK' /\ OwnersDiffer' /\ SessionsOK' /\ VainInv'
      /\ QueueOK(queue', owner', sessions', net')
  <2>1. TypeOK /\ OwnersDiffer
    BY DEF ServerInv
  <2>2. TypeOK'
    BY <2>1, Types, TypesAgain, ResetEffect, ResetWaiting
  <2> QED BY <2>1, <2>2, ResetEffect DEF OwnersDiffer
<1>2. \A d : Accepted(d)' <=> Accepted(d)
  BY ResetEffect DEF Accepted
<1>3. waiting \in Seq(Clients) /\ WaitingOK
  BY Types DEF ServerInv
<1>4. \A d : Waits(d) => /\ d \in Clients /\ ~Accepted(d)
                         /\ net[d].phase \in {"up", "finished"}
  BY <1>3 DEF Waits, WaitingOK
<1>5. WaitingOK'
  <2>1. ASSUME NEW k \in DOMAIN waiting'
        PROVE  /\ ~(\E h \in DOMAIN owner' : owner'[h] = waiting'[k])
               /\ net'[waiting'[k]].phase \in {"up", "finished"}
    <3>1. waiting'[k] # c /\ Waits(waiting'[k])
      BY ResetWaiting
    <3> QED BY <1>4, <3>1, ResetEffect DEF Accepted
  <2>2. \A k, l \in DOMAIN waiting' : waiting'[k] = waiting'[l] => k = l
    BY ResetWaiting
  <2> QED BY <2>1, <2>2 DEF WaitingOK, Accepted
<1>6. ASSUME NEW d \in Clients PROVE ClientOK(d)'
  <2>1. ClientOK(d)
    BY DEF ServerInv
  <2>2. CASE d = c
    BY <1>2, <2>1, <2>2, ResetEffect DEF ClientOK
  <2>3. CASE d # c
    <3>1. (Waits(d)' <=> Waits(d)) /\ net'[d] = net[d]
      BY <2>3, ResetWaiting, ResetEffect
    <3> QED BY <1>2, <2>1, <3>1, ResetEffect DEF ClientOK
  <2> QED BY <2>2, <2>3
<1> QED BY <1>1, <1>5, <1>6 DEF ServerInv

\* Winsock tells of a connection that waits.
LEMMA PostAccept ==
  ASSUME NEW q, NEW ow, NEW ss, NEW nt, QueueOK(q, ow, ss, nt)
  PROVE  /\ QueueOK(q \o <<AcceptMessage>>, ow, ss, nt)
         /\ \A h \in DOMAIN ow : Woken(q, h, ow) => Woken(q \o <<AcceptMessage>>, h, ow)
<1>1. AcceptMessage \in SocketMessage /\ AcceptMessage.event = "FD_ACCEPT"
      /\ Sound(AcceptMessage, ow, nt)
  BY MessagesDiffer DEF SocketMessage, Sound
<1>2. q \in Seq(SocketMessage)
  BY DEF QueueOK
<1> QED BY <1>1, <1>2, QueuePost, WokenPost

LEMMA ConnectEffect ==
  ASSUME ServerInv, NEW c \in Clients, Connect(c)
  PROVE  /\ net' \in [Clients -> NetState]
         /\ net'[c].phase = "up" /\ net'[c].unread = net[c].unread /\ net'[c].owed = net[c].owed
         /\ \A d \in Clients : d # c => net'[d] = net[d]
         /\ waiting' \in Seq(Clients) /\ ~Waits(c) /\ Waits(c)'
         /\ \A d : d # c => (Waits(d)' <=> Waits(d))
         /\ \A k \in DOMAIN waiting' : waiting'[k] = c \/ Waits(waiting'[k])
         /\ \A k, l \in DOMAIN waiting' : waiting'[k] = waiting'[l] => k = l
<1>1. waiting \in Seq(Clients) /\ Len(waiting) \in Nat /\ DOMAIN waiting = 1..Len(waiting)
      /\ net \in [Clients -> NetState]
  BY Types, LenProperties DEF ServerInv
<1>2. net[c] \in NetState /\ net[c].phase = "away" /\ waiting' = Append(waiting, c)
  BY <1>1 DEF Connect
<1>3. net' = [net EXCEPT ![c] = [net[c] EXCEPT !.phase = "up"]]
  BY DEF Connect
<1>4. /\ net' \in [Clients -> NetState]
      /\ net'[c].phase = "up" /\ net'[c].unread = net[c].unread /\ net'[c].owed = net[c].owed
      /\ \A d \in Clients : d # c => net'[d] = net[d]
  <2> DEFINE x == [net[c] EXCEPT !.phase = "up"]
  <2>1. x \in NetState /\ x.phase = "up" /\ x.unread = net[c].unread /\ x.owed = net[c].owed
    BY <1>2 DEF NetState
  <2>2. net' = [net EXCEPT ![c] = x]
    BY <1>3
  <2> HIDE DEF x
  <2> QED BY <1>1, <2>1, <2>2
<1>5. ~Waits(c)
  BY <1>1, <1>2 DEF Waits, ServerInv, WaitingOK
<1>6. /\ waiting' \in Seq(Clients) /\ Len(waiting') = Len(waiting) + 1
      /\ (\A i \in 1..Len(waiting) : waiting'[i] = waiting[i])
      /\ waiting'[Len(waiting) + 1] = c
  BY <1>1, <1>2, AppendProperties
<1>7. DOMAIN waiting' = 1..(Len(waiting) + 1)
  BY <1>6, LenProperties
<1>8. \A k \in DOMAIN waiting' : k \in 1..Len(waiting) \/ k = Len(waiting) + 1
  BY <1>1, <1>7
<1>9. 1..Len(waiting) \subseteq DOMAIN waiting' /\ Len(waiting) + 1 \in DOMAIN waiting'
  BY <1>1, <1>7
<1>10. \A d : Waits(d)' <=> Waits(d) \/ d = c
  <2>1. \A d : Waits(d)' => Waits(d) \/ d = c
    BY <1>1, <1>6, <1>8 DEF Waits
  <2>2. \A d : Waits(d) \/ d = c => Waits(d)'
    BY <1>1, <1>6, <1>9 DEF Waits
  <2> QED BY <2>1, <2>2
<1>11. \A k \in DOMAIN waiting' : waiting'[k] = c \/ Waits(waiting'[k])
  BY <1>1, <1>6, <1>8 DEF Waits
<1>12. \A k, l \in DOMAIN waiting' : waiting'[k] = waiting'[l] => k = l
  <2> TAKE k, l \in DOMAIN waiting'
  <2> HAVE waiting'[k] = waiting'[l]
  <2>1. \A i \in 1..Len(waiting) : waiting'[i] # c
    BY <1>1, <1>5, <1>6 DEF Waits
  <2>2. \A i, j \in 1..Len(waiting) : waiting[i] = waiting[j] => i = j
    BY <1>1 DEF ServerInv, WaitingOK
  <2> QED BY <1>6, <1>8, <2>1, <2>2
<1> QED BY <1>4, <1>5, <1>6, <1>10, <1>11, <1>12

LEMMA ConnectInv ==
  ASSUME ServerInv, NEW c \in Clients, Connect(c) PROVE ServerInv'
<1>1. /\ UNCHANGED <<owner, sessions, asked, handled, crashed>> /\ net[c].phase = "away"
      /\ queue' = queue \/ queue' = Append(queue, AcceptMessage)
  BY DEF Connect
<1>2. TypeOK /\ OwnersDiffer /\ WaitingOK /\ ClientOK(c) /\ SessionsOK /\ VainInv
      /\ QueueOK(queue, owner, sessions, net)
  BY DEF ServerInv
<1>3. /\ queue \in Seq(SocketMessage) /\ owner \in [DOMAIN owner -> Clients]
      /\ DOMAIN sessions \subseteq DOMAIN owner /\ waiting \in Seq(Clients)
  BY <1>2, Types
<1>4. \A h \in DOMAIN owner : owner[h] # c
  BY <1>1, <1>2 DEF ClientOK, Accepted
<1>5. QueueOK(queue, owner, sessions, net')
  <2>1. \A d \in Clients : Over(net[d]) => Over(net'[d])
    BY <1>1, ConnectEffect DEF Over
  <2>2. \A d \in Clients : net[d].phase = "finished" => net'[d].phase = "finished"
    BY <1>1, ConnectEffect
  <2> QED BY <1>2, <1>3, <2>1, <2>2, QueueKeeps
<1>6. /\ QueueOK(queue', owner, sessions, net')
      /\ \A h \in DOMAIN owner : Woken(queue, h, owner) => Woken(queue', h, owner)
  <2>1. AcceptMessage \in SocketMessage
    BY DEF SocketMessage
  <2>2. Append(queue, AcceptMessage) = queue \o <<AcceptMessage>>
    BY <1>3, <2>1, AppendIsConcat
  <2> QED BY <1>1, <1>5, <2>2, PostAccept
<1>7. TypeOK'
  <2>1. queue' \in Seq(SocketMessage)
    BY <1>6 DEF QueueOK
  <2> QED BY <1>1, <1>2, <2>1, Types, TypesAgain, ConnectEffect
<1>8. OwnersDiffer' /\ SessionsOK' /\ VainInv'
  <2>1. \A h \in DOMAIN owner : net'[owner[h]] = net[owner[h]]
    BY <1>3, <1>4, ConnectEffect
  <2> QED BY <1>1, <1>2, <1>3, <1>6, <2>1 DEF OwnersDiffer, SessionsOK, VainInv
<1>9. \A d : Accepted(d)' <=> Accepted(d)
  BY <1>1 DEF Accepted
<1>10. \A d : Waits(d) => /\ d \in Clients /\ ~Accepted(d)
                          /\ net[d].phase \in {"up", "finished"}
  BY <1>2, <1>3 DEF Waits, WaitingOK
<1>11. WaitingOK'
  <2>1. ASSUME NEW k \in DOMAIN waiting'
        PROVE  /\ ~(\E h \in DOMAIN owner' : owner'[h] = waiting'[k])
               /\ net'[waiting'[k]].phase \in {"up", "finished"}
    <3>1. CASE waiting'[k] = c
      BY <1>1, <1>4, <3>1, ConnectEffect
    <3>2. CASE waiting'[k] # c
      <4>1. Waits(waiting'[k])
        BY <3>2, ConnectEffect
      <4> QED BY <1>1, <1>10, <3>2, <4>1, ConnectEffect DEF Accepted
    <3> QED BY <3>1, <3>2
  <2> QED BY <2>1, ConnectEffect DEF WaitingOK, Accepted
<1>12. ASSUME NEW d \in Clients PROVE ClientOK(d)'
  <2>1. ClientOK(d)
    BY DEF ServerInv
  <2>2. CASE d = c
    BY <1>1, <1>2, <2>2, ConnectEffect DEF ClientOK
  <2>3. CASE d # c
    BY <1>1, <1>9, <2>1, <2>3, ConnectEffect DEF ClientOK
  <2> QED BY <2>2, <2>3
<1> QED BY <1>1, <1>6, <1>7, <1>8, <1>11, <1>12 DEF ServerInv

---------------------------------------------------------------------------
(* The handlers.                                                           *)

\* What a handler that is called for a session knows.
LEMMA HandlerFacts ==
  ASSUME ServerInv, NEW e \in {"FD_READ", "FD_WRITE", "FD_CLOSE"}, OnMsgSocket(e)
  PROVE  LET h == Head(queue).sock IN
         /\ queue # << >> /\ ~crashed
         /\ h \in DOMAIN owner /\ owner[h] \in Clients
         /\ Head(queue) = Message(h, e, owner[h])
         /\ e = "FD_CLOSE" => Over(net[owner[h]])
         /\ e = "FD_WRITE" /\ h \notin DOMAIN sessions => net[owner[h]].phase = "finished"
<1> DEFINE m == Head(queue)
<1>1. /\ queue \in Seq(SocketMessage) /\ queue # << >> /\ ~crashed /\ m.event = e
      /\ owner \in [DOMAIN owner -> Clients]
  BY Types DEF ServerInv, OnMsgSocket
<1>2. Len(queue) \in Nat \ {0} /\ m = queue[1] /\ m \in SocketMessage /\ 1 \in 1..Len(queue)
  BY <1>1, TailShape
<1> HIDE DEF m
<1>3. m \in ClientMessage /\ m # AcceptMessage
  BY <1>1, <1>2, MessagesDiffer
<1>4. Sound(m, owner, net) /\ (Late(queue, 1, sessions) => net[m.about].phase = "finished")
  BY <1>2 DEF ServerInv, QueueOK
<1>5. /\ m.sock \in DOMAIN owner /\ m.about = owner[m.sock]
      /\ m.event = "FD_CLOSE" => Over(net[m.about])
  BY <1>3, <1>4 DEF Sound
<1>6. m = [sock |-> m.sock, event |-> m.event, about |-> m.about]
  BY <1>3 DEF ClientMessage
<1>7. e = "FD_WRITE" /\ m.sock \notin DOMAIN sessions => Late(queue, 1, sessions)
  BY <1>1, <1>2 DEF Late
<1> QED BY <1>1, <1>4, <1>5, <1>6, <1>7 DEF Message, m

\* The queue without the message that is handled.
LEMMA QueueTaken ==
  ASSUME ServerInv, NEW e, OnMsgSocket(e)
  PROVE  /\ Tail(queue) \in Seq(SocketMessage)
         /\ QueueOK(Tail(queue), owner, sessions, net)
         /\ \A h \in DOMAIN sessions :
              Woken(queue, h, owner) /\ (e # "FD_WRITE" \/ Head(queue).sock # h)
                => Woken(Tail(queue), h, owner)
<1>1. queue \in Seq(SocketMessage) /\ queue # << >> /\ Head(queue).event = e
  BY Types DEF ServerInv, OnMsgSocket
<1>2. QueueOK(queue, owner, sessions, net)
  BY DEF ServerInv
<1>3. QueueOK(Tail(queue), owner, sessions, net)
  BY <1>1, <1>2, QueueTail
<1>4. ASSUME NEW h \in DOMAIN sessions, Woken(queue, h, owner),
             e # "FD_WRITE" \/ Head(queue).sock # h
      PROVE  Woken(Tail(queue), h, owner)
  <2>1. Head(queue) # Message(h, "FD_WRITE", owner[h])
    BY <1>1, <1>4 DEF Message
  <2> QED BY <1>1, <1>4, <2>1, WokenTail
<1> QED BY <1>3, <1>4 DEF QueueOK

LEMMA PostReadable ==
  ASSUME NEW q, NEW ow, NEW ss, NEW nt, QueueOK(q, ow, ss, nt),
         NEW h \in Handles, NEW c \in Clients, h \in DOMAIN ow, ow[h] = c,
         NEW n \in NetState, nt[c].phase = n.phase, nt[c].unread = n.unread
  PROVE  /\ QueueOK(q \o Readable(h, c, n), ow, ss, nt)
         /\ \A g \in DOMAIN ow : Woken(q, g, ow) => Woken(q \o Readable(h, c, n), g, ow)
<1>1. q \in Seq(SocketMessage) /\ n.unread \in Nat
  BY DEF QueueOK, NetState
<1>2. CASE Readable(h, c, n) = << >>
  BY <1>1, <1>2, ConcatEmptySeq
<1>3. CASE Readable(h, c, n) = <<Message(h, "FD_READ", c)>>
  <2> DEFINE m == Message(h, "FD_READ", c)
  <2>1. m \in SocketMessage /\ m.sock = h /\ m.event = "FD_READ" /\ m.about = c
    BY MessageShape
  <2> HIDE DEF m
  <2>2. Sound(m, ow, nt)
    BY <2>1 DEF Sound
  <2>3. QueueOK(q \o <<m>>, ow, ss, nt)
    BY <2>1, <2>2, QueuePost
  <2> QED BY <1>1, <1>3, <2>1, <2>3, WokenPost DEF m
<1>4. CASE Readable(h, c, n) = <<Message(h, "FD_CLOSE", c)>>
           /\ n.unread = 0 /\ n.phase = "finished"
  <2> DEFINE m == Message(h, "FD_CLOSE", c)
  <2>1. m \in SocketMessage /\ m.sock = h /\ m.event = "FD_CLOSE" /\ m.about = c
    BY MessageShape
  <2> HIDE DEF m
  <2>2. Sound(m, ow, nt)
    BY <1>4, <2>1 DEF Sound, Over
  <2>3. QueueOK(q \o <<m>>, ow, ss, nt)
    BY <2>1, <2>2, QueuePost
  <2> QED BY <1>1, <1>4, <2>1, <2>3, WokenPost DEF m
<1>5. \/ Readable(h, c, n) = << >>
      \/ Readable(h, c, n) = <<Message(h, "FD_READ", c)>>
      \/ Readable(h, c, n) = <<Message(h, "FD_CLOSE", c)>>
         /\ n.unread = 0 /\ n.phase = "finished"
  BY <1>1 DEF Readable
<1> QED BY <1>2, <1>3, <1>4, <1>5

\* The sends of the sessions leave alone what the peers do; a session that has
\* to wait is owed an FD_WRITE.
LEMMA SendsEffect ==
  ASSUME TypeOK, OwnersDiffer, NEW tried, tried \subseteq DOMAIN owner, NEW full,
         NEW peers \in [Clients -> NetState], net' = AfterSends(tried, full, peers)
  PROVE  /\ net' \in [Clients -> NetState]
         /\ \A c \in Clients : /\ net'[c].phase = peers[c].phase
                               /\ net'[c].unread = peers[c].unread
                               /\ peers[c].owed => net'[c].owed
         /\ \A h \in tried \ Taken(tried) : net'[owner[h]].owed
<1>1. \A h \in DOMAIN owner : owner[h] \in Clients /\ HandleOf(owner[h]) = h
  BY Types, HandleOfOwner
<1>2. ASSUME NEW c \in Clients
      PROVE  /\ net'[c] \in NetState
             /\ net'[c].phase = peers[c].phase /\ net'[c].unread = peers[c].unread
             /\ peers[c].owed => net'[c].owed
  <2>1. \/ net'[c] = peers[c]
        \/ \E b \in BOOLEAN : net'[c] = [peers[c] EXCEPT !.room = b]
        \/ net'[c] = [peers[c] EXCEPT !.owed = TRUE]
    BY DEF AfterSends
  <2>2. peers[c] \in NetState
    OBVIOUS
  <2> QED BY <2>1, <2>2 DEF NetState
<1>3. net' \in [Clients -> NetState]
  <2>1. net' = [c \in Clients |-> net'[c]]
    BY DEF AfterSends
  <2> QED BY <1>2, <2>1
<1>4. ASSUME NEW h \in tried \ Taken(tried) PROVE net'[owner[h]].owed
  <2>1. owner[h] \in Clients /\ HandleOf(owner[h]) = h /\ h \in tried /\ h \notin Taken(tried)
    BY <1>1, <1>4
  <2>2. net'[owner[h]] = [peers[owner[h]] EXCEPT !.owed = TRUE]
    BY <2>1 DEF AfterSends
  <2>3. peers[owner[h]] \in NetState
    BY <2>1
  <2> QED BY <2>2, <2>3 DEF NetState
<1> QED BY <1>2, <1>3, <1>4

\* write() of some sessions; which of them have to wait for an FD_WRITE now.
LEMMA WriteEffect ==
  ASSUME TypeOK, OwnersDiffer, NEW tried, tried \subseteq DOMAIN sessions,
         NEW peers \in [Clients -> NetState], Write(tried, peers)
  PROVE  /\ net' \in [Clients -> NetState]
         /\ \A c \in Clients : /\ net'[c].phase = peers[c].phase
                               /\ net'[c].unread = peers[c].unread
                               /\ peers[c].owed => net'[c].owed
         /\ DOMAIN sessions' = DOMAIN sessions
         /\ sessions' \in [DOMAIN sessions -> WriterStates]
         /\ \A h \in DOMAIN sessions \ tried : sessions'[h] = sessions[h]
         /\ \A h \in tried : sessions'[h] = "REFUSED" => net'[owner[h]].owed
<1>1. /\ DOMAIN sessions \subseteq DOMAIN owner
      /\ sessions \in [DOMAIN sessions -> WriterStates]
  BY Types
<1>2. tried \subseteq DOMAIN owner
  BY <1>1
<1>0. PICK full \in SUBSET Taken(tried) : \E part \in SUBSET full :
        /\ net' = AfterSends(tried, full, peers)
        /\ sessions' = [h \in DOMAIN sessions |->
                          IF h \notin tried THEN sessions[h]
                          ELSE IF h \in part THEN "PART"
                          ELSE IF h \in Taken(tried) THEN "READY"
                          ELSE "REFUSED"]
  BY DEF Write
<1>3. PICK part \in SUBSET full :
        /\ net' = AfterSends(tried, full, peers)
        /\ sessions' = [h \in DOMAIN sessions |->
                          IF h \notin tried THEN sessions[h]
                          ELSE IF h \in part THEN "PART"
                          ELSE IF h \in Taken(tried) THEN "READY"
                          ELSE "REFUSED"]
  BY <1>0
<1>4. /\ net' \in [Clients -> NetState]
      /\ \A c \in Clients : /\ net'[c].phase = peers[c].phase
                            /\ net'[c].unread = peers[c].unread
                            /\ peers[c].owed => net'[c].owed
      /\ \A h \in tried \ Taken(tried) : net'[owner[h]].owed
  BY <1>2, <1>3, SendsEffect
<1>5. /\ DOMAIN sessions' = DOMAIN sessions
      /\ sessions' \in [DOMAIN sessions -> WriterStates]
      /\ \A h \in DOMAIN sessions \ tried : sessions'[h] = sessions[h]
  BY <1>1, <1>3 DEF WriterStates
<1>6. \A h \in tried : sessions'[h] = "REFUSED" => h \notin Taken(tried)
  BY <1>3
<1> QED BY <1>4, <1>5, <1>6

LEMMA WriteBuffersEffect ==
  ASSUME TypeOK, OwnersDiffer, NEW to, to \subseteq DOMAIN sessions,
         NEW peers \in [Clients -> NetState], WriteBuffers(to, peers)
  PROVE  /\ net' \in [Clients -> NetState]
         /\ \A c \in Clients : /\ net'[c].phase = peers[c].phase
                               /\ net'[c].unread = peers[c].unread
                               /\ peers[c].owed => net'[c].owed
         /\ DOMAIN sessions' = DOMAIN sessions
         /\ sessions' \in [DOMAIN sessions -> WriterStates]
         /\ \A h \in DOMAIN sessions :
              sessions'[h] = "REFUSED" => sessions[h] = "REFUSED" \/ net'[owner[h]].owed
<1>1. Sending(to) \subseteq DOMAIN sessions
  BY DEF Sending
<1>2. Write(Sending(to), peers)
  BY DEF WriteBuffers
<1>3. /\ net' \in [Clients -> NetState]
      /\ \A c \in Clients : /\ net'[c].phase = peers[c].phase
                            /\ net'[c].unread = peers[c].unread
                            /\ peers[c].owed => net'[c].owed
      /\ DOMAIN sessions' = DOMAIN sessions
      /\ sessions' \in [DOMAIN sessions -> WriterStates]
      /\ \A h \in DOMAIN sessions \ Sending(to) : sessions'[h] = sessions[h]
      /\ \A h \in Sending(to) : sessions'[h] = "REFUSED" => net'[owner[h]].owed
  BY <1>1, <1>2, WriteEffect
<1> QED BY <1>3

\* Steps that change neither waiting nor owner, and of a peer no more than
\* how much it has to be read.
LEMMA HandlerRest ==
  ASSUME ServerInv, UNCHANGED <<waiting, owner, asked>>,
         \A c \in Clients : net'[c].phase = net[c].phase,
         \A c \in Clients : handled'[c] + net'[c].unread = handled[c] + net[c].unread,
         \A c \in Clients : net[c].phase = "reset" => net'[c].unread = 0
  PROVE  OwnersDiffer' /\ WaitingOK' /\ \A c \in Clients : ClientOK(c)'
<1>1. waiting \in Seq(Clients)
  BY Types DEF ServerInv
<1>2. \A i \in DOMAIN waiting : waiting[i] \in Clients
  BY <1>1
<1>3. \A d : (Accepted(d)' <=> Accepted(d)) /\ (Waits(d)' <=> Waits(d))
  BY DEF Accepted, Waits
<1>4. OwnersDiffer' /\ WaitingOK'
  BY <1>2, <1>3 DEF ServerInv, OwnersDiffer, WaitingOK
<1>5. ASSUME NEW c \in Clients PROVE ClientOK(c)'
  <2>1. ClientOK(c)
    BY DEF ServerInv
  <2> QED BY <1>3, <2>1 DEF ClientOK
<1> QED BY <1>4, <1>5

\* The message changes nothing but the queue.
LEMMA QueueOnly ==
  ASSUME ServerInv, UNCHANGED <<waiting, owner, sessions, net, asked, handled>>,
         crashed' \in BOOLEAN, QueueOK(queue', owner, sessions, net),
         \A h \in DOMAIN sessions : Woken(queue, h, owner) => Woken(queue', h, owner)
  PROVE  ServerInv'
<1>1. OwnersDiffer' /\ WaitingOK' /\ \A c \in Clients : ClientOK(c)'
  <2>1. \A c \in Clients : ClientOK(c)
    BY DEF ServerInv
  <2> QED BY <2>1, HandlerRest DEF ClientOK
<1>2. TypeOK'
  <2>1. TypeOK /\ queue' \in Seq(SocketMessage)
    BY DEF ServerInv, QueueOK
  <2> QED BY <2>1, Types, TypesAgain
<1>3. SessionsOK' /\ VainInv'
  BY DEF ServerInv, SessionsOK, VainInv
<1> QED BY <1>1, <1>2, <1>3 DEF ServerInv

LEMMA AcceptFailsInv ==
  ASSUME ServerInv, AcceptFails PROVE ServerInv'
<1>1. /\ OnMsgSocket("FD_ACCEPT") /\ UNCHANGED <<waiting, owner, sessions, net, asked, handled, crashed>>
      /\ queue' = Tail(queue) \/ queue' = Append(Tail(queue), AcceptMessage)
  BY DEF AcceptFails
<1>2. /\ Tail(queue) \in Seq(SocketMessage) /\ QueueOK(Tail(queue), owner, sessions, net)
      /\ \A h \in DOMAIN sessions : Woken(queue, h, owner) => Woken(Tail(queue), h, owner)
  BY <1>1, QueueTaken
<1>3. Append(Tail(queue), AcceptMessage) = Tail(queue) \o <<AcceptMessage>>
  <2>1. AcceptMessage \in SocketMessage
    BY DEF SocketMessage
  <2> QED BY <1>2, <2>1, AppendIsConcat
<1>4. /\ QueueOK(queue', owner, sessions, net)
      /\ \A h \in DOMAIN sessions : Woken(queue, h, owner) => Woken(queue', h, owner)
  <2>1. DOMAIN sessions \subseteq DOMAIN owner
    BY Types DEF ServerInv
  <2> QED BY <1>1, <1>2, <1>3, <2>1, PostAccept
<1>5. crashed' \in BOOLEAN
  BY <1>1, Types DEF ServerInv
<1> QED BY <1>1, <1>4, <1>5, QueueOnly

LEMMA ReadFailsInv ==
  ASSUME ServerInv, ReadFails PROVE ServerInv'
<1>1. /\ OnMsgSocket("FD_READ") /\ UNCHANGED <<waiting, owner, sessions, net, asked, handled, crashed>>
      /\ queue' = Tail(queue)
  BY DEF ReadFails
<1>2. crashed' \in BOOLEAN
  BY <1>1, Types DEF ServerInv
<1> QED BY <1>1, <1>2, QueueTaken, QueueOnly

LEMMA WriteCrashesInv ==
  ASSUME ServerInv, WriteCrashes PROVE ServerInv'
<1>1. UNCHANGED <<queue, waiting, owner, sessions, net, asked, handled>> /\ crashed' = TRUE
  BY DEF WriteCrashes
<1>2. QueueOK(queue, owner, sessions, net)
  BY DEF ServerInv
<1> QED BY <1>1, <1>2, QueueOnly

LEMMA CloseInv ==
  ASSUME ServerInv, OnMsgSocketClose PROVE ServerInv'
<1> DEFINE h == Head(queue).sock
<1>1. /\ OnMsgSocket("FD_CLOSE") /\ UNCHANGED <<waiting, owner, net, asked, handled>>
      /\ crashed' \in BOOLEAN
      /\ queue' = Tail(queue) /\ sessions' = Without(sessions, h)
  BY DEF OnMsgSocketClose
<1>2. /\ h \in DOMAIN owner /\ Over(net[owner[h]]) /\ queue # << >>
      /\ Head(queue) = Message(h, "FD_CLOSE", owner[h])
  BY <1>1, HandlerFacts
<1>3. Head(queue).event = "FD_CLOSE"
  BY <1>1 DEF OnMsgSocket
<1> HIDE DEF h
<1>4. /\ TypeOK /\ (\A c \in Clients : ClientOK(c)) /\ SessionsOK /\ VainInv
      /\ QueueOK(queue, owner, sessions, net)
  BY DEF ServerInv
<1>5. DOMAIN sessions \subseteq DOMAIN owner
      /\ sessions \in [DOMAIN sessions -> WriterStates]
  BY <1>4, Types
<1>6. /\ DOMAIN sessions' = DOMAIN sessions \ {h}
      /\ \A g \in DOMAIN sessions' : sessions'[g] = sessions[g]
      /\ sessions' \in [DOMAIN sessions' -> WriterStates]
  BY <1>1, <1>5 DEF Without
<1>7. OwnersDiffer' /\ WaitingOK' /\ \A c \in Clients : ClientOK(c)'
  BY <1>1, <1>4, HandlerRest DEF ClientOK
<1>8. QueueOK(Tail(queue), owner, sessions', net)
  <2>1. \A g : g \in DOMAIN sessions /\ g \notin DOMAIN sessions' =>
                 Head(queue).event = "FD_CLOSE" /\ Head(queue).sock = g
    BY <1>3, <1>6 DEF h
  <2> QED BY <1>2, <1>4, <2>1, QueueTail
<1>9. TypeOK'
  <2>1. queue' \in Seq(SocketMessage)
    BY <1>1, <1>8 DEF QueueOK
  <2> QED BY <1>1, <1>4, <1>5, <1>6, <2>1, Types, TypesAgain
<1>10. SessionsOK'
  BY <1>1, <1>2, <1>4, <1>6 DEF SessionsOK, Over
<1>11. VainInv'
  <2>1. \A g \in DOMAIN sessions : Woken(queue, g, owner) => Woken(Tail(queue), g, owner)
    BY <1>1, QueueTaken
  <2> QED BY <1>1, <1>4, <1>6, <2>1 DEF VainInv
<1> QED BY <1>1, <1>7, <1>8, <1>9, <1>10, <1>11 DEF ServerInv

\* A handler in which sessions write.
LEMMA WritersInv ==
  ASSUME ServerInv, UNCHANGED <<waiting, owner, asked>>, crashed' \in BOOLEAN,
         handled' \in [Clients -> Nat], net' \in [Clients -> NetState],
         \A c \in Clients : net'[c].phase = net[c].phase,
         \A c \in Clients : handled'[c] + net'[c].unread = handled[c] + net[c].unread,
         \A c \in Clients : net[c].phase = "reset" => net'[c].unread = 0,
         \A c \in Clients : net[c].owed => net'[c].owed,
         DOMAIN sessions' = DOMAIN sessions,
         sessions' \in [DOMAIN sessions -> WriterStates],
         \A h \in DOMAIN sessions : sessions'[h] = "REFUSED" =>
           \/ net'[owner[h]].owed
           \/ sessions[h] = "REFUSED" /\ (Woken(queue, h, owner) => Woken(queue', h, owner)),
         QueueOK(queue', owner, sessions, net')
  PROVE  ServerInv'
<1>1. /\ owner \in [DOMAIN owner -> Clients] /\ DOMAIN sessions \subseteq DOMAIN owner
      /\ DOMAIN owner \subseteq Handles /\ waiting \in Seq(Clients)
      /\ asked \in [Clients -> Nat]
  BY Types DEF ServerInv
<1>2. OwnersDiffer' /\ WaitingOK' /\ \A c \in Clients : ClientOK(c)'
  BY HandlerRest
<1>3. QueueOK(queue', owner, sessions', net')
  BY <1>1, QueueKeeps
<1>4. TypeOK'
  <2>1. queue' \in Seq(SocketMessage)
    BY DEF QueueOK
  <2> QED BY <1>1, <2>1, TypesAgain
<1>5. SessionsOK'
  BY <1>1 DEF ServerInv, SessionsOK
<1>6. VainInv'
  <2>1. ASSUME NEW h \in DOMAIN sessions, sessions'[h] = "REFUSED"
        PROVE  \/ net'[owner[h]].phase = "reset" \/ net'[owner[h]].owed
               \/ Woken(queue', h, owner)
    <3>1. owner[h] \in Clients
      BY <1>1
    <3>2. CASE net'[owner[h]].owed
      BY <3>2
    <3>3. CASE sessions[h] = "REFUSED" /\ (Woken(queue, h, owner) => Woken(queue', h, owner))
      <4>1. net[owner[h]].phase = "reset" \/ net[owner[h]].owed \/ Woken(queue, h, owner)
        BY <3>3 DEF ServerInv, VainInv
      <4> QED BY <3>1, <3>3, <4>1
    <3> QED BY <2>1, <3>2, <3>3
  <2> QED BY <2>1 DEF VainInv
<1> QED BY <1>2, <1>3, <1>4, <1>5, <1>6 DEF ServerInv

LEMMA ReadInv ==
  ASSUME ServerInv, OnMsgSocketRead PROVE ServerInv'
<1> DEFINE h == Head(queue).sock
           c == owner[h]
           n == [net[c] EXCEPT !.unread = @ - 1]
           peers == [net EXCEPT ![c] = n]
<1>1. /\ OnMsgSocket("FD_READ") /\ h \in DOMAIN sessions /\ net[c].unread > 0
      /\ handled' = [handled EXCEPT ![c] = @ + 1]
      /\ queue' = Tail(queue) \o Readable(h, c, n)
      /\ UNCHANGED <<waiting, owner, asked>>
  BY DEF OnMsgSocketRead
<1>2. PICK to \in {{}, {h}, DOMAIN sessions} :
        WriteBuffers(to, peers) /\ crashed' \in {FALSE, (to = {})}
  BY DEF OnMsgSocketRead
<1>3. /\ TypeOK /\ OwnersDiffer /\ h \in DOMAIN owner /\ c \in Clients /\ h \in Handles
      /\ handled \in [Clients -> Nat] /\ net \in [Clients -> NetState]
      /\ owner \in [DOMAIN owner -> Clients] /\ DOMAIN sessions \subseteq DOMAIN owner
  BY <1>1, Types, HandlerFacts DEF ServerInv
<1>4. net[c] \in NetState /\ net[c].unread \in Nat
  BY <1>3, NetFields
<1>5. n \in NetState /\ n.phase = net[c].phase /\ n.unread = net[c].unread - 1
      /\ n.owed = net[c].owed
  <2> DEFINE x == net[c]
  <2> HIDE DEF x
  <2>1. \A y \in NetState, k \in Nat : LET z == [y EXCEPT !.unread = k]
          IN z \in NetState /\ z.phase = y.phase /\ z.unread = k /\ z.owed = y.owed
    BY DEF NetState
  <2>2. x.unread - 1 \in Nat /\ x \in NetState
    <3>1. x \in NetState /\ x.unread \in Nat /\ x.unread > 0
      BY <1>1, <1>4 DEF x
    <3> QED BY <3>1, SMTT(30)
  <2>3. n = [x EXCEPT !.unread = x.unread - 1]
    BY DEF x
  <2> HIDE DEF n
  <2> QED BY <2>1, <2>2, <2>3 DEF x
<1> HIDE DEF n
<1>6. /\ peers \in [Clients -> NetState] /\ peers[c] = n
      /\ \A d \in Clients : d # c => peers[d] = net[d]
  BY <1>3, <1>5
<1> HIDE DEF peers, c, h
<1>7. to \subseteq DOMAIN sessions
  BY <1>1
<1>16. crashed' \in BOOLEAN
  BY <1>2
<1>8. /\ net' \in [Clients -> NetState]
      /\ \A d \in Clients : /\ net'[d].phase = peers[d].phase
                            /\ net'[d].unread = peers[d].unread
                            /\ peers[d].owed => net'[d].owed
      /\ DOMAIN sessions' = DOMAIN sessions
      /\ sessions' \in [DOMAIN sessions -> WriterStates]
      /\ \A g \in DOMAIN sessions :
           sessions'[g] = "REFUSED" => sessions[g] = "REFUSED" \/ net'[owner[g]].owed
  BY <1>2, <1>3, <1>6, <1>7, WriteBuffersEffect
<1>9. /\ \A d \in Clients : net'[d].phase = net[d].phase
      /\ \A d \in Clients : net[d].owed => net'[d].owed
      /\ net'[c].unread = net[c].unread - 1
      /\ \A d \in Clients : d # c => net'[d].unread = net[d].unread
  BY <1>3, <1>5, <1>6, <1>8
<1>10. handled' \in [Clients -> Nat]
       /\ handled'[c] = handled[c] + 1 /\ \A d \in Clients : d # c => handled'[d] = handled[d]
  BY <1>1, <1>3
<1>11. ASSUME NEW d \in Clients
       PROVE  handled'[d] + net'[d].unread = handled[d] + net[d].unread
  <2>1. CASE d = c
    <3>1. handled[c] \in Nat
      BY <1>3
    <3> QED BY <1>4, <1>9, <1>10, <2>1, <3>1
  <2>2. CASE d # c
    BY <1>9, <1>10, <2>2
  <2> QED BY <2>1, <2>2
<1>12. \A d \in Clients : net[d].phase = "reset" => net'[d].unread = 0
  <2>1. \A d \in Clients : net[d].phase = "reset" => net[d].unread = 0
    BY DEF ServerInv, ClientOK
  <2> QED BY <1>1, <1>9, <2>1 DEF c
<1>13. QueueOK(Tail(queue), owner, sessions, net')
  <2>1. QueueOK(Tail(queue), owner, sessions, net)
    BY <1>1, QueueTaken
  <2>2. \A d \in Clients : Over(net[d]) => Over(net'[d])
    BY <1>1, <1>9 DEF Over, c
  <2> QED BY <1>3, <1>9, <2>1, <2>2, QueueKeeps
<1>14. /\ QueueOK(queue', owner, sessions, net')
       /\ \A g \in DOMAIN owner : Woken(Tail(queue), g, owner) => Woken(queue', g, owner)
  <2>1. net'[c].phase = n.phase /\ net'[c].unread = n.unread /\ owner[h] = c
    BY <1>3, <1>6, <1>8 DEF c
  <2> QED BY <1>1, <1>3, <1>5, <1>13, <2>1, PostReadable
<1>15. \A g \in DOMAIN sessions : Woken(queue, g, owner) => Woken(queue', g, owner)
  <2>1. \A g \in DOMAIN sessions : Woken(queue, g, owner) => Woken(Tail(queue), g, owner)
    BY <1>1, QueueTaken
  <2> QED BY <1>3, <1>14, <2>1
<1> QED BY <1>1, <1>8, <1>9, <1>10, <1>11, <1>12, <1>14, <1>15, <1>16, WritersInv

LEMMA WriteInv ==
  ASSUME ServerInv, OnMsgSocketWrite PROVE ServerInv'
<1> DEFINE h == Head(queue).sock
           tried == {h} \ Sending({h})
<1>1. /\ OnMsgSocket("FD_WRITE") /\ h \in DOMAIN sessions /\ queue' = Tail(queue)
      /\ UNCHANGED <<waiting, owner, asked, handled, crashed>>
      /\ Write(tried, net)
  BY DEF OnMsgSocketWrite
<1>3. /\ TypeOK /\ OwnersDiffer /\ h \in DOMAIN owner
      /\ handled \in [Clients -> Nat] /\ net \in [Clients -> NetState]
      /\ owner \in [DOMAIN owner -> Clients] /\ DOMAIN sessions \subseteq DOMAIN owner
      /\ sessions \in [DOMAIN sessions -> WriterStates] /\ crashed \in BOOLEAN
  BY <1>1, Types, HandlerFacts DEF ServerInv
<1>2. tried \subseteq {h} /\ (h \notin tried => sessions[h] = "READY")
  BY DEF Sending
<1> HIDE DEF h, tried
<1>4. /\ net' \in [Clients -> NetState]
      /\ \A d \in Clients : /\ net'[d].phase = net[d].phase
                            /\ net'[d].unread = net[d].unread
                            /\ net[d].owed => net'[d].owed
      /\ DOMAIN sessions' = DOMAIN sessions
      /\ sessions' \in [DOMAIN sessions -> WriterStates]
      /\ \A g \in DOMAIN sessions : g # h => sessions'[g] = sessions[g]
      /\ sessions'[h] = "REFUSED" => net'[owner[h]].owed
  <2>1. tried \subseteq DOMAIN sessions
    BY <1>1, <1>2
  <2>2. /\ net' \in [Clients -> NetState]
        /\ \A d \in Clients : /\ net'[d].phase = net[d].phase
                              /\ net'[d].unread = net[d].unread
                              /\ net[d].owed => net'[d].owed
        /\ DOMAIN sessions' = DOMAIN sessions
        /\ sessions' \in [DOMAIN sessions -> WriterStates]
        /\ \A g \in DOMAIN sessions \ tried : sessions'[g] = sessions[g]
        /\ \A g \in tried : sessions'[g] = "REFUSED" => net'[owner[g]].owed
    BY <1>1, <1>3, <2>1, WriteEffect
  <2> QED BY <1>1, <1>2, <2>2
<1>5. /\ QueueOK(Tail(queue), owner, sessions, net)
      /\ \A g \in DOMAIN sessions :
           Woken(queue, g, owner) /\ g # h => Woken(Tail(queue), g, owner)
  BY <1>1, QueueTaken DEF h
<1>6. QueueOK(queue', owner, sessions, net')
  <2>1. QueueOK(Tail(queue), owner, sessions, net) /\ owner \in [DOMAIN owner -> Clients]
    BY <1>3, <1>5
  <2>2. \A d \in Clients : Over(net[d]) => Over(net'[d])
    BY <1>4 DEF Over
  <2>3. \A d \in Clients : net[d].phase = "finished" => net'[d].phase = "finished"
    BY <1>4
  <2>4. QueueOK(Tail(queue), owner, sessions, net')
    BY <2>1, <2>2, <2>3, QueueKeeps
  <2> QED BY <1>1, <2>4
<1>7. \A g \in DOMAIN sessions : sessions'[g] = "REFUSED" =>
        \/ net'[owner[g]].owed
        \/ sessions[g] = "REFUSED" /\ (Woken(queue, g, owner) => Woken(queue', g, owner))
  BY <1>1, <1>4, <1>5
<1>8. \A d \in Clients : /\ handled'[d] + net'[d].unread = handled[d] + net[d].unread
                         /\ net[d].phase = "reset" => net'[d].unread = 0
  <2>1. \A d \in Clients : net[d].phase = "reset" => net[d].unread = 0
    BY DEF ServerInv, ClientOK
  <2> QED BY <1>1, <1>4, <2>1
<1>9. handled' \in [Clients -> Nat] /\ crashed' \in BOOLEAN
  BY <1>1, <1>3
<1> QED BY <1>1, <1>4, <1>6, <1>7, <1>8, <1>9, WritersInv

\* The first of those who wait gets a handle, and a session of its own.
LEMMA AcceptEffect ==
  ASSUME ServerInv, OnMsgSocketAccept
  PROVE  LET c == Head(waiting)
             h == NewHandle
         IN
         /\ c \in Clients /\ Waits(c) /\ ~Accepted(c) /\ net[c].phase \in {"up", "finished"}
         /\ h \in Handles /\ h \notin DOMAIN owner
         /\ DOMAIN owner' = DOMAIN owner \cup {h} /\ owner'[h] = c
         /\ \A g \in DOMAIN owner : owner'[g] = owner[g]
         /\ DOMAIN sessions' = DOMAIN sessions \cup {h} /\ sessions'[h] = "READY"
         /\ \A g \in DOMAIN sessions : sessions'[g] = sessions[g]
         /\ waiting' \in Seq(Clients)
         /\ \A d : Waits(d)' <=> Waits(d) /\ d # c
         /\ \A k, l \in DOMAIN waiting' : waiting'[k] = waiting'[l] => k = l
         /\ \A k \in DOMAIN waiting' : Waits(waiting'[k]) /\ waiting'[k] # c
<1> DEFINE c == Head(waiting)
           h == NewHandle
           w == Tail(waiting)
<1>1. /\ waiting # << >> /\ waiting' = w /\ Handles \ DOMAIN owner # {}
      /\ owner' = With(owner, h, c) /\ sessions' = With(sessions, h, "READY")
  BY DEF OnMsgSocketAccept
<1>2. /\ waiting \in Seq(Clients) /\ DOMAIN sessions \subseteq DOMAIN owner /\ WaitingOK
  BY Types DEF ServerInv
<1>3. h \in Handles /\ h \notin DOMAIN owner
  BY <1>1 DEF NewHandle
<1>4. /\ w \in Seq(Clients) /\ Len(waiting) \in Nat \ {0} /\ Len(w) = Len(waiting) - 1
      /\ c = waiting[1] /\ c \in Clients
      /\ \A i \in 1..Len(w) : i + 1 \in 1..Len(waiting) /\ w[i] = waiting[i + 1]
  BY <1>1, <1>2, TailShape
<1>5. DOMAIN waiting = 1..Len(waiting) /\ 1 \in DOMAIN waiting /\ DOMAIN w = 1..Len(w)
  BY <1>2, <1>4, LenProperties
<1> HIDE DEF w, c, h
<1>6. Waits(c) /\ ~Accepted(c) /\ net[c].phase \in {"up", "finished"}
  BY <1>2, <1>4, <1>5 DEF Waits, WaitingOK
<1>7. /\ DOMAIN owner' = DOMAIN owner \cup {h} /\ owner'[h] = c
      /\ \A g \in DOMAIN owner : owner'[g] = owner[g]
      /\ DOMAIN sessions' = DOMAIN sessions \cup {h} /\ sessions'[h] = "READY"
      /\ \A g \in DOMAIN sessions : sessions'[g] = sessions[g]
  BY <1>1, <1>2, <1>3 DEF With
<1>8. \A i, j \in 1..Len(waiting) : waiting[i] = waiting[j] => i = j
  BY <1>2, <1>5 DEF WaitingOK
<1>9. \A k, l \in 1..Len(w) : w[k] = w[l] => k = l
  <2>1. ASSUME NEW k \in 1..Len(w), NEW l \in 1..Len(w), w[k] = w[l] PROVE k = l
    <3>1. k + 1 = l + 1
      BY <1>4, <1>8, <2>1
    <3> QED BY <3>1
  <2> QED BY <2>1
<1>10. ASSUME NEW k \in 1..Len(w) PROVE Waits(w[k]) /\ w[k] # c
  <2>1. k + 1 \in 1..Len(waiting) /\ w[k] = waiting[k + 1]
    BY <1>4
  <2>2. k + 1 # 1 /\ 1 \in 1..Len(waiting)
    BY <1>4
  <2>3. w[k] # c
    BY <1>4, <1>8, <2>1, <2>2
  <2> QED BY <1>5, <2>1, <2>3 DEF Waits
<1>11. ASSUME NEW d, Waits(d), d # c PROVE \E k \in 1..Len(w) : w[k] = d
  <2>1. PICK j \in 1..Len(waiting) : waiting[j] = d
    BY <1>5, <1>11 DEF Waits
  <2>2. j # 1
    BY <1>4, <1>11, <2>1
  <2>3. j - 1 \in 1..Len(w) /\ (j - 1) + 1 = j
    BY <1>4, <2>2
  <2> QED BY <1>4, <2>1, <2>3
<1>12. \A d : Waits(d)' <=> \E k \in 1..Len(w) : w[k] = d
  BY <1>1, <1>5 DEF Waits
<1>13. \A d : Waits(d)' <=> Waits(d) /\ d # c
  BY <1>10, <1>11, <1>12
<1> QED BY <1>1, <1>3, <1>4, <1>5, <1>6, <1>7, <1>9, <1>10, <1>13 DEF c, h

\* No message is about a handle that is not open.
LEMMA NoMessageYet ==
  ASSUME NEW q, NEW ow, NEW ss, NEW nt, QueueOK(q, ow, ss, nt), NEW h, h \notin DOMAIN ow
  PROVE  ~ClosesIn(q, h, Len(q))
<1>1. ASSUME NEW i \in 1..Len(q), q[i].event = "FD_CLOSE", q[i].sock = h
      PROVE  FALSE
  <2>1. q[i] # AcceptMessage
    BY <1>1, MessagesDiffer
  <2> QED BY <1>1, <2>1 DEF QueueOK, Sound
<1> QED BY <1>1 DEF ClosesIn

LEMMA AcceptQueue ==
  ASSUME ServerInv, OnMsgSocketAccept
  PROVE  /\ QueueOK(queue', owner', sessions', net)
         /\ \A g \in DOMAIN sessions : Woken(queue, g, owner) => Woken(queue', g, owner')
<1> DEFINE c == Head(waiting)
           h == NewHandle
           m == Message(h, "FD_WRITE", c)
           q1 == Tail(queue)
           q2 == q1 \o (IF Tail(waiting) = << >> THEN << >> ELSE <<AcceptMessage>>)
           q3 == q2 \o <<m>>
<1>1. /\ OnMsgSocket("FD_ACCEPT")
      /\ queue' = q3 \o Readable(h, c, net[c])
  BY DEF OnMsgSocketAccept
<1>2. /\ c \in Clients /\ h \in Handles /\ h \notin DOMAIN owner
      /\ DOMAIN owner' = DOMAIN owner \cup {h} /\ owner'[h] = c
      /\ \A g \in DOMAIN owner : owner'[g] = owner[g]
      /\ DOMAIN sessions' = DOMAIN sessions \cup {h}
  BY AcceptEffect
<1>3. /\ owner \in [DOMAIN owner -> Clients] /\ DOMAIN sessions \subseteq DOMAIN owner
      /\ net \in [Clients -> NetState]
  BY Types DEF ServerInv
<1>4. /\ QueueOK(q1, owner, sessions, net)
      /\ \A g \in DOMAIN sessions : Woken(queue, g, owner) => Woken(q1, g, owner)
  BY <1>1, QueueTaken
<1>5. m \in SocketMessage /\ m.sock = h /\ m.event = "FD_WRITE" /\ m.about = c
  BY <1>2, MessageShape
<1> HIDE DEF c, h, m, q1
<1>6. /\ QueueOK(q2, owner, sessions, net)
      /\ \A g \in DOMAIN sessions : Woken(q1, g, owner) => Woken(q2, g, owner)
  <2>1. CASE Tail(waiting) = << >>
    <3>1. q2 = q1
      <4>1. q1 \in Seq(SocketMessage)
        BY <1>4 DEF QueueOK
      <4> QED BY <2>1, <4>1, ConcatEmptySeq
    <3> QED BY <1>4, <3>1
  <2>2. CASE Tail(waiting) # << >>
    <3>1. q2 = q1 \o <<AcceptMessage>>
      BY <2>2
    <3> QED BY <1>3, <1>4, <3>1, PostAccept
  <2> QED BY <2>1, <2>2
<1> HIDE DEF q2
<1>7. QueueOK(q2, owner', sessions', net)
  BY <1>2, <1>3, <1>6, QueueKeeps
<1>8. QueueOK(q3, owner', sessions', net)
  <2>1. Sound(m, owner', net)
    BY <1>2, <1>5 DEF Sound
  <2>2. ~ClosesIn(q2, h, Len(q2))
    BY <1>2, <1>6, NoMessageYet
  <2> QED BY <1>2, <1>5, <1>7, <2>1, <2>2, QueuePost
<1>9. \A g : Woken(q2, g, owner') => Woken(q3, g, owner')
  <2>1. q2 \in Seq(SocketMessage)
    BY <1>6 DEF QueueOK
  <2> QED BY <1>5, <2>1, WokenPost
<1> HIDE DEF q3
<1>10. /\ QueueOK(queue', owner', sessions', net)
       /\ \A g \in DOMAIN owner' : Woken(q3, g, owner') => Woken(queue', g, owner')
  <2>1. net[c] \in NetState
    BY <1>2, <1>3
  <2> QED BY <1>1, <1>2, <1>8, <2>1, PostReadable
<1>11. \A g \in DOMAIN sessions : Woken(queue, g, owner) => Woken(queue', g, owner')
  <2>1. \A g \in DOMAIN sessions : Woken(q2, g, owner) => Woken(q2, g, owner')
    BY <1>2, <1>3 DEF Woken
  <2> QED BY <1>2, <1>3, <1>4, <1>6, <1>9, <1>10, <2>1
<1> QED BY <1>10, <1>11

LEMMA AcceptInv ==
  ASSUME ServerInv, OnMsgSocketAccept PROVE ServerInv'
<1> DEFINE c == Head(waiting)
           h == NewHandle
<1>1. UNCHANGED <<net, asked, handled, crashed>>
  BY DEF OnMsgSocketAccept
<1>2. /\ c \in Clients /\ Waits(c) /\ ~Accepted(c) /\ net[c].phase \in {"up", "finished"}
      /\ h \in Handles /\ h \notin DOMAIN owner
      /\ DOMAIN owner' = DOMAIN owner \cup {h} /\ owner'[h] = c
      /\ \A g \in DOMAIN owner : owner'[g] = owner[g]
      /\ DOMAIN sessions' = DOMAIN sessions \cup {h} /\ sessions'[h] = "READY"
      /\ \A g \in DOMAIN sessions : sessions'[g] = sessions[g]
      /\ waiting' \in Seq(Clients)
      /\ \A d : Waits(d)' <=> Waits(d) /\ d # c
      /\ \A k, l \in DOMAIN waiting' : waiting'[k] = waiting'[l] => k = l
      /\ \A k \in DOMAIN waiting' : Waits(waiting'[k]) /\ waiting'[k] # c
  BY AcceptEffect
<1> HIDE DEF c, h
<1>3. /\ QueueOK(queue', owner', sessions', net')
      /\ \A g \in DOMAIN sessions : Woken(queue, g, owner) => Woken(queue', g, owner')
  BY <1>1, AcceptQueue
<1>4. /\ TypeOK /\ OwnersDiffer /\ WaitingOK /\ (\A d \in Clients : ClientOK(d))
      /\ SessionsOK /\ VainInv
  BY DEF ServerInv
<1>5. /\ waiting \in Seq(Clients) /\ DOMAIN owner \subseteq Handles
      /\ owner \in [DOMAIN owner -> Clients] /\ DOMAIN sessions \subseteq DOMAIN owner
      /\ sessions \in [DOMAIN sessions -> WriterStates]
      /\ net \in [Clients -> NetState]
      /\ asked \in [Clients -> Nat] /\ handled \in [Clients -> Nat] /\ crashed \in BOOLEAN
  BY <1>4, Types
<1>6. TypeOK'
  <2>1. queue' \in Seq(SocketMessage)
    BY <1>3 DEF QueueOK
  <2>2. owner' = [g \in DOMAIN owner' |-> owner'[g]]
        /\ sessions' = [g \in DOMAIN sessions' |-> sessions'[g]]
    BY DEF OnMsgSocketAccept, With
  <2>3. owner' \in [DOMAIN owner' -> Clients]
    BY <1>2, <1>5, <2>2
  <2>4. sessions' \in [DOMAIN sessions' -> WriterStates]
    BY <1>2, <1>5, <2>2 DEF WriterStates
  <2> QED BY <1>1, <1>2, <1>5, <2>1, <2>3, <2>4, TypesAgain
<1>7. \A g \in DOMAIN owner : owner[g] # c
  BY <1>2 DEF Accepted
<1>8. OwnersDiffer'
  BY <1>2, <1>4, <1>7 DEF OwnersDiffer
<1>9. SessionsOK' /\ VainInv'
  <2>1. SessionsOK'
    BY <1>1, <1>2, <1>4 DEF SessionsOK
  <2>2. VainInv'
    BY <1>1, <1>2, <1>3, <1>4, <1>5 DEF VainInv
  <2> QED BY <2>1, <2>2
<1>10. \A d : (\E g \in DOMAIN owner' : owner'[g] = d) <=> Accepted(d) \/ d = c
  BY <1>2 DEF Accepted
<1>11. WaitingOK'
  <2>1. \A d : Waits(d) => ~Accepted(d) /\ net[d].phase \in {"up", "finished"}
    BY <1>4 DEF Waits, WaitingOK
  <2>2. \A k \in DOMAIN waiting' :
          /\ ~\E g \in DOMAIN owner' : owner'[g] = waiting'[k]
          /\ net'[waiting'[k]].phase \in {"up", "finished"}
    BY <1>1, <1>2, <1>10, <2>1
  <2> QED BY <1>2, <2>2 DEF WaitingOK, Accepted
<1>12. ASSUME NEW d \in Clients PROVE ClientOK(d)'
  <2>1. ClientOK(d)
    BY <1>4
  <2>2. Accepted(d)' <=> Accepted(d) \/ d = c
    BY <1>10 DEF Accepted
  <2>3. Waits(d)' <=> Waits(d) /\ d # c
    BY <1>2
  <2> QED BY <1>1, <1>2, <2>1, <2>2, <2>3 DEF ClientOK
<1> QED BY <1>3, <1>6, <1>8, <1>9, <1>11, <1>12 DEF ServerInv

---------------------------------------------------------------------------
(* The invariant.                                                          *)

LEMMA InitInv ==
  ASSUME Init PROVE ServerInv
<1>1. /\ queue = << >> /\ waiting = << >> /\ owner = << >> /\ sessions = << >>
      /\ net = [c \in Clients |->
                  [phase |-> "away", unread |-> 0, room |-> TRUE, owed |-> FALSE]]
      /\ asked = [c \in Clients |-> 0] /\ handled = [c \in Clients |-> 0]
      /\ crashed = FALSE
  BY DEF Init
<1>2. DOMAIN owner = {} /\ DOMAIN sessions = {} /\ DOMAIN waiting = {} /\ Len(queue) = 0
  BY <1>1
<1>3. net \in [Clients -> NetState]
  BY <1>1 DEF NetState
<1>4. TypeOK
  <2>1. queue \in Seq(SocketMessage) /\ waiting \in Seq(Clients)
    BY <1>1
  <2>2. owner \in [DOMAIN owner -> Clients]
        /\ sessions \in [DOMAIN sessions -> WriterStates]
    BY <1>1, <1>2
  <2> QED BY <1>1, <1>2, <1>3, <2>1, <2>2 DEF TypeOK, SocketMessage, ClientMessage, NetState, WriterStates
<1>5. QueueOK(queue, owner, sessions, net)
  <2>1. queue \in Seq(SocketMessage)
    BY <1>1
  <2> QED BY <1>2, <2>1 DEF QueueOK
<1>6. OwnersDiffer /\ WaitingOK /\ SessionsOK /\ VainInv
  BY <1>2 DEF OwnersDiffer, WaitingOK, SessionsOK, VainInv
<1>7. \A c \in Clients : ClientOK(c)
  BY <1>1, <1>2 DEF ClientOK, Accepted
<1> QED BY <1>4, <1>5, <1>6, <1>7 DEF ServerInv

LEMMA NextInv ==
  ASSUME ServerInv, [Next]_vars PROVE ServerInv'
<1>1. CASE UNCHANGED vars
  <2>1. UNCHANGED <<queue, waiting, owner, sessions, net, asked, handled, crashed>>
    BY <1>1 DEF vars
  <2>2. QueueOK(queue, owner, sessions, net) /\ crashed \in BOOLEAN
    BY Types DEF ServerInv
  <2> QED BY <2>1, <2>2, QueueOnly
<1>2. CASE MessageLoop
  BY <1>2, AcceptInv, AcceptFailsInv, ReadInv, ReadFailsInv, WriteInv, WriteCrashesInv,
     CloseInv DEF MessageLoop
<1>3. CASE \E c \in Clients :
             Connect(c) \/ Ask(c) \/ Finish(c) \/ Reset(c) \/ TakeData(c)
  BY <1>3, ConnectInv, AskInv, FinishInv, ResetInv, TakeDataInv
<1> QED BY <1>1, <1>2, <1>3 DEF Next

LEMMA SpecInv == Spec => []ServerInv
BY InitInv, NextInv, PTL DEF Spec

\* Type correctness of the message loop, its sessions and Winsock's side
\* (MainWindow.cpp:88-157, SessionManager.cpp).
THEOREM ServerTypeCorrect == Spec => []TypeOK
<1>1. ServerInv => TypeOK
  BY DEF ServerInv
<1> QED BY <1>1, SpecInv, PTL

\* A session gets only the events of its own connection, however late its
\* messages are taken from the queue, because no handle is used again
\* (MainWindow.cpp:125, 138, 150).
THEOREM ServerEventsReach == Spec => []EventsReachTheirConnection
<1>1. ASSUME ServerInv PROVE EventsReachTheirConnection
  <2>1. queue \in Seq(SocketMessage) /\ DOMAIN queue = 1..Len(queue)
    BY <1>1, Types, LenProperties DEF ServerInv
  <2>2. ASSUME NEW i \in 1..Len(queue), queue[i].sock \in DOMAIN sessions
        PROVE  owner[queue[i].sock] = queue[i].about
    <3>1. Sound(queue[i], owner, net)
      BY <1>1 DEF ServerInv, QueueOK
    <3>2. CASE queue[i] # AcceptMessage
      BY <3>1, <3>2 DEF Sound
    <3>3. CASE queue[i] = AcceptMessage
      <4>1. queue[i].sock = Listener
        BY <3>3 DEF AcceptMessage, Message
      <4>2. Listener \notin DOMAIN sessions
        BY <1>1, Types, ServerAssumption DEF ServerInv
      <4> QED BY <2>2, <4>1, <4>2
    <3> QED BY <3>2, <3>3
  <2> QED BY <2>1, <2>2 DEF EventsReachTheirConnection
<1> QED BY <1>1, SpecInv, PTL

\* No writer whose send was refused waits for an FD_WRITE that will not come:
\* Winsock still owes the message or has posted it, or the connection broke off
\* (Socket.cpp:131-138, MainWindow.cpp:135-145).  It says nothing of a writer
\* that got rid of a part, which nobody wakes.
THEOREM ServerNobodyWaits == Spec => []NobodyWaitsInVain
<1>1. ASSUME ServerInv PROVE NobodyWaitsInVain
  <2>1. DOMAIN queue = 1..Len(queue)
    BY <1>1, Types, LenProperties DEF ServerInv
  <2> QED BY <1>1, <2>1 DEF ServerInv, VainInv, Woken, NobodyWaitsInVain
<1> QED BY <1>1, SpecInv, PTL

---------------------------------------------------------------------------
(* A session is closed once.                                               *)

\* An FD_CLOSE in the queue finds its session, and no other follows it.
ClosedOnce(q, ss) ==
  /\ \A i \in 1..Len(q) : q[i].event = "FD_CLOSE" => q[i].sock \in DOMAIN ss
  /\ \A i, j \in 1..Len(q) :
       /\ q[i].event = "FD_CLOSE" /\ q[j].event = "FD_CLOSE"
       /\ q[i].sock = q[j].sock
       => i = j

\* The oldest message is taken; an FD_CLOSE takes its session along.
LEMMA ClosedTail ==
  ASSUME NEW S, NEW q \in Seq(S), q # << >>, NEW ss, NEW ss2, ClosedOnce(q, ss),
         \A h \in DOMAIN ss \ DOMAIN ss2 :
           Head(q).event = "FD_CLOSE" /\ Head(q).sock = h
  PROVE  /\ ClosedOnce(Tail(q), ss2)
         /\ \A h : ~ClosesIn(q, h, Len(q)) => ~ClosesIn(Tail(q), h, Len(Tail(q)))
<1> DEFINE t == Tail(q)
<1>1. /\ Len(q) \in Nat \ {0} /\ Len(t) = Len(q) - 1 /\ Head(q) = q[1]
      /\ \A i \in 1..Len(t) : i + 1 \in 1..Len(q) /\ t[i] = q[i + 1]
  BY TailShape
<1> HIDE DEF t
<1>2. ASSUME NEW i \in 1..Len(t), t[i].event = "FD_CLOSE"
      PROVE  t[i].sock \in DOMAIN ss2
  <2>1. i + 1 \in 1..Len(q) /\ t[i] = q[i + 1] /\ 1 \in 1..Len(q) /\ i + 1 # 1
    BY <1>1
  <2>2. q[i + 1].sock \in DOMAIN ss
    BY <1>2, <2>1 DEF ClosedOnce
  <2>3. ~(q[1].event = "FD_CLOSE" /\ q[1].sock = q[i + 1].sock)
    BY <1>2, <2>1 DEF ClosedOnce
  <2> QED BY <1>1, <2>1, <2>2, <2>3
<1>3. ASSUME NEW i \in 1..Len(t), NEW j \in 1..Len(t),
             t[i].event = "FD_CLOSE", t[j].event = "FD_CLOSE", t[i].sock = t[j].sock
      PROVE  i = j
  <2>1. i + 1 = j + 1
    BY <1>1, <1>3 DEF ClosedOnce
  <2> QED BY <2>1
<1>4. ASSUME NEW h, ClosesIn(t, h, Len(t)) PROVE ClosesIn(q, h, Len(q))
  BY <1>1, <1>4 DEF ClosesIn
<1>5. ClosedOnce(t, ss2)
  BY <1>2, <1>3 DEF ClosedOnce
<1> QED BY <1>4, <1>5 DEF t

\* A message is posted.
LEMMA ClosedPost ==
  ASSUME NEW S, NEW q \in Seq(S), NEW m \in S, NEW ss, ClosedOnce(q, ss),
         m.event = "FD_CLOSE" => m.sock \in DOMAIN ss /\ ~ClosesIn(q, m.sock, Len(q))
  PROVE  /\ ClosedOnce(q \o <<m>>, ss)
         /\ m.event # "FD_CLOSE" =>
              \A h : ~ClosesIn(q, h, Len(q)) => ~ClosesIn(q \o <<m>>, h, Len(q \o <<m>>))
<1> DEFINE t == q \o <<m>>
<1>1. /\ Len(q) \in Nat /\ Len(t) = Len(q) + 1
      /\ (\A i \in 1..Len(q) : t[i] = q[i]) /\ t[Len(q) + 1] = m
  BY ConcatOne
<1> HIDE DEF t
<1>2. \A i \in 1..Len(t) : i \in 1..Len(q) \/ i = Len(q) + 1
  BY <1>1
<1>3. \A i \in 1..Len(t) : t[i].event = "FD_CLOSE" => t[i].sock \in DOMAIN ss
  BY <1>1, <1>2 DEF ClosedOnce
<1>4. ASSUME NEW i \in 1..Len(t), NEW j \in 1..Len(t),
             t[i].event = "FD_CLOSE", t[j].event = "FD_CLOSE", t[i].sock = t[j].sock
      PROVE  i = j
  <2>1. CASE i \in 1..Len(q) /\ j \in 1..Len(q)
    BY <1>1, <1>4, <2>1 DEF ClosedOnce
  <2>2. ASSUME NEW k \in 1..Len(q), t[k].event = "FD_CLOSE", t[k].sock = m.sock,
               m.event = "FD_CLOSE"
        PROVE  FALSE
    BY <1>1, <2>2 DEF ClosesIn
  <2>3. CASE i = Len(q) + 1 /\ j \in 1..Len(q)
    BY <1>1, <1>4, <2>2, <2>3
  <2>4. CASE j = Len(q) + 1 /\ i \in 1..Len(q)
    BY <1>1, <1>4, <2>2, <2>4
  <2> QED BY <1>2, <2>1, <2>3, <2>4
<1>5. ASSUME NEW h, m.event # "FD_CLOSE", ClosesIn(t, h, Len(t))
      PROVE  ClosesIn(q, h, Len(q))
  BY <1>1, <1>2, <1>5 DEF ClosesIn
<1>6. ClosedOnce(t, ss)
  BY <1>3, <1>4 DEF ClosedOnce
<1> QED BY <1>5, <1>6 DEF t

LEMMA ClosedReadable ==
  ASSUME NEW q \in Seq(SocketMessage), NEW ss, ClosedOnce(q, ss),
         NEW h \in Handles, NEW c \in Clients, NEW n, h \in DOMAIN ss,
         ~ClosesIn(q, h, Len(q))
  PROVE  ClosedOnce(q \o Readable(h, c, n), ss)
<1>1. CASE Readable(h, c, n) = << >>
  BY <1>1, ConcatEmptySeq
<1>2. ASSUME NEW e \in {"FD_READ", "FD_WRITE", "FD_CLOSE"},
             Readable(h, c, n) = <<Message(h, e, c)>>
      PROVE  ClosedOnce(q \o Readable(h, c, n), ss)
  BY <1>2, MessageShape, ClosedPost
<1> QED BY <1>1, <1>2 DEF Readable

\* A peer acts; it ends its connection only while it is up.
LEMMA ClosedPeer ==
  ASSUME ServerInv, ClosedOnce(queue, sessions),
         NEW c \in Clients, NEW n, NEW es, PeerActs(c, n, es),
         \/ es = << >>
         \/ \E e \in {"FD_READ", "FD_WRITE", "FD_CLOSE"} :
              /\ es = <<Message(HandleOf(c), e, c)>>
              /\ e = "FD_CLOSE" => net[c].phase = "up"
  PROVE  ClosedOnce(queue', sessions')
<1> DEFINE h == HandleOf(c)
<1>1. queue \in Seq(SocketMessage) /\ DOMAIN owner \subseteq Handles
  BY Types DEF ServerInv
<1>2. Accepted(c) => h \in DOMAIN owner /\ owner[h] = c
  BY HandleOfOwner DEF ServerInv
<1>3. sessions' = sessions /\ queue' = IF Accepted(c) THEN queue \o es ELSE queue
  BY DEF PeerActs
<1> HIDE DEF h
<1>4. CASE ~Accepted(c) \/ es = << >>
  BY <1>1, <1>3, <1>4, ConcatEmptySeq
<1>5. ASSUME Accepted(c), NEW e \in {"FD_READ", "FD_WRITE", "FD_CLOSE"},
             es = <<Message(h, e, c)>>, e = "FD_CLOSE" => net[c].phase = "up"
      PROVE  ClosedOnce(queue', sessions')
  <2> DEFINE m == Message(h, e, c)
  <2>1. m \in SocketMessage /\ m.sock = h /\ m.event = e
    BY <1>1, <1>2, <1>5, MessageShape
  <2>2. e = "FD_CLOSE" => h \in DOMAIN sessions /\ ~ClosesIn(queue, h, Len(queue))
    BY <1>2, <1>5, UpIsOpen
  <2>3. queue' = queue \o <<m>>
    BY <1>3, <1>5
  <2> HIDE DEF m
  <2> QED BY <1>1, <1>3, <2>1, <2>2, <2>3, ClosedPost
<1> QED BY <1>4, <1>5 DEF h

LEMMA ClosedRead ==
  ASSUME ServerInv, ClosedOnce(queue, sessions), OnMsgSocketRead
  PROVE  ClosedOnce(queue', sessions')
<1> DEFINE h == Head(queue).sock
           c == owner[h]
           n == [net[c] EXCEPT !.unread = @ - 1]
<1>1. /\ OnMsgSocket("FD_READ") /\ h \in DOMAIN sessions /\ net[c].unread > 0
      /\ queue' = Tail(queue) \o Readable(h, c, n)
  BY DEF OnMsgSocketRead
<1>2. /\ queue \in Seq(SocketMessage) /\ queue # << >>
      /\ h \in DOMAIN owner /\ c \in Clients /\ h \in Handles
  BY <1>1, Types, HandlerFacts DEF ServerInv, OnMsgSocket
<1>3. DOMAIN sessions' = DOMAIN sessions
  BY DEF OnMsgSocketRead, WriteBuffers, Write
<1>4. ~ClosesIn(queue, h, Len(queue))
  <2>1. SUFFICES ASSUME NEW i \in 1..Len(queue), queue[i].event = "FD_CLOSE",
                        queue[i].sock = h
                 PROVE  FALSE
    BY DEF ClosesIn
  <2>2. Sound(queue[i], owner, net) /\ queue[i] # AcceptMessage
    BY <2>1, MessagesDiffer DEF ServerInv, QueueOK
  <2>3. Over(net[c])
    BY <2>1, <2>2 DEF Sound
  <2>4. net[c].phase = "reset" => net[c].unread = 0
    BY <1>2 DEF ServerInv, ClientOK
  <2>5. net[c].unread > 0
    BY <1>1
  <2> QED BY <2>3, <2>4, <2>5 DEF Over
<1> HIDE DEF h, c, n
<1>5. /\ ClosedOnce(Tail(queue), sessions') /\ Tail(queue) \in Seq(SocketMessage)
      /\ ~ClosesIn(Tail(queue), h, Len(Tail(queue)))
  BY <1>2, <1>3, <1>4, ClosedTail, TailShape
<1> QED BY <1>1, <1>2, <1>3, <1>5, ClosedReadable

LEMMA ClosedAccept ==
  ASSUME ServerInv, ClosedOnce(queue, sessions), OnMsgSocketAccept
  PROVE  ClosedOnce(queue', sessions')
<1> DEFINE c == Head(waiting)
           h == NewHandle
           m == Message(h, "FD_WRITE", c)
           q1 == Tail(queue)
           q2 == q1 \o (IF Tail(waiting) = << >> THEN << >> ELSE <<AcceptMessage>>)
           q3 == q2 \o <<m>>
<1>1. /\ OnMsgSocket("FD_ACCEPT")
      /\ queue' = q3 \o Readable(h, c, net[c])
  BY DEF OnMsgSocketAccept
<1>2. /\ c \in Clients /\ h \in Handles /\ h \notin DOMAIN owner
      /\ DOMAIN sessions' = DOMAIN sessions \cup {h}
  BY AcceptEffect
<1>3. /\ queue \in Seq(SocketMessage) /\ queue # << >>
      /\ QueueOK(queue, owner, sessions, net)
  BY <1>1, Types DEF ServerInv, OnMsgSocket
<1>4. ~ClosesIn(queue, h, Len(queue))
  BY <1>2, <1>3, NoMessageYet
<1>5. m \in SocketMessage /\ m.event = "FD_WRITE"
  BY <1>2, MessageShape
<1>6. AcceptMessage \in SocketMessage /\ AcceptMessage.event = "FD_ACCEPT"
  BY MessagesDiffer DEF SocketMessage
<1> HIDE DEF c, h, m
<1>7. /\ q1 \in Seq(SocketMessage) /\ ClosedOnce(q1, sessions')
      /\ ~ClosesIn(q1, h, Len(q1))
  BY <1>2, <1>3, <1>4, ClosedTail, TailShape
<1> HIDE DEF q1
<1>8. /\ q2 \in Seq(SocketMessage) /\ ClosedOnce(q2, sessions')
      /\ ~ClosesIn(q2, h, Len(q2))
  <2>1. CASE Tail(waiting) = << >>
    BY <1>7, <2>1, ConcatEmptySeq
  <2>2. CASE Tail(waiting) # << >>
    <3>1. q2 = q1 \o <<AcceptMessage>>
      BY <2>2
    <3> QED BY <1>6, <1>7, <3>1, ClosedPost, ConcatOne
  <2> QED BY <2>1, <2>2
<1> HIDE DEF q2
<1>9. /\ q3 \in Seq(SocketMessage) /\ ClosedOnce(q3, sessions')
      /\ ~ClosesIn(q3, h, Len(q3))
  BY <1>5, <1>8, ClosedPost, ConcatOne
<1> HIDE DEF q3
<1> QED BY <1>1, <1>2, <1>9, ClosedReadable

\* The other messages post nothing, or an FD_ACCEPT.
LEMMA ClosedQuiet ==
  ASSUME ServerInv, ClosedOnce(queue, sessions),
         AcceptFails \/ ReadFails \/ OnMsgSocketWrite \/ WriteCrashes \/ OnMsgSocketClose
  PROVE  ClosedOnce(queue', sessions')
<1>1. queue \in Seq(SocketMessage)
  BY Types DEF ServerInv
<1>2. CASE WriteCrashes
  BY <1>2 DEF WriteCrashes
<1>3. CASE AcceptFails
  <2>1. /\ queue # << >> /\ sessions' = sessions
        /\ queue' = Tail(queue) \/ queue' = Append(Tail(queue), AcceptMessage)
    BY <1>3 DEF AcceptFails, OnMsgSocket
  <2>2. Tail(queue) \in Seq(SocketMessage) /\ ClosedOnce(Tail(queue), sessions)
    BY <1>1, <2>1, ClosedTail, TailShape
  <2>3. AcceptMessage \in SocketMessage /\ AcceptMessage.event = "FD_ACCEPT"
    BY MessagesDiffer DEF SocketMessage
  <2>4. Append(Tail(queue), AcceptMessage) = Tail(queue) \o <<AcceptMessage>>
    BY <2>2, <2>3, AppendIsConcat
  <2> QED BY <2>1, <2>2, <2>3, <2>4, ClosedPost
<1>4. CASE ReadFails \/ OnMsgSocketWrite
  <2>1. queue # << >> /\ queue' = Tail(queue) /\ DOMAIN sessions' = DOMAIN sessions
    BY <1>4 DEF ReadFails, OnMsgSocketWrite, OnMsgSocket, Write
  <2> QED BY <1>1, <2>1, ClosedTail
<1>5. CASE OnMsgSocketClose
  <2>1. /\ queue # << >> /\ queue' = Tail(queue) /\ Head(queue).event = "FD_CLOSE"
        /\ DOMAIN sessions' = DOMAIN sessions \ {Head(queue).sock}
    BY <1>5 DEF OnMsgSocketClose, OnMsgSocket, Without
  <2> QED BY <1>1, <2>1, ClosedTail
<1> QED BY <1>2, <1>3, <1>4, <1>5

LEMMA ClosedNext ==
  ASSUME ServerInv, ClosedOnce(queue, sessions), [Next]_vars
  PROVE  ClosedOnce(queue', sessions')
<1>1. CASE UNCHANGED vars
  BY <1>1 DEF vars
<1>2. CASE MessageLoop
  BY <1>2, ClosedRead, ClosedAccept, ClosedQuiet DEF MessageLoop
<1>3. ASSUME NEW c \in Clients,
             Connect(c) \/ Ask(c) \/ Finish(c) \/ Reset(c) \/ TakeData(c)
      PROVE  ClosedOnce(queue', sessions')
  <2>1. CASE Connect(c)
    <3>1. queue \in Seq(SocketMessage)
      BY Types DEF ServerInv
    <3>2. sessions' = sessions
          /\ (queue' = queue \/ queue' = Append(queue, AcceptMessage))
      BY <2>1 DEF Connect
    <3>3. AcceptMessage \in SocketMessage /\ AcceptMessage.event = "FD_ACCEPT"
      BY MessagesDiffer DEF SocketMessage
    <3>4. Append(queue, AcceptMessage) = queue \o <<AcceptMessage>>
      BY <3>1, <3>3, AppendIsConcat
    <3> QED BY <3>1, <3>2, <3>3, <3>4, ClosedPost
  <2>2. CASE Ask(c) \/ Finish(c)
    <3>1. PICK n, es :
            /\ PeerActs(c, n, es) /\ net[c].phase = "up"
            /\ es = << >> \/ es = Readable(HandleOf(c), c, n)
      BY <2>2 DEF Ask, Finish
    <3>2. \/ es = << >>
          \/ \E e \in {"FD_READ", "FD_WRITE", "FD_CLOSE"} :
               es = <<Message(HandleOf(c), e, c)>>
      BY <3>1 DEF Readable
    <3> QED BY <3>1, <3>2, ClosedPeer
  <2>3. CASE Reset(c)
    BY <2>3, ClosedPeer DEF Reset
  <2>4. CASE TakeData(c)
    BY <2>4, ClosedPeer DEF TakeData
  <2> QED BY <1>3, <2>1, <2>2, <2>3, <2>4
<1> QED BY <1>1, <1>2, <1>3 DEF Next

LEMMA SpecCloses == Spec => []ClosedOnce(queue, sessions)
<1>1. Init => ClosedOnce(queue, sessions)
  BY DEF Init, ClosedOnce
<1>2. ServerInv /\ ClosedOnce(queue, sessions) /\ [Next]_vars
        => ClosedOnce(queue, sessions)'
  BY ClosedNext
<1> QED BY <1>1, <1>2, SpecInv, PTL DEF Spec

---------------------------------------------------------------------------
(* The steps of Connections.                                               *)

Served(c) == \E h \in DOMAIN sessions : owner[h] = c

LEMMA StageIs ==
  ASSUME NEW c
  PROVE  /\ Stage(c) = IF net[c].phase = "away" THEN "away"
                       ELSE IF Waits(c) THEN "waiting"
                       ELSE IF Served(c) THEN "served" ELSE "released"
         /\ Stage(c)' = IF net'[c].phase = "away" THEN "away"
                        ELSE IF Waits(c)' THEN "waiting"
                        ELSE IF Served(c)' THEN "served" ELSE "released"
         /\ net'[c].phase = net[c].phase => Ending(c)' = Ending(c)
BY DEF Stage, Waits, Served, Ending

LEMMA StageFacts ==
  ASSUME ServerInv, NEW c \in Clients
  PROVE  /\ Served(c) => Stage(c) = "served" /\ Accepted(c)
         /\ net[c].phase = "up" => Stage(c) \in {"waiting", "served"} /\ Ending(c) = "no"
         /\ Waits(c) => Stage(c) = "waiting" /\ ~Accepted(c)
<1>1. waiting \in Seq(Clients) /\ DOMAIN sessions \subseteq DOMAIN owner
  BY Types DEF ServerInv
<1>2. ClientOK(c) /\ WaitingOK /\ SessionsOK
  BY DEF ServerInv
<1>3. Waits(c) => ~Accepted(c) /\ net[c].phase \in {"up", "finished"}
  BY <1>2 DEF Waits, WaitingOK
<1>4. Served(c) => Accepted(c)
  BY <1>1 DEF Served, Accepted
<1>5. net[c].phase = "up" /\ Accepted(c) => Served(c)
  BY <1>2 DEF Accepted, Served, SessionsOK
<1>6. net[c].phase = "up" => Ending(c) = "no"
  BY DEF Ending
<1> QED BY <1>2, <1>3, <1>4, <1>5, <1>6, StageIs DEF ClientOK

\* What Connections does not see.
LEMMA Stutters ==
  ASSUME \A c \in Clients : /\ net'[c].phase = net[c].phase
                            /\ Waits(c)' <=> Waits(c)
                            /\ Served(c)' <=> Served(c),
         UNCHANGED <<asked, handled, crashed>>
  PROVE  UNCHANGED Service!vars
<1>1. \A c \in Clients : Stage(c)' = Stage(c) /\ Ending(c)' = Ending(c)
  BY StageIs
<1> QED BY <1>1 DEF Service!vars

LEMMA StageMoves ==
  ASSUME NEW c \in Clients, NEW from, NEW to, Stage(c) = from, Stage(c)' = to,
         \A d \in Clients : d # c => Stage(d)' = Stage(d),
         \A d \in Clients : Ending(d)' = Ending(d),
         UNCHANGED <<asked, handled>>
  PROVE  Service!Moves(c, from, to)
BY DEF Service!Moves

LEMMA ConnectStep ==
  ASSUME ServerInv, NEW c \in Clients, Connect(c) PROVE Service!Connect(c)
<1>1. UNCHANGED <<owner, sessions, asked, handled, crashed>> /\ net[c].phase = "away"
  BY DEF Connect
<1>2. \A d : Served(d)' <=> Served(d)
  BY <1>1 DEF Served
<1>3. /\ net'[c].phase = "up" /\ \A d \in Clients : d # c => net'[d] = net[d]
      /\ Waits(c)' /\ \A d : d # c => (Waits(d)' <=> Waits(d))
  BY ConnectEffect
<1>4. Stage(c) = "away" /\ Stage(c)' = "waiting"
  BY <1>1, <1>3, StageIs
<1>5. \A d \in Clients : d # c => Stage(d)' = Stage(d)
  BY <1>2, <1>3, StageIs
<1>6. \A d \in Clients : Ending(d)' = Ending(d)
  BY <1>1, <1>3 DEF Ending
<1>7. Service!Moves(c, "away", "waiting")
  BY <1>1, <1>4, <1>5, <1>6, StageMoves
<1> QED BY <1>1, <1>7 DEF Service!Connect

LEMMA AcceptStep ==
  ASSUME ServerInv, OnMsgSocketAccept PROVE \E c \in Clients : Service!Serve(c)
<1>1. PICK c \in Clients, h \in Handles : c = Head(waiting) /\ h = NewHandle
  BY AcceptEffect
<1>2. UNCHANGED <<net, asked, handled, crashed>>
  BY DEF OnMsgSocketAccept
<1>3. /\ Waits(c) /\ h \notin DOMAIN owner /\ owner'[h] = c
      /\ \A g \in DOMAIN owner : owner'[g] = owner[g]
      /\ DOMAIN sessions' = DOMAIN sessions \cup {h}
      /\ \A d : Waits(d)' <=> Waits(d) /\ d # c
  BY <1>1, AcceptEffect
<1>4. DOMAIN sessions \subseteq DOMAIN owner
  BY Types DEF ServerInv
<1>5. \A d : Served(d)' <=> Served(d) \/ d = c
  BY <1>3, <1>4 DEF Served
<1>6. Stage(c) = "waiting" /\ net[c].phase # "away"
  <2>1. Stage(c) = "waiting"
    BY <1>3, StageFacts
  <2> QED BY <2>1, StageIs
<1>7. Stage(c)' = "served"
  BY <1>2, <1>3, <1>5, <1>6, StageIs
<1>8. \A d \in Clients : d # c => Stage(d)' = Stage(d)
  BY <1>2, <1>3, <1>5, StageIs
<1>9. \A d \in Clients : Ending(d)' = Ending(d)
  BY <1>2 DEF Ending
<1>10. Service!Moves(c, "waiting", "served")
  BY <1>2, <1>6, <1>7, <1>8, <1>9, StageMoves
<1> QED BY <1>2, <1>10 DEF Service!Serve

LEMMA AskStep ==
  ASSUME ServerInv, NEW c \in Clients, Ask(c) PROVE Service!Ask(c)
<1>1. /\ UNCHANGED <<waiting, owner, sessions, handled, crashed>> /\ net[c].phase = "up"
      /\ net' = [net EXCEPT ![c] = [net[c] EXCEPT !.unread = @ + 1]]
      /\ asked' = [asked EXCEPT ![c] = @ + 1]
  BY DEF Ask, PeerActs
<1>2. net \in [Clients -> NetState]
  BY Types DEF ServerInv
<1>3. \A d \in Clients : net'[d].phase = net[d].phase
  BY <1>1, <1>2 DEF NetState
<1>4. \A d : (Waits(d)' <=> Waits(d)) /\ (Served(d)' <=> Served(d))
  BY <1>1 DEF Waits, Served
<1>5. \A d \in Clients : Stage(d)' = Stage(d) /\ Ending(d)' = Ending(d)
  BY <1>3, <1>4, StageIs
<1>6. Stage(c) \in {"waiting", "served"} /\ Ending(c) = "no"
  BY <1>1, StageFacts
<1> QED BY <1>1, <1>5, <1>6 DEF Service!Ask

LEMMA FinishStep ==
  ASSUME ServerInv, NEW c \in Clients, Finish(c) PROVE Service!Finish(c)
<1>1. /\ UNCHANGED <<waiting, owner, sessions, asked, handled, crashed>>
      /\ net[c].phase = "up"
      /\ net' = [net EXCEPT ![c] = [net[c] EXCEPT !.phase = "finished"]]
  BY DEF Finish, PeerActs
<1>2. net \in [Clients -> NetState]
  BY Types DEF ServerInv
<1>3. net'[c].phase = "finished" /\ \A d \in Clients : d # c => net'[d] = net[d]
  BY <1>1, <1>2 DEF NetState
<1>4. \A d : (Waits(d)' <=> Waits(d)) /\ (Served(d)' <=> Served(d))
  BY <1>1 DEF Waits, Served
<1>5. \A d \in Clients : Stage(d)' = Stage(d)
  BY <1>1, <1>3, <1>4, StageIs
<1>6. Ending(c)' = "finished" /\ \A d \in Clients : d # c => Ending(d)' = Ending(d)
  BY <1>3 DEF Ending
<1>7. Stage(c) \in {"waiting", "served"} /\ Ending(c) = "no"
  BY <1>1, StageFacts
<1> QED BY <1>1, <1>5, <1>6, <1>7 DEF Service!Finish

LEMMA ResetStep ==
  ASSUME ServerInv, NEW c \in Clients, Reset(c) PROVE Service!BreakOff(c)
<1>1. UNCHANGED <<owner, sessions, asked, handled, crashed>> /\ net[c].phase = "up"
  BY ResetEffect DEF Reset
<1>2. /\ net'[c].phase = "reset" /\ \A d \in Clients : d # c => net'[d] = net[d]
      /\ ~Waits(c)' /\ \A d \in Clients : d # c => (Waits(d)' <=> Waits(d))
  BY ResetEffect, ResetWaiting
<1>3. \A d : Served(d)' <=> Served(d)
  BY <1>1 DEF Served
<1>4. Ending(c)' = "reset" /\ \A d \in Clients : d # c => Ending(d)' = Ending(d)
  BY <1>2 DEF Ending
<1>5. Stage(c) \in {"waiting", "served"} /\ Ending(c) = "no"
      /\ (Served(c) => Stage(c) = "served")
  BY <1>1, StageFacts
<1>6. Stage(c)' = IF Stage(c) = "waiting" THEN "released" ELSE Stage(c)
  BY <1>1, <1>2, <1>3, <1>5, StageIs
<1>7. \A d \in Clients : d # c => Stage(d)' = Stage(d)
  BY <1>2, <1>3, StageIs
<1> QED BY <1>1, <1>4, <1>5, <1>6, <1>7 DEF Service!BreakOff

LEMMA TakeDataStep ==
  ASSUME ServerInv, NEW c \in Clients, TakeData(c) PROVE UNCHANGED Service!vars
<1>1. /\ UNCHANGED <<waiting, owner, sessions, asked, handled, crashed>>
      /\ net' = [net EXCEPT ![c] = [net[c] EXCEPT !.room = TRUE, !.owed = FALSE]]
  BY DEF TakeData, PeerActs
<1>2. net \in [Clients -> NetState]
  BY Types DEF ServerInv
<1>3. \A d \in Clients : net'[d].phase = net[d].phase
  BY <1>1, <1>2 DEF NetState
<1>4. \A d : (Waits(d)' <=> Waits(d)) /\ (Served(d)' <=> Served(d))
  BY <1>1 DEF Waits, Served
<1> QED BY <1>1, <1>3, <1>4, Stutters

LEMMA ReadStep ==
  ASSUME ServerInv, OnMsgSocketRead PROVE \E c \in Clients : Service!Handle(c)
<1>1. PICK h \in Handles, c \in Clients :
        /\ h = Head(queue).sock /\ c = owner[h] /\ h \in DOMAIN owner
        /\ h \in DOMAIN sessions /\ net[c].unread > 0
        /\ handled' = [handled EXCEPT ![c] = @ + 1]
  <2>1. OnMsgSocket("FD_READ")
    BY DEF OnMsgSocketRead
  <2>2. /\ Head(queue).sock \in DOMAIN owner /\ owner[Head(queue).sock] \in Clients
        /\ DOMAIN owner \subseteq Handles
    BY <2>1, Types, HandlerFacts DEF ServerInv
  <2> QED BY <2>2 DEF OnMsgSocketRead
<1>2. UNCHANGED <<waiting, owner, asked>>
  BY DEF OnMsgSocketRead
<1>3. /\ TypeOK /\ OwnersDiffer /\ net \in [Clients -> NetState]
      /\ asked \in [Clients -> Nat] /\ handled \in [Clients -> Nat]
      /\ DOMAIN sessions \subseteq DOMAIN owner
  BY Types DEF ServerInv
<1> DEFINE n == [net[c] EXCEPT !.unread = @ - 1]
           peers == [net EXCEPT ![c] = n]
<1>4. net[c] \in NetState /\ net[c].unread \in Nat
  BY <1>3, NetFields
<1>5. n \in NetState /\ n.phase = net[c].phase
  <2>1. \A y \in NetState, k \in Nat : LET z == [y EXCEPT !.unread = k]
          IN z \in NetState /\ z.phase = y.phase
    BY DEF NetState
  <2>2. net[c].unread - 1 \in Nat
    BY <1>1, <1>4
  <2>3. n = [net[c] EXCEPT !.unread = net[c].unread - 1]
    OBVIOUS
  <2> HIDE DEF n
  <2> QED BY <1>4, <2>1, <2>2, <2>3
<1>6. \E to \in {{}, {h}, DOMAIN sessions} : WriteBuffers(to, peers)
  BY <1>1 DEF OnMsgSocketRead
<1> HIDE DEF n
<1>7. peers \in [Clients -> NetState] /\ \A d \in Clients : peers[d].phase = net[d].phase
  BY <1>3, <1>5
<1> HIDE DEF peers
<1>8. DOMAIN sessions' = DOMAIN sessions /\ \A d \in Clients : net'[d].phase = net[d].phase
  BY <1>1, <1>3, <1>6, <1>7, WriteBuffersEffect
<1>9. \A d : (Waits(d)' <=> Waits(d)) /\ (Served(d)' <=> Served(d))
  BY <1>2, <1>8 DEF Waits, Served
<1>10. \A d \in Clients : Stage(d)' = Stage(d) /\ Ending(d)' = Ending(d)
  BY <1>8, <1>9, StageIs
<1>11. Stage(c) = "served"
  BY <1>1, StageFacts DEF Served
<1>12. handled[c] < asked[c]
  <2>1. ClientOK(c) /\ handled[c] \in Nat
    BY <1>3 DEF ServerInv
  <2> QED BY <1>1, <1>4, <2>1 DEF ClientOK
<1>13. (~crashed)' \in BOOLEAN
  OBVIOUS
<1> QED
  BY <1>1, <1>2, <1>10, <1>11, <1>12, <1>13 DEF Service!Handle, Service!MayGoDown

\* The other messages that change neither who waits nor who is served.
LEMMA QuietStep ==
  ASSUME ServerInv, AcceptFails \/ ReadFails \/ OnMsgSocketWrite
  PROVE  UNCHANGED Service!vars
<1>1. UNCHANGED <<waiting, owner, asked, handled, crashed>>
  BY DEF AcceptFails, ReadFails, OnMsgSocketWrite
<1>2. DOMAIN sessions' = DOMAIN sessions /\ \A c \in Clients : net'[c].phase = net[c].phase
  <2>1. CASE AcceptFails \/ ReadFails
    BY <2>1 DEF AcceptFails, ReadFails
  <2>2. CASE OnMsgSocketWrite
    <3>1. /\ TypeOK /\ OwnersDiffer /\ net \in [Clients -> NetState]
          /\ Head(queue).sock \in DOMAIN sessions
      BY <2>2, Types DEF ServerInv, OnMsgSocketWrite
    <3>2. PICK tried \in SUBSET DOMAIN sessions : Write(tried, net)
      BY <2>2, <3>1 DEF OnMsgSocketWrite
    <3> QED BY <3>1, <3>2, WriteEffect
  <2> QED BY <2>1, <2>2
<1>3. \A d : (Waits(d)' <=> Waits(d)) /\ (Served(d)' <=> Served(d))
  BY <1>1, <1>2 DEF Waits, Served
<1> QED BY <1>1, <1>2, <1>3, Stutters

LEMMA CloseStep ==
  ASSUME ServerInv, ClosedOnce(queue, sessions), OnMsgSocketClose
  PROVE  \E c \in Clients : Service!Release(c)
<1>1. PICK h \in DOMAIN owner, c \in Clients :
        /\ h = Head(queue).sock /\ c = owner[h] /\ Over(net[c])
        /\ queue # << >> /\ Head(queue).event = "FD_CLOSE"
  BY HandlerFacts DEF OnMsgSocketClose, OnMsgSocket
<1>2. /\ UNCHANGED <<waiting, owner, net, asked, handled>> /\ crashed' \in BOOLEAN
      /\ DOMAIN sessions' = DOMAIN sessions \ {h}
  BY <1>1 DEF OnMsgSocketClose, Without
<1>3. OwnersDiffer /\ DOMAIN sessions \subseteq DOMAIN owner /\ ClientOK(c)
      /\ asked \in [Clients -> Nat] /\ handled \in [Clients -> Nat]
      /\ queue \in Seq(SocketMessage)
  BY Types DEF ServerInv
<1>4. h \in DOMAIN sessions
  <2>1. Len(queue) \in Nat \ {0} /\ Head(queue) = queue[1]
    BY <1>1, <1>3, TailShape
  <2> QED BY <1>1, <2>1 DEF ClosedOnce
<1>5. /\ \A d : Waits(d)' <=> Waits(d)
      /\ \A d : d # c => (Served(d)' <=> Served(d))
      /\ ~Served(c)' /\ Served(c)
  BY <1>1, <1>2, <1>3, <1>4 DEF Waits, Served, OwnersDiffer
<1>6. \A d \in Clients : d # c => Stage(d)' = Stage(d)
  BY <1>2, <1>5, StageIs
<1>7. \A d \in Clients : Ending(d)' = Ending(d)
  BY <1>2 DEF Ending
<1>8. Stage(c) = "served" /\ Stage(c)' = "released"
  <2>1. Stage(c) = "served"
    BY <1>5, StageFacts
  <2> QED BY <1>2, <1>5, <2>1, StageIs
<1>9. \/ Ending(c) = "reset"
      \/ Ending(c) = "finished" /\ handled[c] = asked[c]
  BY <1>1, <1>3 DEF Over, Ending, ClientOK
<1>10. Service!Moves(c, "served", "released")
  BY <1>2, <1>6, <1>7, <1>8, StageMoves
<1>11. (~crashed)' \in BOOLEAN
  OBVIOUS
<1> QED BY <1>9, <1>10, <1>11 DEF Service!Release, Service!MayGoDown

LEMMA CrashStep ==
  ASSUME ServerInv, WriteCrashes PROVE Service!GoDown
<1>1. PICK h \in DOMAIN owner, c \in Clients :
        /\ h = Head(queue).sock /\ c = owner[h] /\ h \notin DOMAIN sessions
        /\ net[c].phase = "finished"
  BY HandlerFacts DEF WriteCrashes
<1>2. UNCHANGED <<queue, waiting, owner, sessions, net, asked, handled>> /\ crashed' = TRUE
  BY DEF WriteCrashes
<1>3. OwnersDiffer /\ DOMAIN sessions \subseteq DOMAIN owner
  BY Types DEF ServerInv
<1>4. \A d : (Waits(d)' <=> Waits(d)) /\ (Served(d)' <=> Served(d))
  BY <1>2 DEF Waits, Served
<1>5. \A d \in Clients : Stage(d)' = Stage(d) /\ Ending(d)' = Ending(d)
  BY <1>2, <1>4, StageIs
<1>6. ~Served(c) /\ Accepted(c)
  BY <1>1, <1>3 DEF Served, Accepted, OwnersDiffer
<1>7. ~Waits(c)
  BY <1>6, StageFacts
<1>8. Stage(c) = "released" /\ Ending(c) = "finished"
  <2>1. Ending(c) = "finished"
    BY <1>1 DEF Ending
  <2> QED BY <1>1, <1>6, <1>7, <2>1, StageIs
<1> QED BY <1>2, <1>5, <1>8 DEF Service!GoDown

LEMMA ServiceInit ==
  ASSUME Init PROVE Service!Init
<1>1. /\ \A c \in Clients : net[c].phase = "away"
      /\ asked = [c \in Clients |-> 0] /\ handled = [c \in Clients |-> 0]
      /\ crashed = FALSE
  BY DEF Init
<1>2. \A c \in Clients : Stage(c) = "away" /\ Ending(c) = "no"
  BY <1>1, StageIs DEF Ending
<1> QED BY <1>1, <1>2 DEF Service!Init

LEMMA ServiceStep ==
  ASSUME ServerInv, ClosedOnce(queue, sessions), [Next]_vars
  PROVE  [Service!Next]_(Service!vars)
<1>1. CASE UNCHANGED vars
  <2>1. UNCHANGED <<waiting, owner, sessions, net, asked, handled, crashed>>
    BY <1>1 DEF vars
  <2>2. \A d : (Waits(d)' <=> Waits(d)) /\ (Served(d)' <=> Served(d))
    BY <2>1 DEF Waits, Served
  <2> QED BY <2>1, <2>2, Stutters
<1>2. CASE MessageLoop
  <2>1. ~crashed
    BY <1>2 DEF MessageLoop, OnMsgSocketAccept, AcceptFails, OnMsgSocketRead, ReadFails,
       OnMsgSocketWrite, WriteCrashes, OnMsgSocketClose, OnMsgSocket
  <2>2. CASE OnMsgSocketAccept
    BY <2>1, <2>2, AcceptStep DEF Service!Next
  <2>3. CASE OnMsgSocketRead
    BY <2>1, <2>3, ReadStep DEF Service!Next
  <2>4. CASE AcceptFails \/ ReadFails \/ OnMsgSocketWrite
    BY <2>4, QuietStep
  <2>5. CASE OnMsgSocketClose
    BY <2>1, <2>5, CloseStep DEF Service!Next
  <2>6. CASE WriteCrashes
    BY <2>1, <2>6, CrashStep DEF Service!Next
  <2> QED BY <1>2, <2>2, <2>3, <2>4, <2>5, <2>6 DEF MessageLoop
<1>3. ASSUME NEW c \in Clients,
             Connect(c) \/ Ask(c) \/ Finish(c) \/ Reset(c) \/ TakeData(c)
      PROVE  [Service!Next]_(Service!vars)
  <2>1. ~crashed
    BY <1>3 DEF Connect, Ask, Finish, Reset, TakeData, PeerActs
  <2>2. CASE TakeData(c)
    BY <2>2, TakeDataStep
  <2>3. CASE Connect(c) \/ Ask(c) \/ Finish(c) \/ Reset(c)
    <3>1. Service!Connect(c) \/ Service!Ask(c) \/ Service!Finish(c) \/ Service!BreakOff(c)
      BY <2>3, ConnectStep, AskStep, FinishStep, ResetStep
    <3> QED BY <2>1, <3>1 DEF Service!Next
  <2> QED BY <1>3, <2>2, <2>3
<1> QED BY <1>1, <1>2, <1>3 DEF Next

\* The message loop keeps what Connections promises, for any number of peers
\* and handles: each is served in turn, each request is handled once, nobody is
\* let go before its last request was handled unless it broke off, and the
\* process ends only while it handles a request, while it lets somebody go, or
\* on an FD_WRITE of somebody it let go who had finished
\* (MainWindow.cpp:109-157).
THEOREM ServerServes == Spec => ServesConnections
BY SpecInv, SpecCloses, ServiceInit, ServiceStep, PTL
   DEF Spec, ServesConnections, Service!Spec
============================================================================
