------------------------------- MODULE Server -------------------------------
(***************************************************************************)
(* The message loop and the connections: the WM_SOCKET messages that       *)
(* Winsock posts to the window (WSAAsyncSelect), MainWindow's handlers of  *)
(* them, SessionManager's map from handles to sessions, and of each        *)
(* session its Socket.  One thread takes the messages in the order they    *)
(* were posted.                                                            *)
(*                                                                         *)
(* SocketReader and SocketWriter have the two halves of a Socket in detail *)
(* and Lobby what the handlers of Session do.  Here a request arrives as a *)
(* whole (SocketReader implements MessageChannel), its handler writes to   *)
(* some sessions, and a send takes all it is given, a part or nothing.     *)
(*                                                                         *)
(* The handlers of FD_READ and FD_CLOSE use the PlayerManager, and what    *)
(* they find in it, without asking whether it is there (MainWindow.cpp:    *)
(* 151; Session.cpp:94, 130, 181, 275).  Application.cpp:12-20 creates no  *)
(* PlayerManager: the program as committed ends in the first FD_CLOSE.     *)
(* Lobby tells when; here any of these handlers may end the process, so    *)
(* what is said below holds of the program as it is and of one that has    *)
(* its managers.                                                           *)
(*                                                                         *)
(* External: the clients, and Winsock.  It posts FD_READ when data arrives *)
(* and again after a recv() that leaves some, FD_CLOSE when the peer has   *)
(* finished and everything was read, or at once when the peer broke off,   *)
(* FD_WRITE after accept() and when room comes back after a refused send,  *)
(* and FD_ACCEPT while connections wait.  A handle that was not closed is  *)
(* not given to another connection.                                        *)
(***************************************************************************)
EXTENDS Naturals, Sequences, Functions

CONSTANTS
  Clients,      \* each of them connects once
  Handles,      \* the handles accept() may return
  Backlog,      \* connections that may wait for accept(): 5 in listen()
  MaxRequests   \* bound: requests sent by all clients

Listener == "m_hLstnSock"

ASSUME ServerAssumption ==
  /\ Listener \notin Handles
  /\ Backlog \in Nat /\ MaxRequests \in Nat

VARIABLES
  queue,     \* the WM_SOCKET messages in the queue of the window
  waiting,   \* the connections that wait for accept()
  owner,     \* per open handle, its connection
  sessions,  \* m_sessions: per handle, the state of the session's writer:
             \* "READY", or WRITING because the last send() was "REFUSED" or
             \* took a "PART", which the code cannot tell from each other
  net,       \* external: per client, its end and what is under way
  asked,     \* per client: requests sent (history)
  handled,   \* per client: requests given to readDone (history)
  crashed    \* the server dereferenced null

vars == <<queue, waiting, owner, sessions, net, asked, handled, crashed>>

---------------------------------------------------------------------------
(* Winsock.                                                                *)

Accepted(c) == \E h \in DOMAIN owner : owner[h] = c
HandleOf(c) == CHOOSE h \in DOMAIN owner : owner[h] = c

\* wParam and lParam of a WM_SOCKET; `about` is the connection Winsock means.
Message(h, event, c) == [sock |-> h, event |-> event, about |-> c]
AcceptMessage == Message(Listener, "FD_ACCEPT", Listener)

\* What is posted for handle h of client c, which is in state n, when there
\* may be something to read.
Readable(h, c, n) ==
  IF n.unread > 0 THEN <<Message(h, "FD_READ", c)>>
  ELSE IF n.phase = "finished" THEN <<Message(h, "FD_CLOSE", c)>>
  ELSE <<>>

\* The peer of c does something that makes its state n; event is posted if
\* the connection was accepted.
PeerActs(c, n, events) ==
  /\ ~crashed
  /\ net' = [net EXCEPT ![c] = n]
  /\ queue' = IF Accepted(c) THEN queue \o events ELSE queue
  /\ UNCHANGED <<owner, sessions, handled, crashed>>

Connect(c) ==
  /\ ~crashed
  /\ net[c].phase = "away"
  /\ Len(waiting) < Backlog
  /\ net' = [net EXCEPT ![c].phase = "up"]
  /\ waiting' = Append(waiting, c)
  /\ queue' = IF waiting = <<>> THEN Append(queue, AcceptMessage) ELSE queue
  /\ UNCHANGED <<owner, sessions, asked, handled, crashed>>

Ask(c) ==
  LET n == [net[c] EXCEPT !.unread = @ + 1] IN
  /\ net[c].phase = "up" /\ FoldFunction(+, 0, asked) < MaxRequests
  /\ asked' = [asked EXCEPT ![c] = @ + 1]
  /\ PeerActs(c, n, IF net[c].unread = 0 THEN Readable(HandleOf(c), c, n) ELSE <<>>)
  /\ UNCHANGED waiting

\* The peer sends no more; it may go on reading.
Finish(c) ==
  LET n == [net[c] EXCEPT !.phase = "finished"] IN
  /\ net[c].phase = "up"
  /\ PeerActs(c, n, IF n.unread = 0 THEN Readable(HandleOf(c), c, n) ELSE <<>>)
  /\ UNCHANGED <<waiting, asked>>

\* The connection breaks off, and what was under way is lost.
Reset(c) ==
  /\ net[c].phase = "up"
  /\ PeerActs(c, [phase |-> "reset", unread |-> 0, room |-> FALSE, owed |-> FALSE],
              <<Message(HandleOf(c), "FD_CLOSE", c)>>)
  /\ IF Accepted(c) THEN UNCHANGED waiting
     ELSE \E i \in DOMAIN waiting :
            /\ waiting[i] = c
            /\ waiting' = SubSeq(waiting, 1, i - 1)
                            \o SubSeq(waiting, i + 1, Len(waiting))
  /\ UNCHANGED asked

\* The peer takes what was sent to it, and room comes back.
TakeData(c) ==
  /\ net[c].phase \in {"up", "finished"} /\ ~net[c].room
  /\ PeerActs(c, [net[c] EXCEPT !.room = TRUE, !.owed = FALSE],
              IF net[c].owed THEN <<Message(HandleOf(c), "FD_WRITE", c)>> ELSE <<>>)
  /\ UNCHANGED <<waiting, asked>>

---------------------------------------------------------------------------
(* The sessions' writers.                                                  *)

\* Which of the sessions `to` hand a frame to Winsock now, and for which of
\* them it has room.
Sending(to) == {h \in to : sessions[h] = "READY"}
Taken(tried) == {h \in tried : net[owner[h]].room}

\* send() was called for the handles in tried, on `peers`; those in full had
\* room for no more than was taken.  net' of all clients.
AfterSends(tried, full, peers) ==
  [c \in Clients |->
     IF ~\E h \in tried : owner[h] = c THEN peers[c]
     ELSE IF HandleOf(c) \in Taken(tried)
     THEN [peers[c] EXCEPT !.room = HandleOf(c) \notin full]
     ELSE [peers[c] EXCEPT !.owed = TRUE]]

\* SocketWriter::write() of the sessions in tried.  What had no room for all
\* of it took a part: Winsock will not say when there is room again.
Write(tried, peers) ==
  \E full \in SUBSET Taken(tried) : \E part \in SUBSET full :
    /\ net' = AfterSends(tried, full, peers)
    /\ sessions' = [h \in DOMAIN sessions |->
                      IF h \notin tried THEN sessions[h]
                      ELSE IF h \in part THEN "PART"
                      ELSE IF h \in Taken(tried) THEN "READY"
                      ELSE "REFUSED"]

\* Socket::writeBuffer of each of the sessions `to`.
WriteBuffers(to, peers) == Write(Sending(to), peers)

---------------------------------------------------------------------------
(* The handlers of MainWindow.                                             *)

\* GetMessage returns the oldest message, a WM_SOCKET with this event.
OnMsgSocket(event) ==
  /\ ~crashed
  /\ queue # <<>> /\ Head(queue).event = event

\* What accept() returns.  Handles are only compared with each other, so it
\* makes no difference which of the free ones it is.
NewHandle == CHOOSE h \in Handles : h \notin DOMAIN owner

With(f, h, x) == [g \in DOMAIN f \cup {h} |-> IF g = h THEN x ELSE f[g]]
Without(f, h) == [g \in DOMAIN f \ {h} |-> f[g]]

\* accept() fails: the connection is gone again, or there are no handles.
AcceptFails ==
  /\ OnMsgSocket("FD_ACCEPT")
  /\ waiting = <<>> \/ DOMAIN owner = Handles
  /\ queue' = IF waiting = <<>> THEN Tail(queue) ELSE Append(Tail(queue), AcceptMessage)
  /\ UNCHANGED <<waiting, owner, sessions, net, asked, handled, crashed>>

\* As if newSession() were not called.
MutAcceptForgetsSession ==
  /\ OnMsgSocket("FD_ACCEPT")
  /\ waiting # <<>>
  /\ waiting' = Tail(waiting)
  /\ Handles \ DOMAIN owner # {}
  /\ LET c == Head(waiting)
         h == NewHandle
     IN
     /\ owner' = With(owner, h, c)
     /\ queue' = Tail(queue)
                   \o (IF Tail(waiting) = <<>> THEN <<>> ELSE <<AcceptMessage>>)
                   \o <<Message(h, "FD_WRITE", c)>> \o Readable(h, c, net[c])
  /\ UNCHANGED <<sessions, net, asked, handled, crashed>>

OnMsgSocketAccept ==
  /\ OnMsgSocket("FD_ACCEPT")
  /\ waiting # <<>>
  /\ waiting' = Tail(waiting)
  /\ Handles \ DOMAIN owner # {}
  /\ LET c == Head(waiting)
         h == NewHandle
     IN
     /\ owner' = With(owner, h, c)
     /\ sessions' = With(sessions, h, "READY")
     /\ queue' = Tail(queue)
                   \o (IF Tail(waiting) = <<>> THEN <<>> ELSE <<AcceptMessage>>)
                   \o <<Message(h, "FD_WRITE", c)>> \o Readable(h, c, net[c])
  /\ UNCHANGED <<net, asked, handled, crashed>>

\* As if a session read nothing as long as it has something to send.
MutReadWaitsForWriter ==
  LET h == Head(queue).sock
      c == owner[h]
      n == [net[c] EXCEPT !.unread = @ - 1]
  IN
  /\ OnMsgSocket("FD_READ")
  /\ h \in DOMAIN sessions /\ net[c].unread > 0
  /\ IF sessions[h] = "READY"
     THEN /\ handled' = [handled EXCEPT ![c] = @ + 1]
          /\ queue' = Tail(queue) \o Readable(h, c, n)
          /\ \E to \in {{}, {h}, DOMAIN sessions} :
               WriteBuffers(to, [net EXCEPT ![c] = n])
     ELSE queue' = Tail(queue) /\ UNCHANGED <<handled, sessions, net>>
  /\ UNCHANGED <<waiting, owner, asked, crashed>>

\* recv() takes a request, whose handler replies, or writes to the players of
\* a game, or does not write at all, or ends the process; what it wrote until
\* then makes no difference any more.
OnMsgSocketRead ==
  LET h == Head(queue).sock
      c == owner[h]
      n == [net[c] EXCEPT !.unread = @ - 1]
  IN
  /\ OnMsgSocket("FD_READ")
  /\ h \in DOMAIN sessions /\ net[c].unread > 0
  /\ handled' = [handled EXCEPT ![c] = @ + 1]
  /\ queue' = Tail(queue) \o Readable(h, c, n)
  /\ \E to \in {{}, {h}, DOMAIN sessions} :
       /\ WriteBuffers(to, [net EXCEPT ![c] = n])
       /\ crashed' \in {FALSE, (to = {})}
  /\ UNCHANGED <<waiting, owner, asked>>

\* There is no session, or recv() fails because the connection broke off.
ReadFails ==
  /\ OnMsgSocket("FD_READ")
  /\ LET h == Head(queue).sock
     IN  h \notin DOMAIN sessions \/ net[owner[h]].unread = 0
  /\ queue' = Tail(queue)
  /\ UNCHANGED <<waiting, owner, sessions, net, asked, handled, crashed>>

\* As if what waits were written only by the next writeBuffer().
MutWriteOnlyWhenReady ==
  /\ OnMsgSocket("FD_WRITE")
  /\ Head(queue).sock \in DOMAIN sessions
  /\ queue' = Tail(queue)
  /\ UNCHANGED <<waiting, owner, sessions, net, asked, handled, crashed>>

\* write() of the session, if it has something to send.
OnMsgSocketWrite ==
  /\ OnMsgSocket("FD_WRITE")
  /\ Head(queue).sock \in DOMAIN sessions
  /\ queue' = Tail(queue)
  /\ Write({Head(queue).sock} \ Sending({Head(queue).sock}), net)
  /\ UNCHANGED <<waiting, owner, asked, handled, crashed>>

\* The missing session is reported, and dereferenced.
WriteCrashes ==
  /\ OnMsgSocket("FD_WRITE")
  /\ Head(queue).sock \notin DOMAIN sessions
  /\ crashed' = TRUE
  /\ UNCHANGED <<queue, waiting, owner, sessions, net, asked, handled>>

\* As if the handle were closed with its session, and could be used again.
MutCloseFreesHandle ==
  /\ OnMsgSocket("FD_CLOSE")
  /\ queue' = Tail(queue)
  /\ sessions' = Without(sessions, Head(queue).sock)
  /\ owner' = Without(owner, Head(queue).sock)
  /\ UNCHANGED <<waiting, net, asked, handled, crashed>>

\* As if a connection that finished were kept as long as it reads.
MutCloseKeepsWriting ==
  /\ OnMsgSocket("FD_CLOSE")
  /\ queue' = Tail(queue)
  /\ sessions' = IF sessions[Head(queue).sock] = "READY"
                 THEN Without(sessions, Head(queue).sock) ELSE sessions
  /\ UNCHANGED <<waiting, owner, net, asked, handled, crashed>>

\* destorySession; the handle stays open.  Then the player is looked up in
\* m_playerManager, which ends the process if there is none.
OnMsgSocketClose ==
  /\ OnMsgSocket("FD_CLOSE")
  /\ queue' = Tail(queue)
  /\ sessions' = Without(sessions, Head(queue).sock)
  /\ crashed' \in BOOLEAN
  /\ UNCHANGED <<waiting, owner, net, asked, handled>>

---------------------------------------------------------------------------
Init ==
  /\ queue = <<>> /\ waiting = <<>>
  /\ owner = <<>> /\ sessions = <<>>
  /\ net = [c \in Clients |->
              [phase |-> "away", unread |-> 0, room |-> TRUE, owed |-> FALSE]]
  /\ asked = [c \in Clients |-> 0] /\ handled = [c \in Clients |-> 0]
  /\ crashed = FALSE

MessageLoop ==
  \/ OnMsgSocketAccept \/ AcceptFails
  \/ OnMsgSocketRead \/ ReadFails
  \/ OnMsgSocketWrite \/ WriteCrashes
  \/ OnMsgSocketClose

Next ==
  \/ MessageLoop
  \/ \E c \in Clients :
       Connect(c) \/ Ask(c) \/ Finish(c) \/ Reset(c) \/ TakeData(c)

Spec == Init /\ [][Next]_vars

\* The loop takes the messages of the window.  Nothing is asked of the peers.
FairSpec == Spec /\ WF_vars(MessageLoop)

---------------------------------------------------------------------------
(* Properties.                                                             *)

\* The type invariant of the queue, the sessions and Winsock's side.
TypeOK ==
  /\ queue \in Seq([sock : Handles, event : {"FD_READ", "FD_WRITE", "FD_CLOSE"},
                    about : Clients] \cup {AcceptMessage})
  /\ waiting \in Seq(Clients)
  /\ DOMAIN owner \subseteq Handles /\ owner \in [DOMAIN owner -> Clients]
  /\ DOMAIN sessions \subseteq DOMAIN owner
  /\ sessions \in [DOMAIN sessions -> {"READY", "REFUSED", "PART"}]
  /\ net \in [Clients -> [phase : {"away", "up", "finished", "reset"},
                          unread : Nat, room : BOOLEAN, owed : BOOLEAN]]
  /\ asked \in [Clients -> Nat] /\ handled \in [Clients -> Nat]
  /\ crashed \in BOOLEAN

\* A message in the queue is about the connection whose session its handler
\* will find by the handle: a session never gets the events of a connection
\* that was there before it (MainWindow.cpp:125, 138, 150).
EventsReachTheirConnection ==
  \A i \in DOMAIN queue :
    LET m == queue[i] IN
    m.sock \in DOMAIN sessions => owner[m.sock] = m.about

\* No writer that was refused waits in vain: an FD_WRITE for its session is on
\* its way or owed by Winsock, unless the connection broke off (Socket.cpp:
\* 131-138, MainWindow.cpp:135-145).  Of a writer that got rid of a part this
\* is not said: it is WRITING too (Socket.cpp:102-104), nobody will tell it
\* when to go on, and what is given to it later only waits with the rest.
NobodyWaitsInVain ==
  \A h \in DOMAIN sessions :
    sessions[h] = "REFUSED" =>
      \/ net[owner[h]].phase = "reset"
      \/ net[owner[h]].owed
      \/ \E i \in DOMAIN queue : queue[i] = Message(h, "FD_WRITE", owner[h])

\* The server keeps what Connections promises, for whoever connects: nobody
\* is released before its last request was handled unless it broke off, and
\* the process ends in the handler of a request, or when somebody is released
\* (MainWindow.cpp:151), or in OnMsgSocketWrite (MainWindow.cpp:138-144) after
\* somebody was released who had finished sending; never when somebody
\* connects or on a message of a connection that broke off.
Stage(c) ==
  IF net[c].phase = "away" THEN "away"
  ELSE IF \E i \in DOMAIN waiting : waiting[i] = c THEN "waiting"
  ELSE IF \E h \in DOMAIN sessions : owner[h] = c THEN "served"
  ELSE "released"

Ending(c) ==
  IF net[c].phase \in {"finished", "reset"} THEN net[c].phase ELSE "no"

Service == INSTANCE Connections WITH
  stage   <- [c \in Clients |-> Stage(c)],
  ending  <- [c \in Clients |-> Ending(c)],
  up      <- ~crashed

ServesConnections == Service!Spec

\* A session does not outlive its connection, even if it could not send all
\* it had (MainWindow.cpp:150), unless the process ends first.
SessionsEnd ==
  \A c \in Clients :
    Stage(c) = "served" /\ Ending(c) # "no" ~> Stage(c) = "released" \/ crashed

\* Every request is handled in the end, also one that was sent before the
\* connection was accepted and also of one that has output stuck, unless the
\* process ends first and as long as there are handles: the server opens one
\* for every connection and closes none (MainWindow.cpp:109-132, 147-157).
RequestsAreHandled ==
  \A c \in Clients :
    handled[c] < asked[c] ~>
      \/ handled[c] = asked[c]
      \/ Ending(c) = "reset" \/ crashed
      \/ Stage(c) = "waiting" /\ DOMAIN owner = Handles
============================================================================
