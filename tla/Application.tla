---------------------------- MODULE Application ----------------------------
(***************************************************************************)
(* The process from WinMain to its end: class Application, the life of     *)
(* MainWindow with its listening socket, and of duilib's window the parts  *)
(* that decide when the program listens and when it ends: CWindowWnd,      *)
(* whose m_hWnd is what GetMessage is asked for, and the first WM_PAINT,   *)
(* which sends the "windowinit" in which MainWindow starts to listen.      *)
(*                                                                         *)
(* What happens on the sockets after that is the matter of Server, what    *)
(* else the window does that of PaintManager.  Objects are created and     *)
(* destroyed on one thread, and any call to the system may fail where the  *)
(* code asks whether it did.                                               *)
(*                                                                         *)
(* External: the user, who minimises and closes the window, other          *)
(* programs, which connect, and Windows: it gives GetMessage(hWnd) the     *)
(* messages posted to that window first, then WM_QUIT, then WM_PAINT while *)
(* there is something to paint, and -1 if there is no window hWnd.         *)
(***************************************************************************)
EXTENDS Integers, Sequences, FiniteSets

CONSTANTS
  MaxMinimised,  \* bound: how often the window is minimised
  MaxConnects    \* bound: how many connections are accepted or wait

ASSUME ApplicationAssumption ==
  MaxMinimised \in Nat /\ MaxConnects \in Nat

VARIABLES
  pc,           \* where WinMain is
  exit,         \* what it returns: 0 or -1
  alive,        \* the objects of Application that exist
  db,           \* m_connection: is the database open?
  m_hWnd,       \* of CWindowWnd: "NULL" or "window"
  paint,        \* of CPaintManagerUI: m_pRoot # NULL, m_bFirstLayout
  window,       \* external: the window, dirty if there is something to paint
  posted,       \* external: messages posted to it
  quit,         \* external: PostQuitMessage() was called
  winsock,      \* external: Winsock is started
  listeners,    \* external: sockets created for listening, each with its state
  m_hLstnSock,  \* 0, or the number of a socket
  accepted,     \* connections accepted
  minimised     \* how often that happened

vars == <<pc, exit, alive, db, m_hWnd, paint, window, posted, quit, winsock,
          listeners, m_hLstnSock, accepted, minimised>>

process == <<pc, exit, alive, db>>
gui == <<m_hWnd, paint, window, posted, quit, minimised>>
network == <<winsock, listeners, m_hLstnSock, accepted>>

Objects == {"dbManager", "duiManager", "logger"}
NoWindow == [exists |-> FALSE, dirty |-> FALSE, small |-> FALSE]

---------------------------------------------------------------------------
(* WinMain up to the message loop.                                         *)

\* initialize(): the logger and the DuiManager cannot fail; sqlite3_open()
\* and CREATE TABLE can, and then WinMain returns.
Initialize ==
  /\ pc = "initialize"
  /\ db' = "open"
  /\ pc' = "create"
  /\ UNCHANGED <<exit, alive, gui, network>>

InitializeFails ==
  /\ pc = "initialize"
  /\ db' \in {"closed", "open"}
  /\ pc' = "returned" /\ exit' = -1
  /\ UNCHANGED <<alive, gui, network>>

\* As if the window were not shown.
MutCreateMainWindow ==
  /\ pc = "create"
  /\ m_hWnd' = "window"
  /\ \E root \in BOOLEAN : paint' = [root |-> root, firstLayout |-> TRUE]
  /\ window' = [exists |-> TRUE, dirty |-> FALSE, small |-> FALSE]
  /\ pc' = "run"
  /\ UNCHANGED <<exit, alive, db, posted, quit, minimised, network>>

\* Create(): WM_NCCREATE sets m_hWnd, and OnMsgCreate() attaches what the
\* builder makes of MainWindow.xml, NULL if it finds none.  ShowWindow().
CreateMainWindow ==
  /\ pc = "create"
  /\ m_hWnd' = "window"
  /\ \E root \in BOOLEAN : paint' = [root |-> root, firstLayout |-> TRUE]
  /\ window' = [exists |-> TRUE, dirty |-> TRUE, small |-> FALSE]
  /\ pc' = "run"
  /\ UNCHANGED <<exit, alive, db, posted, quit, minimised, network>>

\* The failure is logged, nothing else: ShowWindow() leaves at once.
CreateMainWindowFails ==
  /\ pc = "create"
  /\ pc' = "run"
  /\ UNCHANGED <<exit, alive, db, gui, network>>

---------------------------------------------------------------------------
(* The message loop of run(), one action per message.                      *)

Posted(event) ==
  /\ pc = "run" /\ m_hWnd = "window" /\ window.exists
  /\ posted # <<>> /\ Head(posted) = event

\* OnNotifyWindowInit(), one disjunct per way out.
StartListening ==
  \/ UNCHANGED network                                   \* WSAStartup
  \/ /\ winsock' = TRUE                                  \* socket
     /\ UNCHANGED <<listeners, m_hLstnSock, accepted>>
  \/ /\ winsock' = TRUE                 \* WSAAsyncSelect, bind or listen
     /\ listeners' = Append(listeners, "open")
     /\ UNCHANGED <<m_hLstnSock, accepted>>
  \/ /\ winsock' = TRUE
     /\ "listening" \notin {listeners[i] : i \in DOMAIN listeners}
     /\ listeners' = Append(listeners, "listening")
     /\ m_hLstnSock' = Len(listeners')
     /\ UNCHANGED accepted

\* As if m_bFirstLayout were not reset.
MutPaint ==
  /\ pc = "run" /\ m_hWnd = "window" /\ window.exists
  /\ posted = <<>> /\ ~quit
  /\ window.dirty /\ ~window.small
  /\ window' = [window EXCEPT !.dirty = FALSE]
  /\ IF paint.root THEN StartListening ELSE UNCHANGED network
  /\ UNCHANGED <<process, m_hWnd, paint, posted, quit, minimised>>

\* WM_PAINT.  The first one with a root to lay out sends "windowinit".
Paint ==
  /\ pc = "run" /\ m_hWnd = "window" /\ window.exists
  /\ posted = <<>> /\ ~quit
  /\ window.dirty /\ ~window.small
  /\ window' = [window EXCEPT !.dirty = FALSE]
  /\ IF paint.root /\ paint.firstLayout
     THEN paint' = [paint EXCEPT !.firstLayout = FALSE] /\ StartListening
     ELSE UNCHANGED <<paint, network>>
  /\ UNCHANGED <<process, m_hWnd, posted, quit, minimised>>

\* FD_ACCEPT: OnMsgSocketAccept() wants it to be of m_hLstnSock; accept()
\* may fail all the same, which is logged and nothing else.
HandleAccept ==
  /\ Posted("FD_ACCEPT")
  /\ posted' = Tail(posted)
  /\ accepted' \in IF m_hLstnSock # 0 /\ listeners[m_hLstnSock] = "listening"
                   THEN {accepted, accepted + 1} ELSE {accepted}
  /\ UNCHANGED <<process, m_hWnd, paint, window, quit, minimised>>
  /\ UNCHANGED <<winsock, listeners, m_hLstnSock>>

\* What closesocket() and WSACleanup() of WM_DESTROY leave: the one closes
\* m_hLstnSock, the other every socket there is.
AllClosed == [i \in DOMAIN listeners |-> "closed"]

\* As if WM_NCDESTROY did not clear m_hWnd.
MutHandleClose ==
  /\ Posted("WM_CLOSE")
  /\ listeners' = IF winsock THEN AllClosed ELSE listeners
  /\ winsock' = FALSE
  /\ window' = NoWindow /\ posted' = <<>>
  /\ quit' = TRUE
  /\ UNCHANGED <<process, m_hWnd, paint, minimised, m_hLstnSock, accepted>>

\* WM_CLOSE: DefWindowProc() destroys the window, which sends WM_DESTROY and
\* WM_NCDESTROY; what was posted to it is gone.
HandleClose ==
  /\ Posted("WM_CLOSE")
  /\ listeners' = IF winsock THEN AllClosed ELSE listeners
  /\ winsock' = FALSE
  /\ window' = NoWindow /\ posted' = <<>>
  /\ quit' = TRUE
  /\ m_hWnd' = "NULL"
  /\ UNCHANGED <<process, paint, minimised, m_hLstnSock, accepted>>

\* The loop ends.  GetMessage() is asked for m_hWnd anew each time: for NULL
\* any message will do, WM_QUIT too, and 0 is returned; for a window that is
\* gone -1 is, and then WinMain returns at once.
EndLoop ==
  /\ pc = "run"
  /\ IF m_hWnd = "NULL" \/ window.exists
     THEN posted = <<>> /\ quit /\ pc' = "uninitialize" /\ UNCHANGED exit
     ELSE pc' = "returned" /\ exit' = -1
  /\ UNCHANGED <<alive, db, gui, network>>

---------------------------------------------------------------------------
(* The end: uninitialize(), one action per object that it ends.            *)

\* Whoever logs calls through m_logger, and is gone if that is reset.
LogsAndGoesOn(next) == pc' = IF "logger" \in alive THEN next ELSE "crashed"

\* As if m_logger were reset first.
MutCloseDatabase ==
  /\ pc = "uninitialize"
  /\ LogsAndGoesOn("database closed")
  /\ db' = "closed"
  /\ alive' = alive \ {"logger"}
  /\ UNCHANGED <<exit, gui, network>>

\* m_dbManager->uninitialize().
CloseDatabase ==
  /\ pc = "uninitialize"
  /\ LogsAndGoesOn("database closed")
  /\ db' = "closed"
  /\ UNCHANGED <<exit, alive, gui, network>>

\* m_dbManager.reset(): ~Sqlite() logs, and closes what is not closed yet.
ResetDbManager ==
  /\ pc = "database closed"
  /\ LogsAndGoesOn("no database")
  /\ alive' = alive \ {"dbManager"} /\ db' = "closed"
  /\ UNCHANGED <<exit, gui, network>>

\* m_duiManager->uninitialize() does nothing but log; m_duiManager.reset().
ResetDuiManager ==
  /\ pc = "no database"
  /\ LogsAndGoesOn("no gui")
  /\ alive' = alive \ {"duiManager"}
  /\ UNCHANGED <<exit, db, gui, network>>

\* The last LOG_TRACE, and m_logger.reset().
ResetLogger ==
  /\ pc = "no gui"
  /\ LogsAndGoesOn("returned")
  /\ alive' = alive \ {"logger"}
  /\ UNCHANGED <<exit, db, gui, network>>

\* The destructor of Application, after WinMain: m_logger is its last member
\* and goes first.  ~Sqlite() logs, so a database object that is still there
\* then uses a logger that is gone, which may do any harm or none.
DestroyApplication ==
  /\ pc = "returned"
  /\ pc' \in IF "dbManager" \in alive THEN {"ended", "crashed"} ELSE {"ended"}
  /\ alive' = {} /\ db' = "closed"
  /\ UNCHANGED <<exit, gui, network>>

---------------------------------------------------------------------------
(* The user and other programs.                                            *)

Minimise ==
  /\ window.exists /\ ~window.small
  /\ minimised < MaxMinimised
  /\ minimised' = minimised + 1
  /\ window' = [window EXCEPT !.small = TRUE]
  /\ UNCHANGED <<process, m_hWnd, paint, posted, quit, network>>

Restore ==
  /\ window.small
  /\ window' = [window EXCEPT !.small = FALSE, !.dirty = TRUE]
  /\ UNCHANGED <<process, m_hWnd, paint, posted, quit, minimised, network>>

Waiting == Cardinality({i \in DOMAIN posted : posted[i] = "FD_ACCEPT"})

Connect ==
  /\ "listening" \in {listeners[i] : i \in DOMAIN listeners}
  /\ accepted + Waiting < MaxConnects
  /\ posted' = Append(posted, "FD_ACCEPT")
  /\ UNCHANGED <<process, m_hWnd, paint, window, quit, minimised, network>>

CloseWindow ==
  /\ window.exists
  /\ "WM_CLOSE" \notin {posted[i] : i \in DOMAIN posted}
  /\ posted' = Append(posted, "WM_CLOSE")
  /\ UNCHANGED <<process, m_hWnd, paint, window, quit, minimised, network>>

---------------------------------------------------------------------------
Init ==
  /\ pc = "initialize" /\ exit = 0
  /\ alive = Objects /\ db = "closed"
  /\ m_hWnd = "NULL" /\ window = NoWindow
  /\ paint = [root |-> FALSE, firstLayout |-> TRUE]
  /\ posted = <<>> /\ quit = FALSE
  /\ winsock = FALSE /\ listeners = <<>> /\ m_hLstnSock = 0
  /\ accepted = 0 /\ minimised = 0

Program ==
  \/ Initialize \/ InitializeFails
  \/ CreateMainWindow \/ CreateMainWindowFails
  \/ Paint \/ HandleAccept \/ HandleClose
  \/ EndLoop
  \/ CloseDatabase \/ ResetDbManager \/ ResetDuiManager \/ ResetLogger
  \/ DestroyApplication

Others == Minimise \/ Restore \/ Connect \/ CloseWindow

Next == Program \/ Others

Spec == Init /\ [][Next]_vars

\* The thread runs; nobody has to close the window or to connect.
FairSpec == Spec /\ WF_vars(Program)

---------------------------------------------------------------------------
(* Properties.                                                             *)

\* However often the window is painted, minimised and restored, one socket at
\* most is made for listening, and none without "windowinit" (MainWindow.cpp:
\* 168, sent from UIManager.cpp:636 and not again); and no socket outlives the
\* window, also none that a failure of bind() or listen() left behind and
\* m_hLstnSock does not know (MainWindow.cpp:29, 31).
OneListener ==
  /\ Len(listeners) <= 1
  /\ listeners # <<>> => paint.root /\ ~paint.firstLayout
  /\ window.exists \/ \A i \in DOMAIN listeners : listeners[i] = "closed"

\* The objects of Application go in an order in which nobody logs after the
\* logger is gone (Application.cpp:85-93), unless the start has failed: then
\* nothing is reset, and ~Sqlite() (DbManager.cpp:12) logs when m_logger, the
\* last member, is gone already.  And WinMain returns 0 only after the window
\* was closed, with the database closed.
EndsInOrder ==
  /\ pc = "crashed" => exit = -1 /\ ~quit
  /\ pc \in {"returned", "ended"} /\ exit = 0 =>
       quit /\ ~window.exists /\ alive = {} /\ db = "closed"

\* Closing the window ends the process, with result 0: GetMessage() must not
\* be asked for the window that is gone (Application.cpp:63; UIBase.cpp:426
\* clears m_hWnd before the loop asks again).
ClosingEnds ==
  "WM_CLOSE" \in {posted[i] : i \in DOMAIN posted} ~> pc = "ended" /\ exit = 0

\* A window with a root tries to listen, once it is shown in some size.
ShowingListens ==
  pc = "run" /\ paint.root ~> ~paint.firstLayout \/ window.small \/ ~window.exists
============================================================================
