------------------------- MODULE ApplicationProofs -------------------------
(***************************************************************************)
(* Proofs about Application, for any number of connections and however     *)
(* often the window is minimised.                                          *)
(*                                                                         *)
(* OneListener and EndsInOrder are not inductive.  What has to be known    *)
(* beyond them: nothing is there before the window is created              *)
(* (NothingYet), m_hWnd tells the truth about the window and Winsock about *)
(* its sockets, once WM_QUIT was asked for window and sockets are gone     *)
(* (QuitCloses), and how far uninitialize() has come (Progress).           *)
(***************************************************************************)
EXTENDS Application, SequenceTheorems, TLAPS

AppType ==
  /\ exit \in {0, -1} /\ alive \subseteq Objects
  /\ window \in [exists : BOOLEAN, dirty : BOOLEAN, small : BOOLEAN]
  /\ paint \in [root : BOOLEAN, firstLayout : BOOLEAN]
  /\ quit \in BOOLEAN /\ winsock \in BOOLEAN
  /\ m_hWnd \in {"NULL", "window"}
  /\ listeners \in Seq({"open", "listening", "closed"})

Closed == \A i \in DOMAIN listeners : listeners[i] = "closed"

NothingYet ==
  /\ ~window.exists /\ listeners = <<>> /\ ~quit

WindowKnown ==
  /\ m_hWnd = "window" <=> window.exists
  /\ ~winsock => Closed

QuitCloses == quit => ~window.exists /\ Closed

\* Where WinMain is, and what is known there.
Progress ==
  /\ pc \in {"initialize", "create"} => NothingYet
  /\ pc \in {"initialize", "create", "run", "uninitialize", "database closed",
            "no database", "no gui"} => exit = 0 /\ "logger" \in alive
  /\ pc \in {"uninitialize", "database closed", "no database", "no gui"} => quit
  /\ pc \in {"database closed", "no database", "no gui"} => db = "closed"
  /\ pc \in {"no database", "no gui"} => "dbManager" \notin alive
  /\ pc = "no gui" => "duiManager" \notin alive
  /\ pc = "returned" => exit = 0 \/ ~quit

AppInv ==
  AppType /\ Progress /\ WindowKnown /\ QuitCloses /\ OneListener /\ EndsInOrder

---------------------------------------------------------------------------
LEMMA ListenersShape ==
  ASSUME AppType
  PROVE  /\ DOMAIN listeners = 1..Len(listeners) /\ Len(listeners) \in Nat
         /\ listeners = <<>> <=> Len(listeners) = 0
BY LenProperties, EmptySeq DEF AppType

LEMMA InitInv == Init => AppInv
<1> SUFFICES ASSUME Init PROVE AppInv
  OBVIOUS
<1>1. << >> \in Seq({"open", "listening", "closed"}) /\ Len(<< >>) = 0
      /\ DOMAIN << >> = {}
  BY EmptySeq
<1>2. AppType
  BY <1>1 DEF Init, NoWindow, AppType
<1>3. Closed
  BY <1>1 DEF Init, Closed
<1>4. Progress /\ WindowKnown /\ QuitCloses
  <2>1. /\ pc = "initialize" /\ exit = 0 /\ ~quit /\ alive = Objects
        /\ NothingYet /\ m_hWnd = "NULL"
    BY DEF Init, NoWindow, NothingYet
  <2>2. Progress
    BY <2>1 DEF Progress, Objects
  <2> QED BY <1>3, <2>1, <2>2 DEF WindowKnown, QuitCloses, NothingYet
<1>5. OneListener /\ EndsInOrder
  BY <1>1 DEF Init, OneListener, EndsInOrder
<1> QED BY <1>2, <1>4, <1>5 DEF AppInv

\* Steps of WinMain that leave window and sockets alone.
ProcessStep ==
  \/ Initialize \/ InitializeFails \/ CreateMainWindowFails \/ EndLoop
  \/ CloseDatabase \/ ResetDbManager \/ ResetDuiManager \/ ResetLogger
  \/ DestroyApplication

LEMMA ProcessInv ==
  ASSUME AppInv, UNCHANGED <<gui, network>>, ProcessStep
  PROVE  AppInv'
<1> USE DEF AppInv
<1>1. UNCHANGED <<m_hWnd, paint, window, quit, winsock, listeners>>
  BY DEF gui, network
<1>2. AppType' /\ WindowKnown' /\ QuitCloses' /\ OneListener'
  <2>1. exit' \in {0, -1} /\ alive' \subseteq Objects
    BY DEF ProcessStep, AppType, Objects, Initialize, InitializeFails,
           CreateMainWindowFails, EndLoop, CloseDatabase, ResetDbManager,
           ResetDuiManager, ResetLogger, DestroyApplication
  <2> QED BY <1>1, <2>1 DEF AppType, WindowKnown, QuitCloses, Closed, OneListener
<1>3. CASE Initialize \/ CreateMainWindowFails
  <2>1. /\ pc \in {"initialize", "create"} /\ pc' \in {"create", "run"}
        /\ UNCHANGED <<exit, alive>>
    BY <1>3 DEF Initialize, CreateMainWindowFails
  <2>2. Progress'
    BY <1>1, <2>1 DEF Progress, NothingYet
  <2> QED BY <1>2, <2>1, <2>2 DEF EndsInOrder
<1>4. CASE InitializeFails
  <2>1. pc = "initialize" /\ pc' = "returned" /\ exit' = -1
    BY <1>4 DEF InitializeFails
  <2>2. Progress'
    BY <1>1, <2>1 DEF Progress, NothingYet
  <2> QED BY <1>2, <2>1, <2>2 DEF EndsInOrder
<1>5. CASE EndLoop
  <2>1. /\ pc = "run" /\ quit /\ pc' = "uninitialize"
        /\ UNCHANGED <<exit, alive>>
    BY <1>5 DEF EndLoop, WindowKnown, AppType
  <2>2. Progress'
    <3>1. exit = 0 /\ "logger" \in alive
      BY <2>1 DEF Progress
    <3> QED BY <1>1, <2>1, <3>1 DEF Progress, NothingYet
  <2> QED BY <1>2, <2>1, <2>2 DEF EndsInOrder
<1>6. CASE CloseDatabase
  <2>1. pc = "uninitialize" /\ exit = 0 /\ quit /\ "logger" \in alive
    BY <1>6 DEF CloseDatabase, Progress
  <2>2. pc' = "database closed" /\ db' = "closed" /\ UNCHANGED <<exit, alive>>
    BY <1>6, <2>1 DEF CloseDatabase, LogsAndGoesOn
  <2>3. Progress'
    BY <1>1, <2>1, <2>2 DEF Progress, NothingYet
  <2> QED BY <1>2, <2>2, <2>3 DEF EndsInOrder
<1>7. CASE ResetDbManager
  <2>1. pc = "database closed" /\ exit = 0 /\ quit /\ "logger" \in alive
    BY <1>7 DEF ResetDbManager, Progress
  <2>2. /\ pc' = "no database" /\ db' = "closed" /\ UNCHANGED exit
        /\ alive' = alive \ {"dbManager"}
    BY <1>7, <2>1 DEF ResetDbManager, LogsAndGoesOn
  <2>3. Progress'
    BY <1>1, <2>1, <2>2 DEF Progress, NothingYet
  <2> QED BY <1>2, <2>2, <2>3 DEF EndsInOrder
<1>8. CASE ResetDuiManager
  <2>1. /\ pc = "no database" /\ exit = 0 /\ quit /\ "logger" \in alive
        /\ db = "closed" /\ "dbManager" \notin alive
    BY <1>8 DEF ResetDuiManager, Progress
  <2>2. /\ pc' = "no gui" /\ UNCHANGED <<exit, db>>
        /\ alive' = alive \ {"duiManager"}
    BY <1>8, <2>1 DEF ResetDuiManager, LogsAndGoesOn
  <2>3. Progress'
    BY <1>1, <2>1, <2>2 DEF Progress, NothingYet
  <2> QED BY <1>2, <2>2, <2>3 DEF EndsInOrder
<1>9. CASE ResetLogger
  <2>1. pc = "no gui" /\ exit = 0 /\ quit /\ "logger" \in alive
    BY <1>9 DEF ResetLogger, Progress
  <2>2. pc' = "returned" /\ exit' = 0 /\ db' = db /\ alive' = alive \ {"logger"}
    BY <1>9, <2>1 DEF ResetLogger, LogsAndGoesOn
  <2>3. db = "closed" /\ "dbManager" \notin alive /\ "duiManager" \notin alive
    BY <2>1 DEF Progress, NothingYet
  <2>4. alive' = {}
    BY <2>2, <2>3 DEF AppType, Objects
  <2>5. quit' /\ ~window'.exists
    <3>1. ~window.exists
      BY <2>1 DEF QuitCloses
    <3> QED BY <1>1, <2>1, <3>1
  <2>6. Progress'
    BY <2>2 DEF Progress, NothingYet
  <2>7. EndsInOrder'
    BY <2>2, <2>3, <2>4, <2>5 DEF EndsInOrder
  <2> QED BY <1>2, <2>6, <2>7
<1>10. CASE DestroyApplication
  <2>1. /\ pc = "returned" /\ alive' = {} /\ db' = "closed" /\ exit' = exit
        /\ pc' \in {"ended", "crashed"} /\ (pc' = "crashed" => "dbManager" \in alive)
    BY <1>10 DEF DestroyApplication
  <2>2. exit = 0 => alive = {} /\ quit /\ ~window.exists
    BY <2>1 DEF EndsInOrder
  <2>3. pc' = "crashed" => exit' = -1 /\ ~quit'
    BY <1>1, <2>1, <2>2 DEF Progress, AppType
  <2>4. exit' = 0 => quit' /\ ~window'.exists
    BY <1>1, <2>1, <2>2
  <2>5. Progress'
    BY <2>1 DEF Progress, NothingYet
  <2>6. EndsInOrder'
    BY <2>1, <2>3, <2>4 DEF EndsInOrder
  <2> QED BY <1>2, <2>5, <2>6
<1> QED BY <1>3, <1>4, <1>5, <1>6, <1>7, <1>8, <1>9, <1>10 DEF ProcessStep

LEMMA CreateMainWindowInv == AppInv /\ CreateMainWindow => AppInv'
<1> SUFFICES ASSUME AppInv, CreateMainWindow PROVE AppInv'
  OBVIOUS
<1>1. PICK root \in BOOLEAN : paint' = [root |-> root, firstLayout |-> TRUE]
  BY DEF CreateMainWindow
<1>2. /\ pc = "create" /\ pc' = "run" /\ m_hWnd' = "window"
      /\ window' = [exists |-> TRUE, dirty |-> TRUE, small |-> FALSE]
      /\ UNCHANGED <<exit, alive, db, quit, winsock, listeners>>
      /\ listeners = <<>> /\ ~quit /\ exit = 0
  BY DEF CreateMainWindow, network, AppInv, Progress, NothingYet
<1>3. Len(listeners) = 0 /\ DOMAIN listeners = {}
  BY <1>2, EmptySeq
<1> QED
  BY <1>1, <1>2, <1>3
  DEF AppInv, AppType, Progress, WindowKnown, QuitCloses, Closed, OneListener, EndsInOrder

---------------------------------------------------------------------------
\* Listening starts with the first layout, when there is no socket yet.
LEMMA PaintInv == AppInv /\ Paint => AppInv'
<1> SUFFICES ASSUME AppInv, Paint PROVE AppInv'
  OBVIOUS
<1> USE DEF process, network
<1>1. /\ pc = "run" /\ window.exists
      /\ window' = [window EXCEPT !.dirty = FALSE]
      /\ UNCHANGED <<pc, exit, alive, db, m_hWnd, quit>>
  BY DEF Paint
<1>2. window'.exists /\ window' \in [exists : BOOLEAN, dirty : BOOLEAN, small : BOOLEAN]
  BY <1>1 DEF AppInv, AppType
<1>3. ~quit
  BY <1>1 DEF AppInv, QuitCloses
<1>4. CASE paint.root /\ paint.firstLayout
  <2>1. /\ paint' = [paint EXCEPT !.firstLayout = FALSE] /\ StartListening
        /\ listeners = <<>> /\ listeners \in Seq({"open", "listening", "closed"})
        /\ Len(listeners) = 0
    BY <1>4, EmptySeq DEF Paint, AppInv, OneListener, AppType
  <2>2. \/ UNCHANGED <<winsock, listeners>>
        \/ winsock' = TRUE /\ listeners' = listeners
        \/ winsock' = TRUE /\ listeners' = Append(listeners, "open")
        \/ winsock' = TRUE /\ listeners' = Append(listeners, "listening")
    BY <2>1 DEF StartListening
  <2>3. /\ listeners' \in Seq({"open", "listening", "closed"})
        /\ Len(listeners') <= 1
        /\ winsock' \in BOOLEAN
        /\ listeners' # <<>> => winsock' = TRUE
    <3>1. /\ Append(listeners, "open") \in Seq({"open", "listening", "closed"})
          /\ Len(Append(listeners, "open")) = 1
      BY <2>1, AppendProperties
    <3>2. /\ Append(listeners, "listening") \in Seq({"open", "listening", "closed"})
          /\ Len(Append(listeners, "listening")) = 1
      BY <2>1, AppendProperties
    <3>3. CASE UNCHANGED <<winsock, listeners>>
      BY <2>1, <3>3 DEF AppInv, AppType
    <3>4. CASE winsock' = TRUE /\ listeners' = listeners
      BY <2>1, <3>4
    <3>5. CASE winsock' = TRUE /\ listeners' = Append(listeners, "open")
      BY <3>1, <3>5
    <3>6. CASE winsock' = TRUE /\ listeners' = Append(listeners, "listening")
      BY <3>2, <3>6
    <3> QED BY <2>2, <3>3, <3>4, <3>5, <3>6
  <2>4. paint' \in [root : BOOLEAN, firstLayout : BOOLEAN]
        /\ paint'.root /\ ~paint'.firstLayout
    BY <1>4, <2>1 DEF AppInv, AppType
  <2>5. ~winsock' => Closed'
    BY <2>3, EmptySeq DEF Closed
  <2> QED
    BY <1>1, <1>2, <1>3, <2>3, <2>4, <2>5
    DEF AppInv, AppType, Progress, WindowKnown, QuitCloses, OneListener, EndsInOrder
<1>5. CASE ~(paint.root /\ paint.firstLayout)
  <2>1. UNCHANGED <<paint, winsock, listeners>>
    BY <1>5 DEF Paint
  <2> QED
    BY <1>1, <1>2, <1>3, <2>1
    DEF AppInv, AppType, Progress, WindowKnown, QuitCloses, Closed, OneListener, EndsInOrder
<1> QED BY <1>4, <1>5

LEMMA HandleAcceptInv == AppInv /\ HandleAccept => AppInv'
<1> SUFFICES ASSUME AppInv, HandleAccept PROVE AppInv'
  OBVIOUS
<1>1. UNCHANGED <<pc, exit, alive, db, m_hWnd, paint, window, quit, winsock, listeners>>
  BY DEF HandleAccept, process
<1>2. Progress' /\ EndsInOrder'
  BY <1>1 DEF AppInv, Progress, NothingYet, EndsInOrder
<1> QED
  BY <1>1, <1>2 DEF AppInv, AppType, WindowKnown, QuitCloses, Closed, OneListener

\* WM_DESTROY closes every socket there is, as WSACleanup does.
LEMMA HandleCloseInv == AppInv /\ HandleClose => AppInv'
<1> SUFFICES ASSUME AppInv, HandleClose PROVE AppInv'
  OBVIOUS
<1>1. /\ pc = "run" /\ UNCHANGED <<pc, exit, alive, db, paint>>
      /\ listeners' = IF winsock THEN AllClosed ELSE listeners
      /\ winsock' = FALSE /\ window' = NoWindow /\ quit' = TRUE /\ m_hWnd' = "NULL"
  BY DEF HandleClose, Posted, process
<1>2. /\ listeners' \in Seq({"open", "listening", "closed"})
      /\ Len(listeners') = Len(listeners) /\ Closed'
      /\ listeners' # <<>> => listeners # <<>>
  <2>1. CASE winsock
    <3>1. DOMAIN listeners = 1..Len(listeners) /\ Len(listeners) \in Nat
      BY ListenersShape DEF AppInv
    <3>2. listeners' = [i \in 1..Len(listeners) |-> "closed"]
      BY <1>1, <2>1, <3>1 DEF AllClosed
    <3> QED BY <3>1, <3>2, ListenersShape, EmptySeq DEF Closed, AppInv
  <2>2. CASE ~winsock
    BY <1>1, <2>2 DEF AppInv, AppType, WindowKnown, Closed
  <2> QED BY <2>1, <2>2
<1> QED
  BY <1>1, <1>2
  DEF NoWindow, AppInv, AppType, Progress, WindowKnown, QuitCloses, Closed,
      OneListener, EndsInOrder

\* Nobody outside opens or closes anything by itself.
LEMMA OthersInv == AppInv /\ Others => AppInv'
<1> SUFFICES ASSUME AppInv, Others PROVE AppInv'
  OBVIOUS
<1>1. /\ UNCHANGED <<pc, exit, alive, db, m_hWnd, paint, quit, winsock, listeners>>
      /\ window' \in [exists : BOOLEAN, dirty : BOOLEAN, small : BOOLEAN]
      /\ window'.exists = window.exists
  BY DEF Others, Minimise, Restore, Connect, CloseWindow, process, network, AppInv, AppType
<1> QED
  BY <1>1
  DEF AppInv, AppType, Progress, NothingYet, WindowKnown, QuitCloses, Closed,
      OneListener, EndsInOrder

---------------------------------------------------------------------------
LEMMA NextInv == AppInv /\ [Next]_vars => AppInv'
<1> SUFFICES ASSUME AppInv, [Next]_vars PROVE AppInv'
  OBVIOUS
<1>1. CASE ProcessStep
  <2>1. UNCHANGED <<gui, network>>
    BY <1>1 DEF ProcessStep, Initialize, InitializeFails, CreateMainWindowFails,
                EndLoop, CloseDatabase, ResetDbManager, ResetDuiManager,
                ResetLogger, DestroyApplication
  <2> QED BY <1>1, <2>1, ProcessInv
<1>2. CASE CreateMainWindow BY <1>2, CreateMainWindowInv
<1>3. CASE Paint BY <1>3, PaintInv
<1>4. CASE HandleAccept BY <1>4, HandleAcceptInv
<1>5. CASE HandleClose BY <1>5, HandleCloseInv
<1>6. CASE Others BY <1>6, OthersInv
<1>7. CASE UNCHANGED vars
  <2>1. UNCHANGED <<pc, exit, alive, db, m_hWnd, paint, window, quit, winsock, listeners>>
    BY <1>7 DEF vars
  <2>2. Progress' /\ EndsInOrder'
    BY <2>1 DEF AppInv, Progress, NothingYet, EndsInOrder
  <2> QED
    BY <2>1, <2>2 DEF AppInv, AppType, WindowKnown, QuitCloses, Closed, OneListener
<1> QED BY <1>1, <1>2, <1>3, <1>4, <1>5, <1>6, <1>7 DEF Next, Program, ProcessStep

LEMMA SpecInv == Spec => []AppInv
BY InitInv, NextInv, PTL DEF Spec

\* One socket at most is made for listening, however often the window is
\* painted, minimised and restored, and it is closed when the window is gone
\* (MainWindow.cpp:29-31, 168; UIManager.cpp:636).
THEOREM AppOneListener == Spec => []OneListener
<1>1. AppInv => OneListener
  BY DEF AppInv
<1> QED BY <1>1, SpecInv, PTL

\* uninitialize() ends the objects in an order in which nobody logs without a
\* logger (Application.cpp:85-93): only a start that failed, after which
\* nothing is uninitialized, can end otherwise; and a process that ends with 0
\* has closed its window and its database.
THEOREM AppEndsInOrder == Spec => []EndsInOrder
<1>1. AppInv => EndsInOrder
  BY DEF AppInv
<1> QED BY <1>1, SpecInv, PTL
=============================================================================
