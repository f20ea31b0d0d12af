---------------------------- MODULE PaintManager ----------------------------
(***************************************************************************)
(* duilib's CPaintManagerUI, which turns the messages of a window into     *)
(* events of its controls, with the pointers to controls it keeps between  *)
(* two messages, and the ways in which controls come and go: Add and       *)
(* Remove of CContainerUI, AttachDialog, the delayed cleanup, and          *)
(* ReapObjects, by which the destructor of a control clears pointers.      *)
(*                                                                         *)
(* A handler calls Event() of a control or Notify() of a listener, and     *)
(* what runs there may do anything: remove controls, move the focus, start *)
(* timers, send notifies, and even dispatch messages (a modal dialog, a    *)
(* menu, UIBase.cpp:262).  So a handler is a program of instructions; while*)
(* the next one is "tell", code of the application runs, and every         *)
(* handler it runs into goes on top of the stack.                          *)
(*                                                                         *)
(* Code that calls a control after it was deleted may do anything: the     *)
(* model stops there (Misused).  SetFocus() may go on with one and keep a  *)
(* pointer to it before it calls it.                                       *)
(*                                                                         *)
(* Left out: painting and layout with the post-paint list of layouts that  *)
(* have a separator, tooltips, native child windows, the messages Windows  *)
(* sends when its own focus changes, WM_SETCURSOR (an event to the control *)
(* under the mouse, with no pointer kept) and PreMessageHandler (shortcuts *)
(* and the tab key, which end in SetFocus() or Event()), listeners for     *)
(* OnDestroy, and Windows' ids for timers (a WM_TIMER reaches any timer    *)
(* that runs).  Containers have a manager; one that does not own its       *)
(* controls (m_bAutoDestroy, the layout a combo drops down) is left out,   *)
(* and so is a dialog that is attached while it is being attached, by a    *)
(* handler of its own SetFocus(NULL): AttachDialog() would then queue it   *)
(* for deletion and keep it as m_pRoot.                                    *)
(***************************************************************************)
EXTENDS Naturals, Sequences

CONSTANTS
  Controls,   \* the controls, in and out of the window
  Parent,     \* per control, the container it is put into, or Null: a dialog
  FirstRoot,  \* the dialog attached at first
  First,      \* the controls that are in the window then
  AtOnce,     \* the containers without m_bDelayedDestroy
  Busy,       \* those that start timers and send notifies
  MaxDepth,   \* bound: handlers on the stack
  MaxNotify,  \* bound: notifies queued
  MaxCalls    \* bound: calls of code of the application

Null == "NULL"
Dialogs == {c \in Controls : Parent[c] = Null}

ASSUME PaintManagerAssumption ==
  /\ Null \notin Controls
  /\ Parent \in [Controls -> Controls \cup {Null}]
  /\ FirstRoot \in First /\ First \cap Dialogs = {FirstRoot}
  /\ First \subseteq Controls
  /\ \A c \in First \ {FirstRoot} : Parent[c] \in First
  /\ Busy \subseteq Controls /\ AtOnce \subseteq Controls
  /\ MaxDepth \in Nat /\ MaxNotify \in Nat /\ MaxCalls \in Nat

VARIABLES
  state,    \* per control: "new", "in" its parent, "removed", "deleted" by the
            \* cleanup, or "destroyed", by a container that does not wait for it
  root,     \* m_pRoot
  focus,    \* m_pFocus
  hover,    \* m_pEventHover
  click,    \* m_pEventClick
  key,      \* m_pEventKey
  captured, \* m_bMouseCapture
  timers,   \* m_aTimers, in any order: whose they are, and whether killed
  notify,   \* m_aAsyncNotify: the senders
  cleanups, \* WM_APP + 1 is posted
  stack,    \* the handlers that run, the innermost first
  calls,    \* of code of the application, made so far
  nested,   \* a message was dispatched while an event was handled (history)
  bereft    \* what was clicked went since the mouse was released (history)

vars == <<state, root, focus, hover, click, key, captured, timers, notify,
          cleanups, stack, calls, nested, bereft>>

targets == <<focus, hover, click, key>>
tree == <<state, root, cleanups>>
queues == <<timers, notify>>

---------------------------------------------------------------------------
(* Controls.                                                               *)

Exists(c) == state[c] \in {"in", "removed"}

Dead(c) == c # Null /\ state[c] \in {"deleted", "destroyed"}

\* The container c belongs into, the one that belongs into, and so on.
Above[c \in Controls] ==
  IF Parent[c] = Null THEN {} ELSE {Parent[c]} \cup Above[Parent[c]]

Path(c) == {c} \cup Above[c]

\* What FindControl(pt) may find: the controls in the tree below m_pRoot.
Tree == {c \in Controls : root \in Path(c) /\ \A d \in Path(c) : state[d] = "in"}

\* The destructor of a container deletes what is in it.
Doomed(cs) ==
  cs \cup {c \in Controls :
             \E d \in Path(c) \cap cs : \A e \in Path(c) \ Path(d) : state[e] = "in"}

Forgotten(target, cs) == IF target \in cs THEN Null ELSE target

\* As if timers were not killed.
MutReapObjectsKeepsTimers(cs) ==
  /\ focus' = Forgotten(focus, cs) /\ hover' = Forgotten(hover, cs)
  /\ click' = Forgotten(click, cs) /\ key' = Forgotten(key, cs)
  /\ notify' = [i \in DOMAIN notify |-> Forgotten(notify[i], cs)]
  /\ UNCHANGED timers
  /\ bereft' = (bereft \/ click \in cs)

\* ReapObjects() for each of the controls cs, which are being deleted.
ReapObjects(cs) ==
  /\ focus' = Forgotten(focus, cs) /\ hover' = Forgotten(hover, cs)
  /\ click' = Forgotten(click, cs) /\ key' = Forgotten(key, cs)
  /\ notify' = [i \in DOMAIN notify |-> Forgotten(notify[i], cs)]
  /\ timers' = {t \in timers : t.sender \notin cs}
  /\ bereft' = (bereft \/ click \in cs)

---------------------------------------------------------------------------
(* Handlers, as programs.                                                  *)

Do(op, who) == [op |-> op, who |-> who]

\* Event() of `who`, or notifiers hearing of it, is running.
Tell(who) == Do("tell", who)
TellIf(who) == IF who = Null THEN <<>> ELSE <<Tell(who)>>

\* MessageHandler(): queued notifies are delivered before a message and, unless
\* it returns at once, after it.  What is done for the message is decided when
\* its turn comes.
Handler(message) ==
  <<Do("drain", Null), Do(message, Null)>>
    \o (IF message \in {"SIZE", "MOUSEHOVER"} THEN <<>> ELSE <<Do("drain", Null)>>)

\* SetFocus(c).
Focusing(c) ==
  IF c = focus THEN <<>>
  ELSE (IF focus = Null THEN <<>> ELSE <<Tell(focus), Do("unfocus", Null)>>)
       \o (IF c = Null THEN <<>> ELSE <<Do("takeFocus", c)>>)

\* WM_MOUSEMOVE at a point of c, or of no control.
Moving(c) ==
  (IF hover \in {Null, c} THEN <<>> ELSE <<Tell(hover), Do("hover", Null)>>)
  \o <<Do("enter", c), Do("moved", c)>>

\* As if a double click were over when it is handled.
MutPointing(message, c) ==
  CASE message = "LBUTTONDOWN" ->
         <<Do("click", c), Do("focus", c), Do("capture", c), Tell(c)>>
    [] message = "LBUTTONDBLCLK" -> <<Do("capture", c), Tell(c)>>
    [] message = "RBUTTONDOWN" ->
         <<Do("focus", c), Do("capture", c), Tell(c), Do("click", c)>>
    [] message = "MOUSEWHEEL" -> <<Tell(c)>> \o Handler("MOUSEMOVE")
    [] message = "MOUSEHOVER" -> TellIf(hover) \o <<Do("touch", c)>>

\* What is done for a message at a point of c.
Pointing(message, c) ==
  CASE message = "LBUTTONDOWN" ->
         <<Do("click", c), Do("focus", c), Do("capture", c), Tell(c)>>
    [] message = "LBUTTONDBLCLK" -> <<Do("capture", c), Tell(c), Do("click", c)>>
    [] message = "RBUTTONDOWN" ->
         <<Do("focus", c), Do("capture", c), Tell(c), Do("click", c)>>
    [] message = "MOUSEWHEEL" -> <<Tell(c)>> \o Handler("MOUSEMOVE")
    [] message = "MOUSEHOVER" -> TellIf(hover) \o <<Do("touch", c)>>

\* What is done for other messages, none of which needs a point.
Reacting(message) ==
  CASE message \in {"LBUTTONUP", "CONTEXTMENU"} ->
         IF click = Null THEN <<>>
         ELSE <<Do("release", Null), Tell(click), Do("click", Null)>>
    [] message = "KEYDOWN" ->
         IF focus = Null THEN <<>> ELSE <<Tell(focus), Do("keyDown", Null)>>
    [] message = "KEYUP" ->
         IF key = Null THEN <<>> ELSE <<Tell(key), Do("keyUp", Null)>>
    [] message \in {"CHAR", "SIZE"} -> TellIf(focus)
    [] message = "CLOSE" ->
         TellIf(hover) \o <<Do("tellClick", Null), Do("focus", Null)>>

PointMessages == {"LBUTTONDOWN", "LBUTTONDBLCLK", "RBUTTONDOWN", "MOUSEWHEEL", "MOUSEHOVER"}
OtherMessages == {"LBUTTONUP", "CONTEXTMENU", "KEYDOWN", "KEYUP", "CHAR", "SIZE", "CLOSE"}
Messages == PointMessages \cup OtherMessages \cup {"MOUSEMOVE", "TIMER"}

---------------------------------------------------------------------------
(* Steps of the innermost handler.                                         *)

Now == Head(Head(stack))

\* A control that is deleted and used all the same.
Misused ==
  {c \in Controls : /\ Dead(c)
                    /\ stack # <<>> /\ Now = Do(Now.op, c)
                    /\ Now.op \in {"tell", "takeFocus", "touch", "enter"}}

Idle == stack = <<>>

\* A handler goes on unless it is about to call such a control; SetFocus() does,
\* whatever it reads there.
Running == ~Idle /\ (Misused = {} \/ Now.op = "takeFocus")

\* The innermost handler is at one of the operations ops, and goes on.
AtOneOf(ops) == ~Idle /\ Now.op \in ops /\ Running
At(op) == AtOneOf({op})
Telling == At("tell")

\* The handler goes on with `program`, then with what it had left to do.
Becomes(program) ==
  LET left == program \o Tail(Head(stack))
  IN  stack' = IF left = <<>> THEN Tail(stack) ELSE <<left>> \o Tail(stack)

\* The event is handled.
Told ==
  /\ Telling
  /\ Becomes(<<>>)
  /\ UNCHANGED <<tree, targets, captured, queues, calls, nested, bereft>>

\* The next notify leaves the queue and is delivered to its sender, if that is
\* left, and to the listeners in any case.
Drain ==
  /\ At("drain")
  /\ IF notify = <<>>
     THEN Becomes(<<>>) /\ UNCHANGED notify
     ELSE /\ notify' = Tail(notify)
          /\ Becomes(<<Tell(Head(notify))>> \o <<Do("drain", Null)>>)
  /\ UNCHANGED <<tree, targets, captured, timers, calls, nested, bereft>>

Point ==
  /\ AtOneOf(PointMessages)
  /\ IF Tree = {} THEN Becomes(<<>>)
     ELSE \E c \in Tree : Becomes(Pointing(Now.op, c))
  /\ UNCHANGED <<tree, targets, captured, queues, calls, nested, bereft>>

React ==
  /\ AtOneOf(OtherMessages)
  /\ Becomes(Reacting(Now.op))
  /\ UNCHANGED <<tree, targets, captured, queues, calls, nested, bereft>>

Move ==
  /\ At("MOUSEMOVE")
  /\ \E c \in Tree \cup {Null} : Becomes(Moving(c))
  /\ UNCHANGED <<tree, targets, captured, queues, calls, nested, bereft>>

\* WM_TIMER, which is for one of the timers that run, or late and for none.
Timer ==
  /\ At("TIMER")
  /\ \/ \E t \in timers : ~t.killed /\ Becomes(<<Tell(t.sender)>>)
     \/ Becomes(<<>>)
  /\ UNCHANGED <<tree, targets, captured, queues, calls, nested, bereft>>

\* Steps that only say who is next.
GoOn ==
  /\ AtOneOf({"focus", "moved", "tellClick", "touch", "enter"})
  /\ \/ Now.op = "focus" /\ Becomes(Focusing(Now.who))
     \/ Now.op = "moved" /\ Becomes(IF click # Null THEN <<Tell(click)>> ELSE TellIf(Now.who))
     \/ Now.op = "tellClick" /\ Becomes(TellIf(click))
     \/ Now.op = "touch" /\ Becomes(<<>>)
     \/ /\ Now.op = "enter"
        /\ Becomes(IF Now.who \in {Null, hover} THEN <<>>
                   ELSE <<Tell(Now.who), Do("hover", Now.who)>>)
  /\ UNCHANGED <<tree, targets, captured, queues, calls, nested, bereft>>

\* The new focus: a control that is visible and enabled, which it may not be,
\* and which a handler of KILLFOCUS may have deleted.
TakeFocus ==
  /\ At("takeFocus")
  /\ \/ focus' = Now.who /\ Becomes(<<Tell(Now.who)>>)
     \/ UNCHANGED focus /\ Becomes(<<>>)
  /\ UNCHANGED <<tree, hover, click, key, captured, queues, calls, nested, bereft>>

Unfocus ==
  /\ At("unfocus")
  /\ focus' = Null /\ Becomes(<<>>)
  /\ UNCHANGED <<tree, hover, click, key, captured, queues, calls, nested, bereft>>

SetHover ==
  /\ At("hover")
  /\ hover' = Now.who /\ Becomes(<<>>)
  /\ UNCHANGED <<tree, focus, click, key, captured, queues, calls, nested, bereft>>

SetClick ==
  /\ At("click")
  /\ click' = Now.who /\ Becomes(<<>>)
  /\ UNCHANGED <<tree, focus, hover, key, captured, queues, calls, nested, bereft>>

SetKey ==
  /\ \/ At("keyDown") /\ key' = focus
     \/ At("keyUp") /\ key' = Null
  /\ Becomes(<<>>)
  /\ UNCHANGED <<tree, focus, hover, click, captured, queues, calls, nested, bereft>>

Capture ==
  /\ \/ At("capture") /\ captured' = TRUE /\ UNCHANGED bereft
     \/ At("release") /\ captured' = FALSE /\ bereft' = FALSE
  /\ Becomes(<<>>)
  /\ UNCHANGED <<tree, targets, queues, calls, nested>>

Removed == {c \in Controls : state[c] = "removed"}

\* WM_APP + 1.
Cleanup ==
  /\ At("CLEANUP")
  /\ LET cs == Doomed(Removed)
     IN  /\ state' = [c \in Controls |-> IF c \in cs THEN "deleted" ELSE state[c]]
         /\ ReapObjects(cs)
  /\ Becomes(<<>>)
  /\ UNCHANGED <<root, cleanups, captured, calls, nested>>

\* As if the old dialog were deleted and not queued.
MutAttach ==
  /\ At("attach")
  /\ key' = Null
  /\ LET cs == Doomed({root})
     IN  /\ state' = [c \in Controls |-> CASE c = Now.who -> "in"
                                           [] c \in cs -> "deleted"
                                           [] OTHER -> state[c]]
         /\ hover' = Null /\ click' = Null /\ focus' = Forgotten(focus, cs)
         /\ notify' = [i \in DOMAIN notify |-> Forgotten(notify[i], cs)]
         /\ timers' = {t \in timers : t.sender \notin cs}
  /\ bereft' = (bereft \/ click # Null)
  /\ root' = Now.who
  /\ Becomes(<<>>)
  /\ UNCHANGED <<cleanups, captured, calls, nested>>

\* AttachDialog() from where the focus is gone: the old dialog is queued for
\* deletion.
Attach ==
  /\ At("attach")
  /\ hover' = Null /\ click' = Null /\ key' = Null
  /\ bereft' = (bereft \/ click # Null)
  /\ state' = [c \in Controls |-> CASE c = Now.who -> "in"
                                    [] c = root -> "removed"
                                    [] OTHER -> state[c]]
  /\ root' = Now.who
  /\ cleanups' = cleanups + 1
  /\ Becomes(<<>>)
  /\ UNCHANGED <<focus, captured, queues, calls, nested>>

---------------------------------------------------------------------------
(* Messages.                                                               *)

\* The loop of the program dispatches a message, or code of the application
\* calls for one.
Starts(message) ==
  /\ Len(stack) < MaxDepth
  /\ \/ Idle /\ UNCHANGED <<calls, nested>>
     \/ Telling /\ calls < MaxCalls /\ calls' = calls + 1 /\ nested' = TRUE
  /\ stack' = <<Handler(message)>> \o stack

Dispatch(message) ==
  /\ Starts(message)
  /\ UNCHANGED <<tree, targets, captured, queues, bereft>>

DispatchCleanup ==
  /\ cleanups > 0 /\ cleanups' = cleanups - 1
  /\ Starts("CLEANUP")
  /\ UNCHANGED <<state, root, targets, captured, queues, bereft>>

---------------------------------------------------------------------------
(* What code of the application does, in a handler or outside.             *)

Call == (Idle \/ Telling) /\ calls < MaxCalls /\ calls' = calls + 1

\* A control that is removed is queued for the cleanup: WM_APP + 1 is posted.
AddDelayedCleanup(c) ==
  /\ state' = [state EXCEPT ![c] = "removed"]
  /\ cleanups' = cleanups + 1
  /\ UNCHANGED <<targets, queues, bereft>>

\* Or it is deleted, with what is in it.
DeleteControl(c) ==
  /\ state' = [d \in Controls |-> IF d \in Doomed({c}) THEN "destroyed" ELSE state[d]]
  /\ ReapObjects(Doomed({c}))
  /\ UNCHANGED cleanups

\* Remove() of the container.
RemoveControl(c) ==
  /\ Call
  /\ Parent[c] # Null /\ state[c] = "in" /\ Exists(Parent[c])
  /\ IF Parent[c] \in AtOnce THEN DeleteControl(c) ELSE AddDelayedCleanup(c)
  /\ UNCHANGED <<root, captured, stack, nested>>

AddControl(c) ==
  /\ Call
  /\ Parent[c] # Null /\ state[c] = "new" /\ Exists(Parent[c])
  /\ state' = [state EXCEPT ![c] = "in"]
  /\ UNCHANGED <<root, cleanups, targets, captured, queues, stack, nested, bereft>>

\* SetFocus(), and AttachDialog(), which begins with SetFocus(NULL).
CallSetFocus(c) ==
  /\ Call /\ Len(stack) < MaxDepth
  /\ Exists(c)
  /\ stack' = <<<<Do("focus", c)>>>> \o stack
  /\ UNCHANGED <<tree, targets, captured, queues, nested, bereft>>

AttachDialog(c) ==
  /\ Call /\ Len(stack) < MaxDepth
  /\ c \in Dialogs /\ state[c] = "new"
  /\ \A n \in DOMAIN stack : \A i \in DOMAIN stack[n] : stack[n][i] # Do("attach", c)
  /\ stack' = <<<<Do("focus", Null), Do("attach", c)>>>> \o stack
  /\ UNCHANGED <<tree, targets, captured, queues, nested, bereft>>

TimerOf(c, killed) == [sender |-> c, killed |-> killed]

\* SetTimer(), for one timer per control: a killed one is started again.
SetTimer(c) ==
  /\ Call
  /\ Exists(c) /\ TimerOf(c, FALSE) \notin timers
  /\ timers' = (timers \ {TimerOf(c, TRUE)}) \cup {TimerOf(c, FALSE)}
  /\ UNCHANGED <<tree, targets, captured, notify, stack, nested, bereft>>

KillTimer(c) ==
  /\ Call
  /\ TimerOf(c, FALSE) \in timers
  /\ timers' = (timers \ {TimerOf(c, FALSE)}) \cup {TimerOf(c, TRUE)}
  /\ UNCHANGED <<tree, targets, captured, notify, stack, nested, bereft>>

\* SendNotify(), to be delivered later.
SendNotify(c) ==
  /\ Call
  /\ Exists(c) /\ Len(notify) < MaxNotify
  /\ notify' = Append(notify, c)
  /\ UNCHANGED <<tree, targets, captured, timers, stack, nested, bereft>>

---------------------------------------------------------------------------
Init ==
  /\ state = [c \in Controls |-> IF c \in First THEN "in" ELSE "new"]
  /\ root = FirstRoot
  /\ focus = Null /\ hover = Null /\ click = Null /\ key = Null
  /\ captured = FALSE
  /\ timers = {} /\ notify = <<>>
  /\ cleanups = 0 /\ stack = <<>>
  /\ calls = 0 /\ nested = FALSE /\ bereft = FALSE

Step ==
  \/ Told \/ Drain \/ Point \/ React \/ Move \/ Timer \/ GoOn
  \/ TakeFocus \/ Unfocus \/ SetHover \/ SetClick \/ SetKey \/ Capture
  \/ Cleanup \/ Attach

Program ==
  \/ \E message \in Messages : Dispatch(message)
  \/ DispatchCleanup
  \/ \E c \in Controls :
       RemoveControl(c) \/ AddControl(c) \/ CallSetFocus(c) \/ AttachDialog(c)
  \/ \E c \in Busy : SetTimer(c) \/ KillTimer(c) \/ SendNotify(c)

Next == Step \/ Program

Spec == Init /\ [][Next]_vars

---------------------------------------------------------------------------
\* The pointers that nothing but ReapObjects() clears when a control is deleted
\* never point to one that is: the focus, where the next key goes, the controls
\* of timers and the senders of notifies not yet delivered, in whatever order
\* controls are removed, deleted and told of messages, modal loops included.
\* The exception is the focus in the moment SetFocus() has given it to a control
\* that its KILLFOCUS handler deleted, and is about to call it
\* (UIManager.cpp:1263-1272): one that is Misused.
KeptTargetsLive ==
  /\ Dead(focus) => focus \in Misused
  /\ ~Dead(key)
  /\ \A t \in timers : ~Dead(t.sender)
  /\ \A i \in DOMAIN notify : ~Dead(notify[i])

\* What the delayed cleanup is for (UIManager.cpp:1103): as long as no handler of
\* an event dispatches messages itself, a handler may remove any control from a
\* container that delays, or replace the whole dialog, and what is deleted
\* thereby is used by no code that still has a pointer to it, nor left behind as
\* m_pEventHover or m_pEventClick.  (A control that its container deletes at
\* once may be used: UIContainer.cpp:106.)
DelayProtects ==
  ~nested =>
    /\ \A c \in Misused : state[c] = "destroyed"
    /\ \A c \in {hover, click} : Dead(c) => state[c] = "destroyed"

\* As long as no handler dispatches messages itself, the mouse is captured
\* between two messages only while there is a control whose button-up will
\* release it, unless what was clicked is gone since: then WM_LBUTTONUP finds
\* m_pEventClick null and does not release the capture (UIManager.cpp:915), and
\* nothing is said here.  A handler of KILLFOCUS that dispatches WM_LBUTTONUP
\* breaks it: the capture comes after (UIManager.cpp:876-878).
CaptureIsReleased ==
  Idle /\ captured /\ ~nested => click # Null \/ bereft
=============================================================================
