------------------------- MODULE PaintManagerProofs -------------------------
(***************************************************************************)
(* Proofs about PaintManager, for any controls and containers, handlers    *)
(* nested as deep and notifies queued as many as one likes.                *)
(*                                                                         *)
(* KeptTargetsLive is inductive once the types are known, up to a focus    *)
(* that was given to a deleted control: no step follows that (Stuck).      *)
(* DelayProtects speaks of the next instruction only; the invariant has to *)
(* say that no handler that runs still has to do with a control that the   *)
(* cleanup deleted (StackLives).  What keeps this is that, as long as no   *)
(* handler dispatches messages, the cleanup is the outermost one, and that *)
(* one is then about to end (Settled).                                     *)
(*                                                                         *)
(* CaptureIsReleased speaks of the time between two messages; its          *)
(* invariant (MouseInv) is about what the handlers that run have still to  *)
(* do with the mouse, and comes with the second half of the module.        *)
(***************************************************************************)
EXTENDS PaintManager, SequenceTheorems, TLAPS

Target == Controls \cup {Null}
Operations ==
  {"drain", "tell", "focus", "unfocus", "takeFocus", "hover", "enter", "moved",
   "click", "tellClick", "touch", "capture", "release", "keyDown", "keyUp",
   "attach", "LBUTTONDOWN", "LBUTTONDBLCLK", "RBUTTONDOWN", "LBUTTONUP",
   "MOUSEMOVE", "MOUSEWHEEL", "MOUSEHOVER", "CONTEXTMENU", "KEYDOWN", "KEYUP",
   "CHAR", "SIZE", "CLOSE", "TIMER", "CLEANUP"}
Instruction == [op : Operations, who : Target]
States == [Controls -> {"new", "in", "removed", "deleted", "destroyed"}]
Stacks == Seq(Seq(Instruction) \ {<<>>})

PaintType ==
  /\ state \in States
  /\ focus \in Target /\ hover \in Target /\ click \in Target /\ key \in Target
  /\ timers \subseteq [sender : Controls, killed : BOOLEAN]
  /\ notify \in Seq(Target)
  /\ stack \in Stacks
  /\ nested \in BOOLEAN

\* The states of the controls are s, and x is one that the cleanup deleted.
Gone(s, x) == x # Null /\ s[x] = "deleted"

\* Or that was deleted at all.
Lost(s, x) == x # Null /\ s[x] \in {"deleted", "destroyed"}

LiveProgram(s, p) == \A i \in 1..Len(p) : ~Gone(s, p[i].who)

Quiet(p) == \A i \in 1..Len(p) : p[i].op # "CLEANUP"

\* After the cleanup nothing is done with any control.
Settled(p) ==
  \A i, k \in 1..Len(p) : i < k /\ p[i].op = "CLEANUP" => p[k].who = Null

StackLives(s, st) ==
  \A n \in 1..Len(st) :
    /\ LiveProgram(s, st[n]) /\ Settled(st[n])
    /\ n # Len(st) => Quiet(st[n])

\* KeptTargetsLive without its exception.
Kept ==
  /\ ~Dead(focus) /\ ~Dead(key)
  /\ \A t \in timers : ~Dead(t.sender)
  /\ \A i \in DOMAIN notify : ~Dead(notify[i])

Protected == ~Gone(state, hover) /\ ~Gone(state, click) /\ StackLives(state, stack)

PaintInv == PaintType /\ Kept /\ (~nested => Protected)

\* The exception: the focus was deleted, and is about to be called.
KeptButFocus ==
  /\ ~Dead(key)
  /\ \A t \in timers : ~Dead(t.sender)
  /\ \A i \in DOMAIN notify : ~Dead(notify[i])

Stuck ==
  /\ PaintType /\ KeptButFocus /\ (~nested => Protected)
  /\ Dead(focus) /\ stack # << >> /\ Now = Tell(focus)

---------------------------------------------------------------------------
(* Programs.                                                               *)

\* A program that deletes nothing and has to do with nothing that is gone.
Good(s, p) == p \in Seq(Instruction) /\ LiveProgram(s, p) /\ Quiet(p)

LEMMA DoGood ==
  ASSUME NEW s, NEW op \in Operations, op # "CLEANUP", NEW x \in Target, ~Gone(s, x)
  PROVE  Good(s, <<Do(op, x)>>)
<1>1. Do(op, x) \in Instruction /\ Do(op, x).op = op /\ Do(op, x).who = x
  BY DEF Do, Instruction
<1> DEFINE p == <<Do(op, x)>>
<1>2. p \in Seq(Instruction) /\ Len(p) = 1 /\ p[1] = Do(op, x)
  BY <1>1
<1>3. \A i \in 1..Len(p) : i = 1
  BY <1>2
<1> QED BY <1>1, <1>2, <1>3 DEF Good, LiveProgram, Quiet

LEMMA EmptyGood == ASSUME NEW s PROVE Good(s, << >>)
<1>1. << >> \in Seq(Instruction) /\ Len(<< >>) = 0 /\ 1..0 = {}
  BY EmptySeq
<1> QED BY <1>1 DEF Good, LiveProgram, Quiet

LEMMA ConcatGood ==
  ASSUME NEW s, NEW p, NEW q, Good(s, p), Good(s, q)
  PROVE  Good(s, p \o q)
<1>1. /\ p \in Seq(Instruction) /\ q \in Seq(Instruction)
      /\ Len(p) \in Nat /\ Len(q) \in Nat
  BY LenProperties DEF Good
<1>2. /\ p \o q \in Seq(Instruction)
      /\ Len(p \o q) = Len(p) + Len(q)
      /\ \A i \in 1..(Len(p) + Len(q)) :
           (p \o q)[i] = IF i <= Len(p) THEN p[i] ELSE q[i - Len(p)]
  BY <1>1, ConcatProperties
<1>3. ASSUME NEW i \in 1..Len(p \o q)
      PROVE  ~Gone(s, (p \o q)[i].who) /\ (p \o q)[i].op # "CLEANUP"
  <2>1. CASE i <= Len(p)
    BY <1>1, <1>2, <2>1 DEF Good, LiveProgram, Quiet
  <2>2. CASE i > Len(p)
    <3>1. i - Len(p) \in 1..Len(q)
      BY <1>1, <1>2, <2>2
    <3> QED BY <1>1, <1>2, <2>2, <3>1 DEF Good, LiveProgram, Quiet
  <2> QED BY <1>1, <1>2, <2>1, <2>2
<1> QED BY <1>2, <1>3 DEF Good, LiveProgram, Quiet

\* Null is never gone.
LEMMA NullStays == ASSUME NEW s PROVE ~Gone(s, Null)
BY DEF Gone

LEMMA NullIsTarget == Null \in Target
BY DEF Target

---------------------------------------------------------------------------
(* Stacks.                                                                 *)

\* The innermost program goes on with `program`.
GoesOn(st, program) ==
  LET left == program \o Tail(Head(st))
  IN  IF left = <<>> THEN Tail(st) ELSE <<left>> \o Tail(st)

LEMMA TopOfStack ==
  ASSUME NEW st \in Stacks, st # << >>
  PROVE  /\ Len(st) \in Nat \ {0} /\ Head(st) = st[1]
         /\ Head(st) \in Seq(Instruction) /\ Head(st) # << >>
         /\ Len(Head(st)) \in Nat \ {0}
         /\ Head(Head(st)) = Head(st)[1] /\ Head(Head(st)) \in Instruction
         /\ Tail(st) \in Stacks /\ Tail(Head(st)) \in Seq(Instruction)
<1>1. Head(st) \in Seq(Instruction) \ {<< >>} /\ Tail(st) \in Stacks
  BY HeadTailProperties DEF Stacks
<1>2. Head(Head(st)) \in Instruction /\ Tail(Head(st)) \in Seq(Instruction)
  BY <1>1, HeadTailProperties
<1>3. Len(st) \in Nat \ {0} /\ Len(Head(st)) \in Nat \ {0}
  BY <1>1, EmptySeq DEF Stacks
<1> QED BY <1>1, <1>2, <1>3 DEF Stacks

LEMMA PushType ==
  ASSUME NEW st \in Stacks, NEW p \in Seq(Instruction), p # << >>
  PROVE  /\ <<p>> \o st \in Stacks
         /\ Len(<<p>> \o st) = Len(st) + 1
         /\ (<<p>> \o st)[1] = p
         /\ \A n \in 1..Len(st) : (<<p>> \o st)[n + 1] = st[n]
<1>1. <<p>> \in Stacks /\ Len(<<p>>) = 1 /\ <<p>>[1] = p
  BY DEF Stacks
<1>2. Len(st) \in Nat
  BY LenProperties DEF Stacks
<1> QED BY <1>1, <1>2, ConcatProperties DEF Stacks

LEMMA GoesOnType ==
  ASSUME NEW st \in Stacks, st # << >>, NEW p \in Seq(Instruction)
  PROVE  GoesOn(st, p) \in Stacks
<1>1. p \o Tail(Head(st)) \in Seq(Instruction) /\ Tail(st) \in Stacks
  BY TopOfStack, ConcatProperties
<1> QED BY <1>1, PushType DEF GoesOn

LEMMA PushLives ==
  ASSUME NEW s, NEW st \in Stacks, StackLives(s, st),
         NEW p, Good(s, p), p # << >>
  PROVE  StackLives(s, <<p>> \o st)
<1> DEFINE r == <<p>> \o st
<1>0. Len(st) \in Nat
  BY LenProperties DEF Stacks
<1>1. /\ r \in Stacks /\ Len(r) = Len(st) + 1 /\ r[1] = p
      /\ \A n \in 1..Len(st) : r[n + 1] = st[n]
  BY PushType DEF Good
<1> HIDE DEF r
<1>2. ASSUME NEW n \in 1..Len(r)
      PROVE  LiveProgram(s, r[n]) /\ Settled(r[n]) /\ (n # Len(r) => Quiet(r[n]))
  <2>1. CASE n = 1
    BY <1>1, <2>1 DEF Good, Quiet, Settled
  <2>2. CASE n # 1
    <3>1. n - 1 \in 1..Len(st) /\ r[n] = st[n - 1]
          /\ (n # Len(r) => n - 1 # Len(st))
      BY <1>0, <1>1, <2>2
    <3> QED BY <3>1 DEF StackLives
  <2> QED BY <2>1, <2>2
<1> QED BY <1>2 DEF StackLives, r

\* When a handler goes on, there may be less behind its cleanup, not more.
LEMMA GoesOnLives ==
  ASSUME NEW s, NEW st \in Stacks, st # << >>, StackLives(s, st),
         NEW p, Good(s, p)
  PROVE  StackLives(s, GoesOn(st, p))
<1> DEFINE top == Head(st)
           rest == Tail(st)
           left == p \o Tail(top)
<1>1. /\ Len(st) \in Nat \ {0} /\ top = st[1]
      /\ top \in Seq(Instruction) /\ top # << >> /\ Len(top) \in Nat \ {0}
      /\ rest \in Stacks /\ Tail(top) \in Seq(Instruction)
  BY TopOfStack
<1>2. /\ Len(rest) = Len(st) - 1
      /\ \A n \in 1..Len(rest) : rest[n] = st[n + 1]
  BY HeadTailProperties DEF Stacks
<1>3. /\ Len(Tail(top)) = Len(top) - 1
      /\ \A i \in 1..Len(Tail(top)) : Tail(top)[i] = top[i + 1]
  BY <1>1, HeadTailProperties
<1>4. p \in Seq(Instruction) /\ Len(p) \in Nat
  BY LenProperties DEF Good
<1>5. /\ left \in Seq(Instruction)
      /\ Len(left) = Len(p) + (Len(top) - 1)
      /\ \A i \in 1..Len(left) :
           left[i] = IF i <= Len(p) THEN p[i] ELSE Tail(top)[i - Len(p)]
  BY <1>1, <1>3, <1>4, ConcatProperties
<1>6. GoesOn(st, p) = IF left = << >> THEN rest ELSE <<left>> \o rest
  BY DEF GoesOn
<1> HIDE DEF top, rest, left
\* An instruction of left is one of p, or the same as one further on in top.
<1>7. ASSUME NEW i \in 1..Len(left)
      PROVE  \/ i <= Len(p) /\ i \in 1..Len(p) /\ left[i] = p[i]
             \/ /\ i > Len(p) /\ i - Len(p) + 1 \in 1..Len(top)
                /\ left[i] = top[i - Len(p) + 1]
  <2>1. CASE i <= Len(p)
    BY <1>4, <1>5, <2>1
  <2>2. CASE i > Len(p)
    <3>1. i - Len(p) \in 1..(Len(top) - 1)
      BY <1>1, <1>4, <1>5, <2>2
    <3>2. left[i] = top[i - Len(p) + 1]
      BY <1>1, <1>3, <1>4, <1>5, <2>2, <3>1
    <3> QED BY <1>1, <1>4, <2>2, <3>1, <3>2
  <2> QED BY <1>4, <2>1, <2>2
<1>8. LiveProgram(s, top) /\ Settled(top) /\ (Len(st) # 1 => Quiet(top))
  BY <1>1, SMTT(30) DEF StackLives
<1>9. LiveProgram(s, left)
  BY <1>7, <1>8 DEF LiveProgram, Good
<1>10. Settled(left)
  <2> SUFFICES ASSUME NEW i \in 1..Len(left), NEW k \in 1..Len(left), i < k,
                      left[i].op = "CLEANUP"
               PROVE  left[k].who = Null
    BY DEF Settled
  <2>1. /\ i > Len(p) /\ i - Len(p) + 1 \in 1..Len(top)
        /\ left[i] = top[i - Len(p) + 1]
    BY <1>7 DEF Good, Quiet
  <2>2. /\ k > Len(p) /\ k - Len(p) + 1 \in 1..Len(top)
        /\ left[k] = top[k - Len(p) + 1]
    BY <1>4, <1>5, <1>7, <2>1
  <2>3. i - Len(p) + 1 < k - Len(p) + 1
    BY <1>4, <1>5
  <2> QED BY <1>8, <2>1, <2>2, <2>3 DEF Settled
<1>11. Len(st) # 1 => Quiet(left)
  BY <1>7, <1>8 DEF Quiet, Good
<1>12. StackLives(s, rest)
  <2> SUFFICES ASSUME NEW n \in 1..Len(rest)
               PROVE  /\ LiveProgram(s, rest[n]) /\ Settled(rest[n])
                      /\ n # Len(rest) => Quiet(rest[n])
    BY DEF StackLives
  <2>1. n + 1 \in 1..Len(st) /\ rest[n] = st[n + 1] /\ (n # Len(rest) => n + 1 # Len(st))
    BY <1>1, <1>2
  <2> QED BY <2>1 DEF StackLives
<1>13. CASE left = << >>
  BY <1>6, <1>12, <1>13
<1>14. CASE left # << >>
  <2> DEFINE r == <<left>> \o rest
  <2>1. /\ r \in Stacks /\ Len(r) = Len(rest) + 1 /\ r[1] = left
        /\ \A n \in 1..Len(rest) : r[n + 1] = rest[n]
    BY <1>1, <1>5, <1>14, PushType
  <2> HIDE DEF r
  <2>2. ASSUME NEW n \in 1..Len(r)
        PROVE  LiveProgram(s, r[n]) /\ Settled(r[n]) /\ (n # Len(r) => Quiet(r[n]))
    <3>1. CASE n = 1
      BY <1>1, <1>2, <1>9, <1>10, <1>11, <2>1, <3>1
    <3>2. CASE n # 1
      <4>1. n - 1 \in 1..Len(rest) /\ r[n] = rest[n - 1]
            /\ (n # Len(r) => n - 1 # Len(rest))
        BY <1>1, <1>2, <2>1, <3>2
      <4> QED BY <1>12, <4>1 DEF StackLives
    <3> QED BY <3>1, <3>2
  <2> QED BY <1>6, <1>14, <2>2 DEF StackLives, r
<1> QED BY <1>13, <1>14

\* Controls that come back to life, if they did, would do no harm.
LEMMA FewerGone ==
  ASSUME NEW s, NEW t, NEW st \in Stacks, StackLives(s, st),
         \A x \in Target : Gone(t, x) => Gone(s, x)
  PROVE  StackLives(t, st)
<1>1. ASSUME NEW n \in 1..Len(st), NEW i \in 1..Len(st[n])
      PROVE  st[n][i].who \in Target
  <2>1. st[n] \in Seq(Instruction)
    BY ElementOfSeq DEF Stacks
  <2>2. st[n][i] \in Instruction
    BY <2>1, ElementOfSeq
  <2> QED BY <2>2 DEF Instruction
<1> QED BY <1>1 DEF StackLives, LiveProgram

---------------------------------------------------------------------------
(* The programs of handlers.                                               *)

LEMMA OneGood ==
  ASSUME NEW s, NEW a, Good(s, <<a>>)
  PROVE  a \in Instruction /\ ~Gone(s, a.who) /\ a.op # "CLEANUP"
<1> DEFINE p == <<a>>
<1>1. Len(p) = 1 /\ p[1] = a /\ p \in Seq(Instruction)
  BY DEF Good
<1> HIDE DEF p
<1>2. 1 \in 1..Len(p)
  BY <1>1
<1>3. ~Gone(s, p[1].who) /\ p[1].op # "CLEANUP"
  BY <1>2 DEF Good, LiveProgram, Quiet, p
<1> QED BY <1>1, <1>2, <1>3, ElementOfSeq

LEMMA ListGood ==
  ASSUME NEW s, NEW a, NEW b, NEW c, NEW d, Good(s, <<a>>), Good(s, <<b>>)
  PROVE  /\ Good(s, <<a, b>>)
         /\ Good(s, <<c>>) => Good(s, <<a, b, c>>)
         /\ Good(s, <<c>>) /\ Good(s, <<d>>) => Good(s, <<a, b, c, d>>)
<1>1. /\ a \in Instruction /\ ~Gone(s, a.who) /\ a.op # "CLEANUP"
      /\ b \in Instruction /\ ~Gone(s, b.who) /\ b.op # "CLEANUP"
  BY OneGood
<1>2. Good(s, <<a, b>>)
  <2> DEFINE p == <<a, b>>
  <2>1. p \in Seq(Instruction) /\ Len(p) = 2 /\ p[1] = a /\ p[2] = b
    BY <1>1
  <2> HIDE DEF p
  <2> QED BY <1>1, <2>1 DEF Good, LiveProgram, Quiet, p
<1>3. ASSUME Good(s, <<c>>) PROVE Good(s, <<a, b, c>>)
  <2> DEFINE p == <<a, b, c>>
  <2>1. c \in Instruction /\ ~Gone(s, c.who) /\ c.op # "CLEANUP"
    BY <1>3, OneGood
  <2>2. /\ p \in Seq(Instruction) /\ Len(p) = 3
        /\ p[1] = a /\ p[2] = b /\ p[3] = c
    BY <1>1, <2>1
  <2> HIDE DEF p
  <2> QED BY <1>1, <2>1, <2>2 DEF Good, LiveProgram, Quiet, p
<1>4. ASSUME Good(s, <<c>>), Good(s, <<d>>) PROVE Good(s, <<a, b, c, d>>)
  <2> DEFINE p == <<a, b, c, d>>
  <2>1. /\ c \in Instruction /\ ~Gone(s, c.who) /\ c.op # "CLEANUP"
        /\ d \in Instruction /\ ~Gone(s, d.who) /\ d.op # "CLEANUP"
    BY <1>4, OneGood
  <2>2. /\ p \in Seq(Instruction) /\ Len(p) = 4
        /\ p[1] = a /\ p[2] = b /\ p[3] = c /\ p[4] = d
    BY <1>1, <2>1
  <2> HIDE DEF p
  <2> QED BY <1>1, <2>1, <2>2 DEF Good, LiveProgram, Quiet, p
<1> QED BY <1>2, <1>3, <1>4

LEMMA TellGood ==
  ASSUME NEW s, NEW x \in Target, ~Gone(s, x)
  PROVE  Good(s, <<Tell(x)>>) /\ Good(s, TellIf(x))
BY DoGood, EmptyGood DEF Tell, TellIf, Operations

LEMMA HandlerGood ==
  ASSUME NEW s, NEW message \in Operations \ {"CLEANUP"}
  PROVE  Good(s, Handler(message)) /\ Handler(message) # << >>
<1>1. Good(s, <<Do("drain", Null)>>) /\ Good(s, <<Do(message, Null)>>)
  <2>1. "drain" \in Operations \ {"CLEANUP"} /\ message \in Operations \ {"CLEANUP"}
    BY DEF Operations
  <2>2. Null \in Target /\ ~Gone(s, Null)
    BY NullStays, NullIsTarget
  <2> QED BY <2>1, <2>2, DoGood
<1>2. Good(s, <<Do("drain", Null), Do(message, Null)>>)
  BY <1>1, ListGood
<1>3. Good(s, Handler(message))
  BY <1>1, <1>2, EmptyGood, ConcatGood DEF Handler
<1>4. Handler(message)[1] = Do("drain", Null) /\ Len(Handler(message)) # 0
  BY DEF Handler
<1> QED BY <1>3, <1>4, EmptySeq

LEMMA FocusingGood ==
  ASSUME NEW s, NEW x \in Target, ~Gone(s, x), focus \in Target, ~Gone(s, focus)
  PROVE  Good(s, Focusing(x))
<1>1. Good(s, <<Tell(focus)>>) /\ Good(s, <<Do("unfocus", Null)>>)
  BY TellGood, DoGood, NullStays, NullIsTarget DEF Operations
<1>2. Good(s, <<Tell(focus), Do("unfocus", Null)>>)
  BY <1>1, ListGood
<1>3. Good(s, <<Do("takeFocus", x)>>)
  BY DoGood DEF Operations
<1> QED BY <1>2, <1>3, EmptyGood, ConcatGood DEF Focusing

LEMMA MovingGood ==
  ASSUME NEW s, NEW x \in Target, ~Gone(s, x), hover \in Target, ~Gone(s, hover)
  PROVE  Good(s, Moving(x))
<1>1. Good(s, <<Tell(hover)>>) /\ Good(s, <<Do("hover", Null)>>)
  BY TellGood, DoGood, NullStays, NullIsTarget DEF Operations
<1>2. Good(s, <<Tell(hover), Do("hover", Null)>>)
  BY <1>1, ListGood
<1>3. Good(s, <<Do("enter", x)>>) /\ Good(s, <<Do("moved", x)>>)
  BY DoGood DEF Operations
<1>4. Good(s, <<Do("enter", x), Do("moved", x)>>)
  BY <1>3, ListGood
<1> QED BY <1>2, <1>4, EmptyGood, ConcatGood DEF Moving

LEMMA PointingGood ==
  ASSUME NEW s, NEW message \in PointMessages, NEW x \in Target, ~Gone(s, x),
         hover \in Target, ~Gone(s, hover)
  PROVE  Good(s, Pointing(message, x))
<1>1. /\ Good(s, <<Do("click", x)>>) /\ Good(s, <<Do("focus", x)>>)
      /\ Good(s, <<Do("capture", x)>>) /\ Good(s, <<Do("touch", x)>>)
      /\ Good(s, <<Tell(x)>>) /\ Good(s, TellIf(hover))
  BY DoGood, TellGood DEF Operations
<1>2. CASE message = "LBUTTONDOWN"
  BY <1>1, <1>2, ListGood DEF Pointing
<1>3. CASE message = "LBUTTONDBLCLK"
  BY <1>1, <1>3, ListGood DEF Pointing
<1>4. CASE message = "RBUTTONDOWN"
  BY <1>1, <1>4, ListGood DEF Pointing
<1>5. CASE message = "MOUSEWHEEL"
  <2>1. Good(s, Handler("MOUSEMOVE"))
    BY HandlerGood DEF Operations
  <2> QED BY <1>1, <1>5, <2>1, ConcatGood DEF Pointing
<1>6. CASE message = "MOUSEHOVER"
  BY <1>1, <1>6, ConcatGood DEF Pointing
<1> QED BY <1>2, <1>3, <1>4, <1>5, <1>6 DEF PointMessages

LEMMA ReactingGood ==
  ASSUME NEW s, NEW message \in OtherMessages,
         focus \in Target, hover \in Target, click \in Target, key \in Target,
         ~Gone(s, focus), ~Gone(s, hover), ~Gone(s, click), ~Gone(s, key)
  PROVE  Good(s, Reacting(message))
<1>1. /\ Good(s, <<Tell(click)>>) /\ Good(s, <<Tell(focus)>>) /\ Good(s, <<Tell(key)>>)
      /\ Good(s, TellIf(focus)) /\ Good(s, TellIf(hover)) /\ Good(s, << >>)
  BY TellGood, EmptyGood
<1>2. /\ Good(s, <<Do("release", Null)>>) /\ Good(s, <<Do("click", Null)>>)
      /\ Good(s, <<Do("keyDown", Null)>>) /\ Good(s, <<Do("keyUp", Null)>>)
      /\ Good(s, <<Do("tellClick", Null)>>) /\ Good(s, <<Do("focus", Null)>>)
  BY DoGood, NullStays, NullIsTarget DEF Operations
<1>3. CASE message \in {"LBUTTONUP", "CONTEXTMENU"}
  <2>1. Good(s, <<Do("release", Null), Tell(click), Do("click", Null)>>)
    BY <1>1, <1>2, ListGood
  <2> QED BY <1>1, <1>3, <2>1 DEF Reacting
<1>4. CASE message = "KEYDOWN"
  <2>1. Good(s, <<Tell(focus), Do("keyDown", Null)>>)
    BY <1>1, <1>2, ListGood
  <2> QED BY <1>1, <1>4, <2>1 DEF Reacting
<1>5. CASE message = "KEYUP"
  <2>1. Good(s, <<Tell(key), Do("keyUp", Null)>>)
    BY <1>1, <1>2, ListGood
  <2> QED BY <1>1, <1>5, <2>1 DEF Reacting
<1>6. CASE message \in {"CHAR", "SIZE"}
  BY <1>1, <1>6 DEF Reacting
<1>7. CASE message = "CLOSE"
  <2>1. Good(s, <<Do("tellClick", Null), Do("focus", Null)>>)
    BY <1>2, ListGood
  <2> QED BY <1>1, <1>7, <2>1, ConcatGood DEF Reacting
<1> QED BY <1>3, <1>4, <1>5, <1>6, <1>7 DEF OtherMessages

---------------------------------------------------------------------------
(* Steps of a handler.                                                     *)

\* Nothing a step of the innermost handler may name is gone in s.
NamesLive(s) ==
  /\ ~Gone(s, focus) /\ ~Gone(s, hover) /\ ~Gone(s, click) /\ ~Gone(s, key)
  /\ ~Gone(s, Now.who)
  /\ \A t \in timers : ~Gone(s, t.sender)
  /\ \A i \in 1..Len(notify) : ~Gone(s, notify[i])
  /\ \A x \in Tree : ~Gone(s, x)

\* A state in which nothing is gone, to get types from Good.
AllIn == [c \in Controls |-> "in"]

LEMMA NamesLiveHolds ==
  ASSUME PaintInv, stack # << >>
  PROVE  NamesLive(AllIn) /\ (~nested => NamesLive(state))
<1>1. Now \in Instruction /\ Now = stack[1][1]
      /\ 1 \in 1..Len(stack) /\ 1 \in 1..Len(stack[1])
  BY TopOfStack DEF PaintInv, PaintType, Now
<1>2. DOMAIN notify = 1..Len(notify) /\ \A i \in 1..Len(notify) : notify[i] \in Target
  BY LenProperties, ElementOfSeq DEF PaintInv, PaintType
<1>3. \A x \in Target : ~Gone(AllIn, x)
  BY DEF Gone, AllIn, Target
<1>4. NamesLive(AllIn)
  BY <1>1, <1>2, <1>3 DEF NamesLive, PaintInv, PaintType, Target, Tree, Instruction
<1>5. ASSUME ~nested PROVE NamesLive(state)
  <2>1. ~Gone(state, Now.who)
    BY <1>1, <1>5 DEF PaintInv, Protected, StackLives, LiveProgram
  <2>2. \A x \in Tree : ~Gone(state, x)
    BY DEF Tree, Path, Gone
  <2> QED
    BY <1>2, <1>5, <2>1, <2>2
    DEF NamesLive, PaintInv, Protected, Kept, Dead, Gone
<1> QED BY <1>4, <1>5

\* What becomes of the stack when the innermost handler goes on.
LEMMA BecomesKeeps ==
  ASSUME PaintInv, stack # << >>, NEW p, Becomes(p),
         \A s : NamesLive(s) => Good(s, p)
  PROVE  stack' \in Stacks /\ (~nested => StackLives(state, stack'))
<1>1. stack' = GoesOn(stack, p)
  BY DEF Becomes, GoesOn
<1>2. p \in Seq(Instruction) /\ (~nested => Good(state, p))
  BY NamesLiveHolds DEF Good
<1>3. stack' \in Stacks
  BY <1>1, <1>2, GoesOnType DEF PaintInv, PaintType
<1>4. ~nested => StackLives(state, stack')
  BY <1>1, <1>2, GoesOnLives DEF PaintInv, PaintType, Protected
<1> QED BY <1>3, <1>4

\* Steps that only go on.
LEMMA GoingOnInv ==
  ASSUME PaintInv, stack # << >>, NEW p, Becomes(p),
         \A s : NamesLive(s) => Good(s, p),
         UNCHANGED <<state, targets, timers, notify, nested>>
  PROVE  PaintInv'
<1>1. stack' \in Stacks /\ (~nested => StackLives(state, stack'))
  BY BecomesKeeps
<1> QED
  BY <1>1 DEF PaintInv, PaintType, Kept, Protected, Dead, Gone, targets

---------------------------------------------------------------------------
\* The steps that only decide what is done next.

LEMMA NowType ==
  ASSUME PaintInv, stack # << >>
  PROVE  Now.op \in Operations /\ Now.who \in Target
BY TopOfStack DEF PaintInv, PaintType, Now, Instruction

LEMMA ToldInv == PaintInv /\ Told => PaintInv'
<1> SUFFICES ASSUME PaintInv, Told PROVE PaintInv'
  OBVIOUS
<1>1. /\ stack # << >> /\ Becomes(<< >>)
      /\ UNCHANGED <<state, targets, timers, notify, nested>>
  BY DEF Told, Telling, At, AtOneOf, Running, Idle, tree, queues
<1> QED BY <1>1, EmptyGood, GoingOnInv

LEMMA PointInv == PaintInv /\ Point => PaintInv'
<1> SUFFICES ASSUME PaintInv, Point PROVE PaintInv'
  OBVIOUS
<1>1. /\ stack # << >> /\ Now.op \in PointMessages
      /\ UNCHANGED <<state, targets, timers, notify, nested>>
  BY DEF Point, AtOneOf, Running, Idle, tree, queues
<1>2. CASE Tree = {}
  <2>1. Becomes(<< >>)
    BY <1>2 DEF Point
  <2> QED BY <1>1, <2>1, EmptyGood, GoingOnInv
<1>3. CASE Tree # {}
  <2>1. PICK x \in Tree : Becomes(Pointing(Now.op, x))
    BY <1>3 DEF Point
  <2>2. x \in Target /\ hover \in Target
    BY DEF Tree, Target, PaintInv, PaintType
  <2>3. ASSUME NEW s, NamesLive(s) PROVE Good(s, Pointing(Now.op, x))
    BY <1>1, <2>2, <2>3, PointingGood DEF NamesLive
  <2> QED BY <1>1, <2>1, <2>3, GoingOnInv
<1> QED BY <1>2, <1>3

LEMMA ReactInv == PaintInv /\ React => PaintInv'
<1> SUFFICES ASSUME PaintInv, React PROVE PaintInv'
  OBVIOUS
<1>1. /\ stack # << >> /\ Now.op \in OtherMessages /\ Becomes(Reacting(Now.op))
      /\ UNCHANGED <<state, targets, timers, notify, nested>>
  BY DEF React, AtOneOf, Running, Idle, tree, queues
<1>2. focus \in Target /\ hover \in Target /\ click \in Target /\ key \in Target
  BY DEF PaintInv, PaintType
<1>3. ASSUME NEW s, NamesLive(s) PROVE Good(s, Reacting(Now.op))
  BY <1>1, <1>2, <1>3, ReactingGood DEF NamesLive
<1> QED BY <1>1, <1>3, GoingOnInv

LEMMA MoveInv == PaintInv /\ Move => PaintInv'
<1> SUFFICES ASSUME PaintInv, Move PROVE PaintInv'
  OBVIOUS
<1>1. /\ stack # << >>
      /\ UNCHANGED <<state, targets, timers, notify, nested>>
  BY DEF Move, At, AtOneOf, Running, Idle, tree, queues
<1>2. PICK x \in Tree \cup {Null} : Becomes(Moving(x))
  BY DEF Move
<1>3. x \in Target /\ hover \in Target
  BY DEF Tree, Target, PaintInv, PaintType
<1>4. ASSUME NEW s, NamesLive(s) PROVE Good(s, Moving(x))
  <2>1. ~Gone(s, x) /\ ~Gone(s, hover)
    BY <1>4, NullStays DEF NamesLive
  <2> QED BY <1>3, <2>1, MovingGood
<1> QED BY <1>1, <1>2, <1>4, GoingOnInv

LEMMA TimerInv == PaintInv /\ Timer => PaintInv'
<1> SUFFICES ASSUME PaintInv, Timer PROVE PaintInv'
  OBVIOUS
<1>1. /\ stack # << >>
      /\ UNCHANGED <<state, targets, timers, notify, nested>>
  BY DEF Timer, At, AtOneOf, Running, Idle, tree, queues
<1>2. CASE Becomes(<< >>)
  BY <1>1, <1>2, EmptyGood, GoingOnInv
<1>3. CASE \E t \in timers : ~t.killed /\ Becomes(<<Tell(t.sender)>>)
  <2>1. PICK t \in timers : Becomes(<<Tell(t.sender)>>)
    BY <1>3
  <2>2. t.sender \in Target
    BY DEF PaintInv, PaintType, Target
  <2>3. ASSUME NEW s, NamesLive(s) PROVE Good(s, <<Tell(t.sender)>>)
    BY <2>2, <2>3, TellGood DEF NamesLive
  <2> QED BY <1>1, <2>1, <2>3, GoingOnInv
<1> QED BY <1>2, <1>3 DEF Timer

LEMMA GoOnInv == PaintInv /\ GoOn => PaintInv'
<1> SUFFICES ASSUME PaintInv, GoOn PROVE PaintInv'
  OBVIOUS
<1>1. /\ stack # << >>
      /\ UNCHANGED <<state, targets, timers, notify, nested>>
  BY DEF GoOn, AtOneOf, Running, Idle, tree, queues
<1>2. /\ Now.who \in Target
      /\ focus \in Target /\ hover \in Target /\ click \in Target
  BY <1>1, NowType DEF PaintInv, PaintType
<1>3. CASE Becomes(Focusing(Now.who))
  <2>1. ASSUME NEW s, NamesLive(s) PROVE Good(s, Focusing(Now.who))
    BY <1>2, <2>1, FocusingGood DEF NamesLive
  <2> QED BY <1>1, <1>3, <2>1, GoingOnInv
<1>4. CASE Becomes(IF click # Null THEN <<Tell(click)>> ELSE TellIf(Now.who))
  <2>1. ASSUME NEW s, NamesLive(s)
        PROVE  Good(s, IF click # Null THEN <<Tell(click)>> ELSE TellIf(Now.who))
    <3>1. Good(s, <<Tell(click)>>) /\ Good(s, TellIf(Now.who))
      BY <1>2, <2>1, TellGood DEF NamesLive
    <3> QED BY <3>1
  <2> QED BY <1>1, <1>4, <2>1, GoingOnInv
<1>5. CASE Becomes(TellIf(click))
  <2>1. ASSUME NEW s, NamesLive(s) PROVE Good(s, TellIf(click))
    BY <1>2, <2>1, TellGood DEF NamesLive
  <2> QED BY <1>1, <1>5, <2>1, GoingOnInv
<1>6. CASE Becomes(<< >>)
  BY <1>1, <1>6, EmptyGood, GoingOnInv
<1>7. CASE Becomes(IF Now.who \in {Null, hover} THEN << >>
                   ELSE <<Tell(Now.who), Do("hover", Now.who)>>)
  <2>1. ASSUME NEW s, NamesLive(s)
        PROVE  Good(s, IF Now.who \in {Null, hover} THEN << >>
                       ELSE <<Tell(Now.who), Do("hover", Now.who)>>)
    <3>1. Good(s, <<Tell(Now.who)>>) /\ Good(s, <<Do("hover", Now.who)>>)
      BY <1>2, <2>1, TellGood, DoGood DEF NamesLive, Operations
    <3>2. Good(s, <<Tell(Now.who), Do("hover", Now.who)>>)
      BY <3>1, ListGood
    <3> QED BY <3>2, EmptyGood
  <2> QED BY <1>1, <1>7, <2>1, GoingOnInv
<1> QED BY <1>3, <1>4, <1>5, <1>6, <1>7 DEF GoOn

---------------------------------------------------------------------------
\* The steps that set pointers.

LEMMA DrainInv == PaintInv /\ Drain => PaintInv'
<1> SUFFICES ASSUME PaintInv, Drain PROVE PaintInv'
  OBVIOUS
<1>1. /\ stack # << >>
      /\ UNCHANGED <<state, targets, timers, nested>>
  BY DEF Drain, At, AtOneOf, Running, Idle, tree
<1>2. CASE notify = << >>
  BY <1>1, <1>2, EmptyGood, GoingOnInv DEF Drain
<1>3. CASE notify # << >>
  <2> DEFINE p == <<Tell(Head(notify))>> \o <<Do("drain", Null)>>
  <2>1. notify' = Tail(notify) /\ Becomes(p)
    BY <1>3 DEF Drain
  <2>2. /\ Head(notify) = notify[1] /\ Head(notify) \in Target
        /\ 1 \in 1..Len(notify)
        /\ notify' \in Seq(Target)
        /\ DOMAIN notify = 1..Len(notify)
        /\ DOMAIN notify' = 1..Len(notify')
        /\ \A i \in 1..Len(notify') : i + 1 \in 1..Len(notify) /\ notify'[i] = notify[i + 1]
    BY <1>3, <2>1, HeadTailProperties, LenProperties, EmptySeq DEF PaintInv, PaintType
  <2>3. ASSUME NEW s, NamesLive(s) PROVE Good(s, p)
    <3>1. Good(s, <<Tell(Head(notify))>>)
      BY <2>2, <2>3, TellGood DEF NamesLive
    <3>2. Good(s, <<Do("drain", Null)>>)
      BY DoGood, NullStays, NullIsTarget DEF Operations
    <3> QED BY <3>1, <3>2, ConcatGood
  <2> HIDE DEF p
  <2>4. stack' \in Stacks /\ (~nested => StackLives(state, stack'))
    BY <1>1, <2>1, <2>3, BecomesKeeps
  <2>5. \A i \in DOMAIN notify' : ~Dead(notify'[i])
    BY <2>2 DEF PaintInv, Kept
  <2> QED
    BY <1>1, <2>2, <2>4, <2>5
    DEF PaintInv, PaintType, Kept, Protected, Dead, Gone, targets
<1> QED BY <1>2, <1>3

\* When the innermost handler goes on with an instruction, that one is next.
LEMMA NextInstruction ==
  ASSUME PaintInv, stack # << >>, NEW i \in Instruction, Becomes(<<i>>)
  PROVE  stack' # << >> /\ Now' = i
<1> DEFINE left == <<i>> \o Tail(Head(stack))
<1>1. Tail(Head(stack)) \in Seq(Instruction) /\ Tail(stack) \in Stacks
  BY TopOfStack DEF PaintInv, PaintType
<1>2. left \in Seq(Instruction) /\ Len(left) > 0 /\ left[1] = i
  <2>1. <<i>> \in Seq(Instruction) /\ Len(<<i>>) = 1 /\ <<i>>[1] = i
    OBVIOUS
  <2>2. Len(Tail(Head(stack))) \in Nat
    BY <1>1, LenProperties
  <2> QED BY <1>1, <2>1, <2>2, ConcatProperties
<1>3. stack' = IF left = << >> THEN Tail(stack) ELSE <<left>> \o Tail(stack)
  BY DEF Becomes
<1> HIDE DEF left
<1>4. left # << >>
  BY <1>2, EmptySeq
<1>5. stack' = <<left>> \o Tail(stack)
  BY <1>3, <1>4
<1>6. /\ stack' \in Stacks /\ Len(stack') = Len(Tail(stack)) + 1
      /\ stack'[1] = left /\ Len(Tail(stack)) \in Nat
  BY <1>1, <1>2, <1>4, <1>5, PushType, LenProperties DEF Stacks
<1>7. stack' # << >>
  BY <1>6, EmptySeq
<1>8. Head(stack') = left /\ Head(left) = i
  BY <1>2, <1>4, <1>6, <1>7, TopOfStack
<1> QED BY <1>7, <1>8 DEF Now

\* The focus is taken by a control that is there, or by one that was deleted
\* and will be called next.
LEMMA TakeFocusInv == PaintInv /\ TakeFocus => PaintInv' \/ Stuck'
<1> SUFFICES ASSUME PaintInv, TakeFocus PROVE PaintInv' \/ Stuck'
  OBVIOUS
<1>1. /\ stack # << >>
      /\ UNCHANGED <<state, hover, click, key, timers, notify, nested>>
  BY DEF TakeFocus, At, AtOneOf, Running, Idle, tree, queues
<1>2. Now \in Instruction /\ Now.who \in Target
  BY <1>1, TopOfStack DEF PaintInv, PaintType, Now, Instruction
<1>3. CASE UNCHANGED focus /\ Becomes(<< >>)
  BY <1>1, <1>3, EmptyGood, GoingOnInv DEF targets
<1>4. CASE focus' = Now.who /\ Becomes(<<Tell(Now.who)>>)
  <2>1. ASSUME NEW s, NamesLive(s) PROVE Good(s, <<Tell(Now.who)>>)
    BY <1>2, <2>1, TellGood DEF NamesLive
  <2>2. stack' \in Stacks /\ (~nested => StackLives(state, stack'))
    BY <1>1, <1>4, <2>1, BecomesKeeps
  <2>3. PaintType' /\ (~nested => Protected')
    BY <1>1, <1>2, <1>4, <2>2 DEF PaintInv, PaintType, Protected
  <2>4. CASE ~Dead(Now.who)
    <3>1. Kept'
      BY <1>1, <1>4, <2>4 DEF PaintInv, Kept, Dead
    <3> QED BY <1>1, <2>3, <3>1 DEF PaintInv
  <2>5. CASE Dead(Now.who)
    <3>1. Dead(focus)' /\ KeptButFocus'
      BY <1>1, <1>4, <2>5 DEF PaintInv, Kept, KeptButFocus, Dead
    <3>2. stack' # << >> /\ Now' = Tell(focus')
      <4>1. Tell(Now.who) \in Instruction
        BY <1>2 DEF Tell, Do, Instruction, Operations
      <4> QED BY <1>1, <1>4, <4>1, NextInstruction
    <3> QED BY <1>1, <2>3, <3>1, <3>2 DEF Stuck
  <2> QED BY <2>4, <2>5
<1> QED BY <1>3, <1>4 DEF TakeFocus

LEMMA UnfocusInv == PaintInv /\ Unfocus => PaintInv'
<1> SUFFICES ASSUME PaintInv, Unfocus PROVE PaintInv'
  OBVIOUS
<1>1. /\ stack # << >> /\ Becomes(<< >>) /\ focus' = Null
      /\ UNCHANGED <<state, hover, click, key, timers, notify, nested>>
  BY DEF Unfocus, At, AtOneOf, Running, Idle, tree, queues
<1>2. stack' \in Stacks /\ (~nested => StackLives(state, stack'))
  BY <1>1, EmptyGood, BecomesKeeps
<1> QED
  BY <1>1, <1>2, NullIsTarget
  DEF PaintInv, PaintType, Kept, Protected, Dead, Gone

LEMMA SetHoverInv == PaintInv /\ SetHover => PaintInv'
<1> SUFFICES ASSUME PaintInv, SetHover PROVE PaintInv'
  OBVIOUS
<1>1. /\ stack # << >> /\ Becomes(<< >>) /\ hover' = Now.who
      /\ UNCHANGED <<state, focus, click, key, timers, notify, nested>>
  BY DEF SetHover, At, AtOneOf, Running, Idle, tree, queues
<1>2. stack' \in Stacks /\ (~nested => StackLives(state, stack'))
  BY <1>1, EmptyGood, BecomesKeeps
<1>3. Now.who \in Target /\ (~nested => ~Gone(state, Now.who))
  BY <1>1, NowType, NamesLiveHolds DEF NamesLive
<1> QED
  BY <1>1, <1>2, <1>3 DEF PaintInv, PaintType, Kept, Protected, Dead, Gone

LEMMA SetClickInv == PaintInv /\ SetClick => PaintInv'
<1> SUFFICES ASSUME PaintInv, SetClick PROVE PaintInv'
  OBVIOUS
<1>1. /\ stack # << >> /\ Becomes(<< >>) /\ click' = Now.who
      /\ UNCHANGED <<state, focus, hover, key, timers, notify, nested>>
  BY DEF SetClick, At, AtOneOf, Running, Idle, tree, queues
<1>2. stack' \in Stacks /\ (~nested => StackLives(state, stack'))
  BY <1>1, EmptyGood, BecomesKeeps
<1>3. Now.who \in Target /\ (~nested => ~Gone(state, Now.who))
  BY <1>1, NowType, NamesLiveHolds DEF NamesLive
<1> QED
  BY <1>1, <1>2, <1>3 DEF PaintInv, PaintType, Kept, Protected, Dead, Gone

\* m_pEventKey is the focus, which is never gone, or null.
LEMMA SetKeyInv == PaintInv /\ SetKey => PaintInv'
<1> SUFFICES ASSUME PaintInv, SetKey PROVE PaintInv'
  OBVIOUS
<1>1. /\ stack # << >> /\ Becomes(<< >>) /\ key' \in {focus, Null}
      /\ UNCHANGED <<state, focus, hover, click, timers, notify, nested>>
  BY DEF SetKey, At, AtOneOf, Running, Idle, tree, queues
<1>2. stack' \in Stacks /\ (~nested => StackLives(state, stack'))
  BY <1>1, EmptyGood, BecomesKeeps
<1> QED
  BY <1>1, <1>2, NullIsTarget
  DEF PaintInv, PaintType, Kept, Protected, Dead, Gone

LEMMA CaptureInv == PaintInv /\ Capture => PaintInv'
<1> SUFFICES ASSUME PaintInv, Capture PROVE PaintInv'
  OBVIOUS
<1>1. /\ stack # << >> /\ Becomes(<< >>)
      /\ UNCHANGED <<state, targets, timers, notify, nested>>
  BY DEF Capture, At, AtOneOf, Running, Idle, tree, queues
<1> QED BY <1>1, EmptyGood, GoingOnInv

---------------------------------------------------------------------------
\* The steps that change what controls there are.

\* The controls cs are deleted, in either way: what the destructors leave a
\* pointer to is still there.
LEMMA ReapKeeps ==
  ASSUME PaintInv, NEW cs, NEW how \in {"deleted", "destroyed"},
         state' = [x \in Controls |-> IF x \in cs THEN how ELSE state[x]],
         ReapObjects(cs)
  PROVE  /\ state' \in States
         /\ focus' \in Target /\ hover' \in Target /\ click' \in Target /\ key' \in Target
         /\ timers' \subseteq [sender : Controls, killed : BOOLEAN]
         /\ notify' \in Seq(Target)
         /\ Kept'
         /\ ~nested => ~Gone(state', hover') /\ ~Gone(state', click')
<1>1. state' \in States
  BY DEF PaintInv, PaintType, States
<1>2. /\ focus' \in Target /\ hover' \in Target /\ click' \in Target /\ key' \in Target
      /\ timers' \subseteq [sender : Controls, killed : BOOLEAN]
  BY NullIsTarget DEF ReapObjects, Forgotten, PaintInv, PaintType
<1>3. /\ notify' \in Seq(Target)
      /\ DOMAIN notify' = DOMAIN notify
      /\ \A i \in DOMAIN notify' : notify'[i] = Forgotten(notify[i], cs)
  <2>1. /\ DOMAIN notify = 1..Len(notify) /\ Len(notify) \in Nat
        /\ \A i \in DOMAIN notify : notify[i] \in Target
    BY LenProperties, ElementOfSeq DEF PaintInv, PaintType
  <2>2. \A i \in DOMAIN notify : Forgotten(notify[i], cs) \in Target
    BY <2>1, NullIsTarget DEF Forgotten
  <2> QED BY <2>1, <2>2 DEF ReapObjects
<1>4. ASSUME NEW x \in Target, ~Lost(state, x)
      PROVE  ~Lost(state', Forgotten(x, cs))
  BY <1>4 DEF Lost, Forgotten, Target
<1>5. ASSUME NEW x \in Target, ~Gone(state, x)
      PROVE  ~Gone(state', Forgotten(x, cs))
  BY <1>5 DEF Gone, Forgotten, Target
<1>6. Kept'
  <2>1. /\ focus' = Forgotten(focus, cs) /\ key' = Forgotten(key, cs)
        /\ timers' = {t \in timers : t.sender \notin cs}
    BY DEF ReapObjects
  <2>2. ~Dead(focus)' /\ ~Dead(key)'
    BY <1>4, <2>1 DEF PaintInv, PaintType, Kept, Dead, Lost
  <2>3. \A t \in timers' : ~Dead(t.sender)'
    BY <2>1 DEF PaintInv, PaintType, Kept, Dead
  <2>4. \A i \in DOMAIN notify' : ~Lost(state', notify'[i])
    <3> TAKE i \in DOMAIN notify'
    <3>1. /\ notify[i] \in Target /\ ~Lost(state, notify[i])
          /\ notify'[i] = Forgotten(notify[i], cs)
      <4>1. i \in 1..Len(notify)
        BY <1>3, LenProperties DEF PaintInv, PaintType
      <4>2. notify[i] \in Target
        BY <4>1, ElementOfSeq DEF PaintInv, PaintType
      <4> QED BY <1>3, <4>2 DEF PaintInv, Kept, Dead, Lost
    <3> QED BY <1>4, <3>1
  <2> QED BY <2>2, <2>3, <2>4 DEF Kept, Dead, Lost
<1>7. ASSUME ~nested PROVE ~Gone(state', hover') /\ ~Gone(state', click')
  <2>1. hover' = Forgotten(hover, cs) /\ click' = Forgotten(click, cs)
    BY DEF ReapObjects
  <2> QED BY <1>5, <1>7, <2>1 DEF PaintInv, PaintType, Protected
<1> QED BY <1>1, <1>2, <1>3, <1>6, <1>7

\* The outermost handler deletes, with nothing left to do with controls.
LEMMA CleanupInv == PaintInv /\ Cleanup => PaintInv'
<1> SUFFICES ASSUME PaintInv, Cleanup PROVE PaintInv'
  OBVIOUS
<1> DEFINE cs == Doomed(Removed)
<1>1. /\ stack # << >> /\ Now.op = "CLEANUP" /\ Becomes(<< >>)
      /\ state' = [x \in Controls |-> IF x \in cs THEN "deleted" ELSE state[x]]
      /\ ReapObjects(cs) /\ nested' = nested
  BY DEF Cleanup, At, AtOneOf, Running, Idle
<1> HIDE DEF cs
<1>2. stack' \in Stacks /\ (~nested => StackLives(state, stack'))
  BY <1>1, EmptyGood, BecomesKeeps
<1>3. /\ state' \in States
      /\ focus' \in Target /\ hover' \in Target /\ click' \in Target /\ key' \in Target
      /\ timers' \subseteq [sender : Controls, killed : BOOLEAN]
      /\ notify' \in Seq(Target)
      /\ Kept'
      /\ ~nested => ~Gone(state', hover') /\ ~Gone(state', click')
  BY <1>1, ReapKeeps
<1>8. ASSUME ~nested PROVE Protected'
  <2>2. ~Gone(state', hover') /\ ~Gone(state', click')
    BY <1>3, <1>8
  <2> DEFINE top == Head(stack)
             rest == Tail(top)
  <2>3. /\ Len(stack) \in Nat \ {0} /\ top = stack[1]
        /\ top \in Seq(Instruction) /\ top # << >> /\ Len(top) \in Nat \ {0}
        /\ top[1].op = "CLEANUP" /\ Tail(stack) \in Stacks /\ rest \in Seq(Instruction)
    BY <1>1, TopOfStack DEF PaintInv, PaintType, Now
  <2>4. /\ Len(rest) = Len(top) - 1
        /\ \A i \in 1..Len(rest) : rest[i] = top[i + 1]
    BY <2>3, HeadTailProperties
  <2> HIDE DEF top, rest
  <2>5. Settled(top) /\ Len(stack) = 1
    <3>1. 1 \in 1..Len(stack) /\ 1 \in 1..Len(top)
      BY <2>3
    <3>2. Settled(top) /\ (1 # Len(stack) => Quiet(top))
      BY <1>8, <2>3, <3>1 DEF PaintInv, Protected, StackLives
    <3>3. ~Quiet(top)
      BY <2>3, <3>1 DEF Quiet
    <3> QED BY <3>2, <3>3
  <2>6. \A i \in 1..Len(rest) : rest[i].who = Null
    <3> TAKE i \in 1..Len(rest)
    <3>1. i + 1 \in 1..Len(top) /\ 1 \in 1..Len(top) /\ 1 < i + 1
      BY <2>3, <2>4
    <3> QED BY <2>3, <2>4, <2>5, <3>1 DEF Settled
  <2>7. LiveProgram(state', rest)
    BY <2>6 DEF LiveProgram, Gone
  <2>8. Tail(stack) = << >>
    <3>1. Len(Tail(stack)) = 0
      BY <2>5, <1>1, HeadTailProperties DEF PaintInv, PaintType, Stacks
    <3> QED BY <2>3, <3>1, EmptySeq DEF Stacks
  <2>9. stack' = IF rest = << >> THEN << >> ELSE <<rest>> \o << >>
    <3>1. << >> \o rest = rest
      BY <2>3, ConcatEmptySeq
    <3>2. stack' = IF << >> \o rest = << >> THEN Tail(stack)
                   ELSE << << >> \o rest >> \o Tail(stack)
      BY <1>1 DEF Becomes, top, rest
    <3> QED BY <2>8, <3>1, <3>2
  <2>10. StackLives(state', stack')
    <3>1. CASE rest = << >>
      BY <2>9, <3>1, EmptySeq DEF StackLives
    <3>2. CASE rest # << >>
      <4>1. << >> \in Stacks /\ Len(<< >>) = 0
        BY EmptySeq DEF Stacks
      <4>2. Len(stack') = 1 /\ stack'[1] = rest
        BY <2>3, <2>9, <3>2, <4>1, PushType
      <4>3. Settled(rest)
        <5> SUFFICES ASSUME NEW i \in 1..Len(rest), NEW k \in 1..Len(rest)
                     PROVE  rest[k].who = Null
          BY DEF Settled
        <5> QED BY <2>6
      <4> QED BY <2>7, <4>2, <4>3 DEF StackLives
    <3> QED BY <3>1, <3>2
  <2> QED BY <2>2, <2>10 DEF Protected
<1> QED BY <1>1, <1>2, <1>3, <1>8 DEF PaintInv, PaintType

\* A dialog that is attached was not there before, and the old one only goes
\* with the next cleanup.
LEMMA AttachInv == PaintInv /\ Attach => PaintInv'
<1> SUFFICES ASSUME PaintInv, Attach PROVE PaintInv'
  OBVIOUS
<1>1. /\ stack # << >> /\ Becomes(<< >>)
      /\ hover' = Null /\ click' = Null /\ key' = Null
      /\ state' = [c \in Controls |-> CASE c = Now.who -> "in"
                                        [] c = root -> "removed"
                                        [] OTHER -> state[c]]
      /\ UNCHANGED <<focus, timers, notify, nested>>
  BY DEF Attach, At, AtOneOf, Running, Idle, queues
<1>2. stack' \in Stacks /\ (~nested => StackLives(state, stack'))
  BY <1>1, EmptyGood, BecomesKeeps
<1>3. /\ state' \in States
      /\ \A x \in Target : Gone(state', x) => Gone(state, x)
      /\ \A x \in Target : Lost(state', x) => Lost(state, x)
  BY <1>1 DEF PaintInv, PaintType, States, Gone, Lost, Target
<1>4. ~nested => StackLives(state', stack')
  BY <1>2, <1>3, FewerGone
<1>5. Kept'
  <2>1. \A i \in DOMAIN notify : notify[i] \in Target
    BY LenProperties, ElementOfSeq DEF PaintInv, PaintType
  <2> QED
    BY <1>1, <1>3, <2>1
    DEF PaintInv, PaintType, Kept, Dead, Lost, Target
<1> QED
  BY <1>1, <1>2, <1>3, <1>4, <1>5, NullIsTarget
  DEF PaintInv, PaintType, Protected, Dead, Gone

---------------------------------------------------------------------------
\* What the program does.

\* A message is dispatched: outside of handlers, or by one that is then nested.
LEMMA StartsKeeps ==
  ASSUME PaintInv, NEW message \in Operations, Starts(message),
         UNCHANGED <<state, targets, timers, notify>>
  PROVE  PaintInv'
<1>1. /\ stack' = <<Handler(message)>> \o stack
      /\ \/ stack = << >> /\ nested' = nested
         \/ nested' = TRUE
  BY DEF Starts, Idle
<1>2. ASSUME NEW s
      PROVE  /\ Handler(message) \in Seq(Instruction) /\ Handler(message) # << >>
             /\ LiveProgram(s, Handler(message)) /\ Settled(Handler(message))
  <2>1. CASE message # "CLEANUP"
    <3>1. Good(s, Handler(message)) /\ Handler(message) # << >>
      BY <2>1, HandlerGood
    <3> QED BY <3>1 DEF Good, Quiet, Settled
  <2>2. CASE message = "CLEANUP"
    <3> DEFINE p == <<Do("drain", Null), Do("CLEANUP", Null), Do("drain", Null)>>
    <3>1. /\ Do("drain", Null) \in Instruction /\ Do("CLEANUP", Null) \in Instruction
          /\ Do("drain", Null).who = Null /\ Do("CLEANUP", Null).who = Null
      BY NullIsTarget DEF Do, Instruction, Operations
    <3>2. /\ p \in Seq(Instruction) /\ Len(p) = 3
          /\ p[1] = Do("drain", Null) /\ p[2] = Do("CLEANUP", Null)
          /\ p[3] = Do("drain", Null)
      BY <3>1
    <3>3. <<Do("drain", Null), Do("CLEANUP", Null)>> \o <<Do("drain", Null)>> = p
      <4> DEFINE q == <<Do("drain", Null), Do("CLEANUP", Null)>>
                 r == <<Do("drain", Null)>>
      <4>1. /\ q \in Seq(Instruction) /\ Len(q) = 2
            /\ q[1] = Do("drain", Null) /\ q[2] = Do("CLEANUP", Null)
            /\ r \in Seq(Instruction) /\ Len(r) = 1 /\ r[1] = Do("drain", Null)
        BY <3>1
      <4> HIDE DEF p, q, r
      <4>2. /\ q \o r \in Seq(Instruction) /\ Len(q \o r) = 3
            /\ \A i \in 1..3 : (q \o r)[i] = IF i <= 2 THEN q[i] ELSE r[i - 2]
        <5>1. /\ q \o r \in Seq(Instruction) /\ Len(q \o r) = Len(q) + Len(r)
              /\ \A i \in 1..Len(q) + Len(r) :
                   (q \o r)[i] = IF i <= Len(q) THEN q[i] ELSE r[i - Len(q)]
          BY <4>1, ConcatProperties, Zenon
        <5> QED BY <4>1, <5>1
      <4>3. \A i \in 1..3 : (q \o r)[i] = p[i]
        <5>1. /\ (q \o r)[1] = q[1] /\ (q \o r)[2] = q[2] /\ (q \o r)[3] = r[1]
          BY <4>2
        <5>2. \A i \in 1..3 : i = 1 \/ i = 2 \/ i = 3
          OBVIOUS
        <5> QED BY <3>2, <4>1, <5>1, <5>2
      <4>4. q \o r = p
        BY <3>2, <4>2, <4>3, SeqEqual
      <4> QED BY <4>4 DEF q, r
    <3>4. Handler(message) = p
      BY <2>2, <3>3 DEF Handler
    <3> HIDE DEF p
    <3>5. \A i \in 1..Len(p) : p[i].who = Null
      BY <3>1, <3>2
    <3>6. p # << >>
      BY <3>2, EmptySeq
    <3> QED BY <3>2, <3>4, <3>5, <3>6 DEF LiveProgram, Settled, Gone
  <2> QED BY <2>1, <2>2
<1>3. /\ stack' \in Stacks
      /\ Len(stack') = Len(stack) + 1 /\ stack'[1] = Handler(message)
  BY <1>1, <1>2, PushType DEF PaintInv, PaintType
<1>4. ~nested' => StackLives(state, stack')
  <2> SUFFICES ASSUME ~nested' PROVE StackLives(state, stack')
    OBVIOUS
  <2>1. Len(stack') = 1
    BY <1>1, <1>3, EmptySeq
  <2>2. LiveProgram(state, Handler(message)) /\ Settled(Handler(message))
    BY <1>2
  <2>3. \A n \in 1..Len(stack') : n = 1
    BY <2>1
  <2> QED BY <1>3, <2>1, <2>2, <2>3 DEF StackLives
<1>5. nested' \in BOOLEAN /\ (~nested' => ~nested)
  BY <1>1 DEF PaintInv, PaintType
<1> QED
  BY <1>3, <1>4, <1>5 DEF PaintInv, PaintType, Kept, Protected, Dead, Gone, targets

LEMMA DispatchInv ==
  ASSUME PaintInv,
         DispatchCleanup \/ \E message \in Messages : Dispatch(message)
  PROVE  PaintInv'
<1>1. CASE DispatchCleanup
  BY <1>1, StartsKeeps DEF DispatchCleanup, Operations, queues
<1>2. CASE \E message \in Messages : Dispatch(message)
  <2>1. PICK message \in Messages : Dispatch(message)
    BY <1>2
  <2>2. message \in Operations
    BY DEF Messages, PointMessages, OtherMessages, Operations
  <2> QED BY <2>1, <2>2, StartsKeeps DEF Dispatch, tree, queues
<1> QED BY <1>1, <1>2

\* A program of its own, about a control that is there, on top of the others.
LEMMA CallKeeps ==
  ASSUME PaintInv, NEW p, stack' = <<p>> \o stack, p # << >>,
         Good(AllIn, p), Good(state, p),
         UNCHANGED <<state, targets, timers, notify, nested>>
  PROVE  PaintInv'
<1>1. stack' \in Stacks
  BY PushType DEF PaintInv, PaintType, Good
<1>2. ~nested => StackLives(state, stack')
  BY PushLives DEF PaintInv, PaintType, Protected
<1> QED
  BY <1>1, <1>2 DEF PaintInv, PaintType, Kept, Protected, Dead, Gone, targets

LEMMA CallSetFocusInv ==
  ASSUME NEW c \in Controls, PaintInv, CallSetFocus(c)
  PROVE  PaintInv'
<1>1. /\ stack' = << <<Do("focus", c)>> >> \o stack /\ Exists(c)
      /\ UNCHANGED <<state, targets, timers, notify, nested>>
  BY DEF CallSetFocus, tree, queues
<1>2. c \in Target /\ ~Gone(state, c) /\ ~Gone(AllIn, c)
  BY <1>1 DEF Target, Gone, Exists, AllIn
<1>3. Good(state, <<Do("focus", c)>>) /\ Good(AllIn, <<Do("focus", c)>>)
  BY <1>2, DoGood DEF Operations
<1>4. <<Do("focus", c)>> # << >>
  <2>1. Len(<<Do("focus", c)>>) = 1
    OBVIOUS
  <2> QED BY <2>1, EmptySeq
<1> QED BY <1>1, <1>3, <1>4, CallKeeps

LEMMA AttachDialogInv ==
  ASSUME NEW c \in Controls, PaintInv, AttachDialog(c)
  PROVE  PaintInv'
<1> DEFINE p == <<Do("focus", Null), Do("attach", c)>>
<1>1. /\ stack' = <<p>> \o stack /\ state[c] = "new"
      /\ UNCHANGED <<state, targets, timers, notify, nested>>
  BY DEF AttachDialog, tree, queues
<1>2. c \in Target /\ ~Gone(state, c) /\ ~Gone(AllIn, c)
  BY <1>1 DEF Target, Gone, AllIn
<1>3. ASSUME NEW s, ~Gone(s, c) PROVE Good(s, p)
  <2>1. Good(s, <<Do("focus", Null)>>) /\ Good(s, <<Do("attach", c)>>)
    BY <1>2, <1>3, DoGood, NullStays, NullIsTarget DEF Operations
  <2> QED BY <2>1, ListGood
<1>4. p # << >>
  <2>1. Len(p) = 2
    OBVIOUS
  <2> HIDE DEF p
  <2> QED BY <2>1, EmptySeq
<1> HIDE DEF p
<1> QED BY <1>1, <1>2, <1>3, <1>4, CallKeeps

\* Controls come and go, or are deleted at once, by no cleanup.
LEMMA AddRemoveInv ==
  ASSUME NEW c \in Controls, PaintInv, AddControl(c) \/ RemoveControl(c)
  PROVE  PaintInv'
<1>1. UNCHANGED <<stack, nested>>
  BY DEF AddControl, RemoveControl
<1>2. CASE /\ \/ state' = [state EXCEPT ![c] = "in"]
              \/ state' = [state EXCEPT ![c] = "removed"]
           /\ UNCHANGED <<targets, timers, notify>>
  <2>1. /\ state' \in States
        /\ \A x \in Target : Gone(state', x) => Gone(state, x)
        /\ \A x \in Target : Lost(state', x) => Lost(state, x)
    BY <1>2 DEF PaintInv, PaintType, States, Gone, Lost, Target
  <2>2. ~nested => StackLives(state', stack)
    BY <2>1, FewerGone DEF PaintInv, PaintType, Protected
  <2>3. \A i \in DOMAIN notify : notify[i] \in Target
    BY LenProperties, ElementOfSeq DEF PaintInv, PaintType
  <2>4. Kept'
    BY <1>2, <2>1, <2>3
    DEF PaintInv, PaintType, Kept, Dead, Lost, Target, targets
  <2>5. ~nested => ~Gone(state', hover') /\ ~Gone(state', click')
    BY <1>2, <2>1 DEF PaintInv, PaintType, Protected, targets
  <2> QED
    BY <1>1, <1>2, <2>1, <2>2, <2>4, <2>5 DEF PaintInv, PaintType, Protected, targets
<1>3. CASE DeleteControl(c)
  <2> DEFINE cs == Doomed({c})
  <2>1. /\ state' = [x \in Controls |-> IF x \in cs THEN "destroyed" ELSE state[x]]
        /\ ReapObjects(cs)
    BY <1>3 DEF DeleteControl
  <2> HIDE DEF cs
  <2>2. /\ state' \in States
        /\ focus' \in Target /\ hover' \in Target /\ click' \in Target /\ key' \in Target
        /\ timers' \subseteq [sender : Controls, killed : BOOLEAN]
        /\ notify' \in Seq(Target)
        /\ Kept'
        /\ ~nested => ~Gone(state', hover') /\ ~Gone(state', click')
    BY <2>1, ReapKeeps
  <2>3. \A x \in Target : Gone(state', x) => Gone(state, x)
    BY <2>1 DEF Gone, Target
  <2>4. ~nested => StackLives(state', stack)
    BY <2>3, FewerGone DEF PaintInv, PaintType, Protected
  <2> QED BY <1>1, <2>2, <2>4 DEF PaintInv, PaintType, Protected
<1> QED BY <1>2, <1>3 DEF AddControl, RemoveControl, AddDelayedCleanup, queues

LEMMA TimersInv ==
  ASSUME NEW c \in Controls, PaintInv, SetTimer(c) \/ KillTimer(c)
  PROVE  PaintInv'
<1>1. UNCHANGED <<state, targets, notify, stack, nested>>
  BY DEF SetTimer, KillTimer, tree
<1>2. timers' \subseteq timers \cup {TimerOf(c, FALSE), TimerOf(c, TRUE)}
  BY DEF SetTimer, KillTimer
<1>3. /\ TimerOf(c, FALSE).sender = c /\ TimerOf(c, TRUE).sender = c
      /\ TimerOf(c, FALSE) \in [sender : Controls, killed : BOOLEAN]
      /\ TimerOf(c, TRUE) \in [sender : Controls, killed : BOOLEAN]
  BY DEF TimerOf
<1>4. \A t \in timers : ~Dead(t.sender)
  BY DEF PaintInv, Kept
<1>5. ~Dead(c)
  <2>1. CASE SetTimer(c)
    BY <2>1 DEF SetTimer, Exists, Dead
  <2>2. CASE KillTimer(c)
    <3>1. TimerOf(c, FALSE) \in timers
      BY <2>2 DEF KillTimer
    <3> QED BY <1>3, <1>4, <3>1 DEF Dead
  <2> QED BY <2>1, <2>2
<1>6. timers' \subseteq [sender : Controls, killed : BOOLEAN]
  BY <1>2, <1>3 DEF PaintInv, PaintType
<1>7. \A t \in timers' : ~Dead(t.sender)
  BY <1>2, <1>3, <1>4, <1>5 DEF Dead
<1> QED
  BY <1>1, <1>6, <1>7 DEF PaintInv, PaintType, Kept, Protected, Dead, Gone, targets

LEMMA SendNotifyInv ==
  ASSUME NEW c \in Controls, PaintInv, SendNotify(c)
  PROVE  PaintInv'
<1>1. /\ UNCHANGED <<state, targets, timers, stack, nested>>
      /\ notify' = Append(notify, c) /\ ~Dead(c) /\ c \in Target
  BY DEF SendNotify, tree, Exists, Dead, Target
<1>2. /\ notify \in Seq(Target) /\ DOMAIN notify = 1..Len(notify) /\ Len(notify) \in Nat
      /\ \A i \in DOMAIN notify : ~Dead(notify[i])
  BY LenProperties DEF PaintInv, PaintType, Kept
<1>3. /\ notify' \in Seq(Target)
      /\ DOMAIN notify' = 1..(Len(notify) + 1)
      /\ \A i \in 1..Len(notify) : notify'[i] = notify[i]
      /\ notify'[Len(notify) + 1] = c
  BY <1>1, <1>2, AppendProperties, LenProperties
<1>4. \A i \in DOMAIN notify' : ~Dead(notify'[i])
  BY <1>1, <1>2, <1>3
<1> QED
  BY <1>1, <1>3, <1>4 DEF PaintInv, PaintType, Kept, Protected, Dead, Gone, targets

---------------------------------------------------------------------------
LEMMA InitInv == Init => PaintInv
<1> SUFFICES ASSUME Init PROVE PaintInv
  OBVIOUS
<1>1. /\ << >> \in Seq(Target) /\ << >> \in Stacks /\ Len(<< >>) = 0 /\ 1..0 = {}
      /\ DOMAIN << >> = {}
  BY EmptySeq DEF Stacks
<1>2. state \in States /\ \A x \in Target : ~Dead(x)
  BY DEF Init, States, Dead, Target
<1>3. PaintType
  BY <1>1, <1>2, NullIsTarget DEF Init, PaintType
<1>4. Kept
  BY <1>1, <1>2, NullIsTarget DEF Init, Kept
<1>5. Protected
  BY <1>1, <1>2, NullIsTarget DEF Init, Protected, StackLives, Gone
<1> QED BY <1>3, <1>4, <1>5 DEF PaintInv

LEMMA StepInv == PaintInv /\ Step => PaintInv' \/ Stuck'
BY ToldInv, DrainInv, PointInv, ReactInv, MoveInv, TimerInv, GoOnInv, TakeFocusInv,
   UnfocusInv, SetHoverInv, SetClickInv, SetKeyInv, CaptureInv, CleanupInv, AttachInv
   DEF Step

LEMMA ProgramInv == PaintInv /\ Program => PaintInv'
<1> SUFFICES ASSUME PaintInv, Program PROVE PaintInv'
  OBVIOUS
<1>1. CASE DispatchCleanup \/ \E message \in Messages : Dispatch(message)
  BY <1>1, DispatchInv
<1>2. CASE \E c \in Controls :
             RemoveControl(c) \/ AddControl(c) \/ CallSetFocus(c) \/ AttachDialog(c)
  BY <1>2, AddRemoveInv, CallSetFocusInv, AttachDialogInv
<1>3. CASE \E c \in Busy : SetTimer(c) \/ KillTimer(c) \/ SendNotify(c)
  <2>1. PICK c \in Controls : SetTimer(c) \/ KillTimer(c) \/ SendNotify(c)
    BY <1>3, PaintManagerAssumption DEF PaintManagerAssumption
  <2> QED BY <2>1, TimersInv, SendNotifyInv
<1> QED BY <1>1, <1>2, <1>3 DEF Program

\* Nothing is said of what the program does once it calls a deleted control.
LEMMA StuckStops == Stuck => ~Next
<1> SUFFICES ASSUME Stuck, Next PROVE FALSE
  OBVIOUS
<1>1. /\ focus \in Controls /\ Dead(focus) /\ stack # << >>
      /\ Now = Do("tell", focus) /\ Now.op = "tell"
  BY DEF Stuck, PaintType, Target, Dead, Tell, Do
<1>2. focus \in Misused
  BY <1>1 DEF Misused
<1>3. ~Running /\ ~Idle
  BY <1>1, <1>2 DEF Running, Idle
<1>4. ~Telling /\ \A ops : ~AtOneOf(ops)
  BY <1>3 DEF Telling, At, AtOneOf
<1>5. ~Step
  BY <1>4 DEF Step, At, Told, Drain, Point, React, Move, Timer, GoOn, TakeFocus, Unfocus,
     SetHover, SetClick, SetKey, Capture, Cleanup, Attach
<1>6. ~Call /\ \A message : ~Starts(message)
  BY <1>3, <1>4 DEF Call, Starts
<1>7. ~Program
  BY <1>6 DEF Program, Dispatch, DispatchCleanup, RemoveControl, AddControl, CallSetFocus,
     AttachDialog, SetTimer, KillTimer, SendNotify
<1> QED BY <1>5, <1>7 DEF Next

LEMMA NextInv == PaintInv /\ [Next]_vars => PaintInv' \/ Stuck'
<1>1. ASSUME PaintInv, UNCHANGED vars PROVE PaintInv'
  BY <1>1
  DEF vars, PaintInv, PaintType, Kept, Protected, Dead, Gone
<1> QED BY <1>1, StepInv, ProgramInv DEF Next

LEMMA StuckInv == Stuck /\ [Next]_vars => Stuck'
<1>1. ASSUME Stuck, UNCHANGED vars PROVE Stuck'
  BY <1>1
  DEF vars, Stuck, PaintType, KeptButFocus, Protected, Dead, Gone, Now
<1> QED BY <1>1, StuckStops

LEMMA SpecInv == Spec => [](PaintInv \/ Stuck)
BY InitInv, NextInv, StuckInv, PTL DEF Spec

---------------------------------------------------------------------------
\* What ReapObjects is for: in whatever order controls are removed and deleted,
\* no pointer that is kept between messages and that nothing else clears is
\* left to a control that is deleted (UIManager.cpp:1137-1152), but for the
\* focus while SetFocus() is about to call it.
THEOREM PaintKeptTargetsLive == Spec => []KeptTargetsLive
<1>1. PaintInv => KeptTargetsLive
  BY DEF PaintInv, Kept, KeptTargetsLive
<1>2. ASSUME Stuck PROVE KeptTargetsLive
  <2>1. focus \in Controls /\ Now = Do("tell", focus) /\ Now.op = "tell"
    BY <1>2 DEF Stuck, PaintType, Target, Dead, Tell, Do
  <2>2. focus \in Misused
    BY <1>2, <2>1 DEF Misused, Stuck
  <2> QED BY <1>2, <2>2 DEF Stuck, KeptButFocus, KeptTargetsLive
<1> QED BY <1>1, <1>2, SpecInv, PTL

\* What the delayed cleanup is for: handlers that dispatch no messages may
\* remove any control at any time, and nothing that waits for the cleanup is
\* used after it was deleted (UIManager.cpp:556-562, 1103-1126, 1503-1508).
THEOREM PaintDelayProtects == Spec => []DelayProtects
<1>1. ASSUME PaintType, ~nested, Protected
      PROVE  /\ \A c \in Misused : state[c] = "destroyed"
             /\ \A c \in {hover, click} : Dead(c) => state[c] = "destroyed"
  <2>1. \A c \in {hover, click} : Dead(c) => state[c] = "destroyed"
    BY <1>1 DEF Protected, Dead, Gone
  <2>2. ASSUME NEW c \in Misused PROVE state[c] = "destroyed"
    <3>1. stack # << >> /\ Now = Do(Now.op, c) /\ Dead(c)
      BY <2>2 DEF Misused
    <3>2. Now.who = c
      BY <3>1 DEF Do
    <3>3. /\ Now = stack[1][1] /\ 1 \in 1..Len(stack) /\ 1 \in 1..Len(stack[1])
      BY <1>1, <3>1, TopOfStack DEF PaintType, Now
    <3>4. ~Gone(state, Now.who)
      BY <1>1, <3>3 DEF Protected, StackLives, LiveProgram
    <3> QED BY <3>1, <3>2, <3>4 DEF Gone, Dead
  <2> QED BY <2>1, <2>2
<1>2. PaintInv \/ Stuck => DelayProtects
  BY <1>1 DEF DelayProtects, PaintInv, Stuck
<1> QED BY <1>2, SpecInv, PTL

---------------------------------------------------------------------------
(* The mouse.  CaptureIsReleased speaks of the time between two messages;  *)
(* the invariant has to say what the handlers that run are still to do     *)
(* with m_pEventClick and with the capture (Plan), in which order (Tidy),  *)
(* and how that agrees with the two of them (Matched).                     *)

MouseMessages == {"LBUTTONDOWN", "LBUTTONDBLCLK", "RBUTTONDOWN", "LBUTTONUP", "CONTEXTMENU"}
MouseOps == MouseMessages \cup {"click", "capture", "release"}

Calm(p) == \A i \in 1..Len(p) : p[i].op \notin MouseOps

\* A program that has nothing to do with the mouse.
Soft(p) == p \in Seq(Instruction) /\ Calm(p)

\* Nothing of the mouse comes after a message of the mouse, and no release
\* after a change of m_pEventClick.
Tidy(p) ==
  /\ p \in Seq(Instruction)
  /\ \A i, k \in 1..Len(p) :
       i < k => /\ p[i].op \in MouseMessages => p[k].op \notin MouseOps
                /\ p[i].op = "click" => p[k].op # "release"

\* Only the outermost handler has to do with the mouse.
TidyStack(st) ==
  \A n \in 1..Len(st) : Tidy(st[n]) /\ (n # Len(st) => Calm(st[n]))

\* What a handler, and the handlers of a stack, are still to do with the mouse.
PlanOf(p) == {x \in Instruction : x.op \in MouseOps /\ \E i \in 1..Len(p) : p[i] = x}
Plan(st) == UNION {PlanOf(st[n]) : n \in 1..Len(st)}

\* Is op planned, a click, the end of a click?
Plans(plan, op) == \E x \in plan : x.op = op
Clicks(plan) == \E x \in plan : x.op = "click" /\ x.who # Null
Unclicks(plan) == \E x \in plan : x.op = "click" /\ x.who = Null

\* The mouse is captured if cap, x is clicked, what was clicked is gone if ber.
\* Whoever captured the mouse, or is about to, has clicked something or will;
\* whoever is to clear m_pEventClick has released the mouse or will first.
Matched(cap, x, ber, plan) ==
  /\ cap \/ Plans(plan, "capture") => x # Null \/ ber \/ Clicks(plan)
  /\ Unclicks(plan) => ~cap \/ Plans(plan, "release")
  /\ Plans(plan, "capture") => ~Plans(plan, "release") /\ ~Unclicks(plan)

MouseInv ==
  ~nested => TidyStack(stack) /\ Matched(captured, click, bereft, Plan(stack))

---------------------------------------------------------------------------
\* Programs and the mouse.

LEMMA DoSoft ==
  ASSUME NEW op \in Operations \ MouseOps, NEW x \in Target
  PROVE  Soft(<<Do(op, x)>>)
<1>1. Do(op, x) \in Instruction /\ Do(op, x).op = op
  BY DEF Do, Instruction
<1> DEFINE p == <<Do(op, x)>>
<1>2. p \in Seq(Instruction) /\ Len(p) = 1 /\ p[1] = Do(op, x)
  BY <1>1
<1> HIDE DEF p
<1>3. \A i \in 1..Len(p) : i = 1
  BY <1>2
<1>4. Soft(p)
  BY <1>1, <1>2, <1>3 DEF Soft, Calm
<1> QED BY <1>4 DEF p

LEMMA EmptySoft == Soft(<< >>)
<1>1. << >> \in Seq(Instruction) /\ Len(<< >>) = 0 /\ 1..0 = {}
  BY EmptySeq
<1> QED BY <1>1 DEF Soft, Calm

\* What p \o q is made of.
LEMMA ConcatShape ==
  ASSUME NEW p \in Seq(Instruction), NEW q \in Seq(Instruction)
  PROVE  /\ p \o q \in Seq(Instruction)
         /\ Len(p) \in Nat /\ Len(q) \in Nat /\ Len(p \o q) = Len(p) + Len(q)
         /\ \A i \in 1..Len(p) : i \in 1..Len(p \o q) /\ (p \o q)[i] = p[i]
         /\ \A i \in 1..Len(q) : i + Len(p) \in 1..Len(p \o q) /\ (p \o q)[i + Len(p)] = q[i]
         /\ \A i \in 1..Len(p \o q) :
              i \in 1..Len(p) \/ (i - Len(p) \in 1..Len(q) /\ i > Len(p))
<1>1. Len(p) \in Nat /\ Len(q) \in Nat
  BY LenProperties
<1>2. /\ p \o q \in Seq(Instruction)
      /\ Len(p \o q) = Len(p) + Len(q)
      /\ \A i \in 1..(Len(p) + Len(q)) :
           (p \o q)[i] = IF i <= Len(p) THEN p[i] ELSE q[i - Len(p)]
  BY ConcatProperties
<1>3. ASSUME NEW i \in 1..Len(q)
      PROVE  i + Len(p) \in 1..Len(p \o q) /\ (p \o q)[i + Len(p)] = q[i]
  <2>1. i + Len(p) \in 1..(Len(p) + Len(q)) /\ ~(i + Len(p) <= Len(p))
        /\ (i + Len(p)) - Len(p) = i
    BY <1>1
  <2> QED BY <1>2, <2>1
<1> QED BY <1>1, <1>2, <1>3

LEMMA ConcatSoft ==
  ASSUME NEW p, NEW q, Soft(p), Soft(q)
  PROVE  Soft(p \o q)
<1>1. p \in Seq(Instruction) /\ q \in Seq(Instruction)
  BY DEF Soft
<1>2. ASSUME NEW i \in 1..Len(p \o q) PROVE (p \o q)[i].op \notin MouseOps
  <2>1. CASE i \in 1..Len(p)
    BY <1>1, <2>1, ConcatShape DEF Soft, Calm
  <2>2. CASE i - Len(p) \in 1..Len(q) /\ i > Len(p)
    <3>1. (i - Len(p)) + Len(p) = i
      BY <1>1, ConcatShape
    <3>2. (p \o q)[i] = q[i - Len(p)]
      BY <1>1, <2>2, <3>1, ConcatShape
    <3> QED BY <2>2, <3>2 DEF Soft, Calm
  <2> QED BY <1>1, <2>1, <2>2, ConcatShape
<1> QED BY <1>1, <1>2, ConcatShape DEF Soft, Calm

\* Before and after what has to do with the mouse the rest does not matter.
LEMMA ConcatTidy ==
  ASSUME NEW p, NEW q, Tidy(p), Tidy(q), Calm(p) \/ Calm(q)
  PROVE  Tidy(p \o q) /\ PlanOf(p \o q) = PlanOf(p) \cup PlanOf(q)
<1> DEFINE r == p \o q
<1>1. p \in Seq(Instruction) /\ q \in Seq(Instruction)
  BY DEF Tidy
<1>2. /\ r \in Seq(Instruction)
      /\ Len(p) \in Nat /\ Len(q) \in Nat /\ Len(r) = Len(p) + Len(q)
      /\ \A i \in 1..Len(p) : i \in 1..Len(r) /\ r[i] = p[i]
      /\ \A i \in 1..Len(q) : i + Len(p) \in 1..Len(r) /\ r[i + Len(p)] = q[i]
      /\ \A i \in 1..Len(r) : i \in 1..Len(p) \/ (i - Len(p) \in 1..Len(q) /\ i > Len(p))
  BY <1>1, ConcatShape
<1> HIDE DEF r
<1>3. \A i \in 1..Len(r) : i > Len(p) => r[i] = q[i - Len(p)] /\ i - Len(p) \in 1..Len(q)
  <2> TAKE i \in 1..Len(r)
  <2> HAVE i > Len(p)
  <2>1. i - Len(p) \in 1..Len(q) /\ (i - Len(p)) + Len(p) = i
    BY <1>2
  <2> QED BY <1>2, <2>1
<1>4. ASSUME NEW i \in 1..Len(r), NEW k \in 1..Len(r), i < k
      PROVE  /\ r[i].op \in MouseMessages => r[k].op \notin MouseOps
             /\ r[i].op = "click" => r[k].op # "release"
  <2>1. CASE k \in 1..Len(p)
    <3>1. i \in 1..Len(p) /\ r[i] = p[i] /\ r[k] = p[k]
      BY <1>2, <1>4, <2>1
    <3> QED BY <1>4, <2>1, <3>1 DEF Tidy
  <2>2. CASE k > Len(p) /\ i > Len(p)
    <3>1. /\ i - Len(p) \in 1..Len(q) /\ k - Len(p) \in 1..Len(q)
          /\ i - Len(p) < k - Len(p)
          /\ r[i] = q[i - Len(p)] /\ r[k] = q[k - Len(p)]
      BY <1>2, <1>3, <1>4, <2>2
    <3> QED BY <3>1 DEF Tidy
  <2>3. CASE k > Len(p) /\ i \in 1..Len(p)
    <3>1. k - Len(p) \in 1..Len(q) /\ r[i] = p[i] /\ r[k] = q[k - Len(p)]
      BY <1>2, <1>3, <2>3
    <3>2. r[i].op \notin MouseOps \/ r[k].op \notin MouseOps
      BY <2>3, <3>1 DEF Calm
    <3> QED BY <3>2 DEF MouseOps
  <2> QED BY <1>2, <2>1, <2>2, <2>3
<1>5. Tidy(r)
  BY <1>2, <1>4 DEF Tidy
<1>6. \A x : (\E i \in 1..Len(r) : r[i] = x)
               <=> (\E i \in 1..Len(p) : p[i] = x) \/ (\E i \in 1..Len(q) : q[i] = x)
  BY <1>2, <1>3
<1>7. PlanOf(r) = PlanOf(p) \cup PlanOf(q)
  BY <1>6 DEF PlanOf
<1> QED BY <1>5, <1>7 DEF r

LEMMA SoftTidy ==
  ASSUME NEW p, Soft(p)
  PROVE  Tidy(p) /\ PlanOf(p) = {}
BY DEF Soft, Calm, Tidy, PlanOf, MouseOps

\* What is left of a program when its first instruction is done.
LEMMA TailTidy ==
  ASSUME NEW p, Tidy(p), p # << >>
  PROVE  /\ Tidy(Tail(p))
         /\ PlanOf(Tail(p)) \subseteq PlanOf(p)
         /\ PlanOf(p) \subseteq PlanOf(Tail(p)) \cup {Head(p)}
         /\ Calm(p) => Calm(Tail(p))
         /\ Head(p).op \in MouseMessages => Calm(Tail(p))
         /\ Head(p).op = "click" => ~Plans(PlanOf(Tail(p)), "release")
<1> DEFINE t == Tail(p)
<1>1. /\ p \in Seq(Instruction) /\ Len(p) \in Nat /\ Len(p) # 0
      /\ t \in Seq(Instruction) /\ Len(t) = Len(p) - 1
      /\ \A i \in 1..Len(t) : t[i] = p[i + 1]
      /\ Head(p) = p[1]
  BY HeadTailProperties, LenProperties, EmptySeq DEF Tidy
<1> HIDE DEF t
<1>2. /\ 1 \in 1..Len(p)
      /\ \A i \in 1..Len(t) : i + 1 \in 1..Len(p) /\ 1 < i + 1
  BY <1>1
<1>3. Tidy(t)
  <2> SUFFICES ASSUME NEW i \in 1..Len(t), NEW k \in 1..Len(t), i < k
               PROVE  /\ t[i].op \in MouseMessages => t[k].op \notin MouseOps
                      /\ t[i].op = "click" => t[k].op # "release"
    BY <1>1 DEF Tidy
  <2>1. i + 1 \in 1..Len(p) /\ k + 1 \in 1..Len(p) /\ i + 1 < k + 1
    BY <1>2
  <2>2. t[i] = p[i + 1] /\ t[k] = p[k + 1]
    BY <1>1
  <2> QED BY <2>1, <2>2 DEF Tidy
<1>4. PlanOf(t) \subseteq PlanOf(p)
  BY <1>1, <1>2 DEF PlanOf
<1>5. PlanOf(p) \subseteq PlanOf(t) \cup {Head(p)}
  <2> SUFFICES ASSUME NEW x \in PlanOf(p), x # Head(p) PROVE x \in PlanOf(t)
    OBVIOUS
  <2>1. PICK i \in 1..Len(p) : p[i] = x
    BY DEF PlanOf
  <2>2. i - 1 \in 1..Len(t) /\ (i - 1) + 1 = i
    BY <1>1, <2>1
  <2>3. t[i - 1] = x
    BY <1>1, <2>1, <2>2
  <2> QED BY <2>2, <2>3 DEF PlanOf
<1>6. Calm(p) => Calm(t)
  BY <1>1, <1>2 DEF Calm
<1>7. Head(p).op \in MouseMessages => Calm(t)
  BY <1>1, <1>2 DEF Calm, Tidy
<1>8. Head(p).op = "click" => ~Plans(PlanOf(t), "release")
  BY <1>1, <1>2 DEF Plans, PlanOf, Tidy
<1> QED BY <1>3, <1>4, <1>5, <1>6, <1>7, <1>8 DEF t

---------------------------------------------------------------------------
\* Stacks and the mouse.

\* The handlers of r are those of st, with left in place of the innermost one.
Replaced(st, left, r) ==
  /\ \A n \in 1..Len(r) :
       \/ r[n] = left /\ (n # Len(r) => Len(st) # 1)
       \/ \E m \in 2..Len(st) : r[n] = st[m] /\ (n # Len(r) => m # Len(st))
  /\ left # << >> => \E n \in 1..Len(r) : r[n] = left
  /\ \A m \in 2..Len(st) : \E n \in 1..Len(r) : r[n] = st[m]

\* The handlers there are when the innermost one goes on.
LEMMA GoesOnHandlers ==
  ASSUME NEW st \in Stacks, st # << >>, NEW p \in Seq(Instruction),
         NEW left, left = p \o Tail(Head(st)), NEW r, r = GoesOn(st, p)
  PROVE  Replaced(st, left, r)
<1> DEFINE rest == Tail(st)
<1>1. /\ Len(st) \in Nat \ {0} /\ rest \in Stacks
      /\ Tail(Head(st)) \in Seq(Instruction)
  BY TopOfStack
<1>2. /\ Len(rest) = Len(st) - 1
      /\ \A n \in 1..Len(rest) : rest[n] = st[n + 1]
  BY HeadTailProperties DEF Stacks
<1>3. left \in Seq(Instruction)
  BY <1>1, ConcatProperties
<1>4. r = IF left = << >> THEN rest ELSE <<left>> \o rest
  BY DEF GoesOn
<1> HIDE DEF rest
<1>5. \A m \in 2..Len(st) : m - 1 \in 1..Len(rest) /\ rest[m - 1] = st[m]
  BY <1>1, <1>2
<1>6. \A n \in 1..Len(rest) : n + 1 \in 2..Len(st) /\ rest[n] = st[n + 1]
  BY <1>1, <1>2
<1>7. CASE left = << >>
  <2>1. r = rest
    BY <1>4, <1>7
  <2>2. \A n \in 1..Len(r) : n # Len(r) => n + 1 # Len(st)
    BY <1>1, <1>2, <2>1
  <2>3. ASSUME NEW n \in 1..Len(r)
        PROVE  \E m \in 2..Len(st) : r[n] = st[m] /\ (n # Len(r) => m # Len(st))
    BY <1>6, <2>1, <2>2
  <2>4. ASSUME NEW m \in 2..Len(st) PROVE \E n \in 1..Len(r) : r[n] = st[m]
    BY <1>5, <2>1
  <2> QED BY <1>7, <2>3, <2>4 DEF Replaced
<1>8. CASE left # << >>
  <2>1. /\ Len(r) = Len(rest) + 1 /\ r[1] = left
        /\ \A n \in 1..Len(rest) : r[n + 1] = rest[n]
    <3>1. /\ Len(<<left>> \o rest) = Len(rest) + 1 /\ (<<left>> \o rest)[1] = left
          /\ \A n \in 1..Len(rest) : (<<left>> \o rest)[n + 1] = rest[n]
      BY <1>1, <1>3, <1>8, PushType
    <3> QED BY <1>4, <1>8, <3>1
  <2>2. 1 \in 1..Len(r) /\ (1 # Len(r) => Len(st) # 1)
    BY <1>1, <1>2, <2>1
  <2>3. ASSUME NEW n \in 1..Len(r), n # 1
        PROVE  \E m \in 2..Len(st) : r[n] = st[m] /\ (n # Len(r) => m # Len(st))
    <3>1. /\ n - 1 \in 1..Len(rest) /\ (n - 1) + 1 = n
          /\ n \in 2..Len(st) /\ (n # Len(r) => n # Len(st))
      BY <1>1, <1>2, <2>1, <2>3
    <3>2. r[n] = st[n]
      BY <1>6, <2>1, <3>1
    <3> QED BY <3>1, <3>2
  <2>4. ASSUME NEW m \in 2..Len(st)
        PROVE  m \in 1..Len(r) /\ r[m] = st[m]
    <3>1. m - 1 \in 1..Len(rest) /\ (m - 1) + 1 = m /\ m \in 1..Len(r)
      BY <1>1, <1>2, <2>1
    <3> QED BY <1>5, <2>1, <3>1
  <2>5. \A n \in 1..Len(r) :
           \/ r[n] = left /\ (n # Len(r) => Len(st) # 1)
           \/ \E m \in 2..Len(st) : r[n] = st[m] /\ (n # Len(r) => m # Len(st))
    BY <2>1, <2>2, <2>3
  <2> QED BY <2>1, <2>2, <2>4, <2>5 DEF Replaced
<1> QED BY <1>7, <1>8

\* The innermost handler goes on with p: what is left of it, and what becomes
\* of the stack if that is tidy.
LEMMA PlanGoesOn ==
  ASSUME NEW st \in Stacks, st # << >>, TidyStack(st), NEW p \in Seq(Instruction),
         Tidy(p), Calm(p) \/ Calm(Tail(Head(st))), Calm(p) \/ Len(st) = 1
  PROVE  /\ TidyStack(GoesOn(st, p))
         /\ Plan(GoesOn(st, p))
              = PlanOf(p) \cup PlanOf(Tail(Head(st))) \cup UNION {PlanOf(st[m]) : m \in 2..Len(st)}
<1> DEFINE left == p \o Tail(Head(st))
           r == GoesOn(st, p)
<1>1. /\ Len(st) \in Nat \ {0} /\ Head(st) = st[1] /\ Head(st) # << >>
      /\ Tail(Head(st)) \in Seq(Instruction) /\ 1 \in 1..Len(st)
  BY TopOfStack
<1>2. Tidy(Head(st)) /\ (Len(st) # 1 => Calm(Head(st)))
  BY <1>1 DEF TidyStack
<1>3. Tidy(Tail(Head(st))) /\ (Len(st) # 1 => Calm(Tail(Head(st))))
  BY <1>1, <1>2, TailTidy
<1>4. Tidy(left) /\ PlanOf(left) = PlanOf(p) \cup PlanOf(Tail(Head(st)))
  BY <1>3, ConcatTidy
<1>5. Len(st) # 1 => Calm(left)
  <2>1. Len(st) # 1 => Soft(p) /\ Soft(Tail(Head(st)))
    BY <1>1, <1>3 DEF Soft
  <2>2. Len(st) # 1 => Soft(left)
    BY <2>1, ConcatSoft
  <2> QED BY <2>2 DEF Soft
<1>6. left # << >> \/ PlanOf(left) = {}
  BY EmptySoft, SoftTidy
<1>7. Replaced(st, left, r)
  BY GoesOnHandlers
<1> HIDE DEF left, r
<1>8. \A m \in 2..Len(st) : Tidy(st[m]) /\ (m # Len(st) => Calm(st[m]))
  BY <1>1 DEF TidyStack
<1>9. TidyStack(r)
  BY <1>4, <1>5, <1>7, <1>8 DEF TidyStack, Replaced
<1>10. Plan(r) = PlanOf(left) \cup UNION {PlanOf(st[m]) : m \in 2..Len(st)}
  <2>1. Plan(r) \subseteq PlanOf(left) \cup UNION {PlanOf(st[m]) : m \in 2..Len(st)}
    BY <1>7 DEF Plan, Replaced
  <2>2. PlanOf(left) \subseteq Plan(r)
    BY <1>6, <1>7 DEF Plan, Replaced
  <2>3. \A m \in 2..Len(st) : PlanOf(st[m]) \subseteq Plan(r)
    BY <1>7 DEF Plan, Replaced
  <2> QED BY <2>1, <2>2, <2>3
<1> QED BY <1>4, <1>9, <1>10 DEF r

\* What is planned when the next instruction is not looked at.
LEMMA PlanOfStack ==
  ASSUME NEW st \in Stacks, st # << >>, TidyStack(st)
  PROVE  /\ Plan(st) = PlanOf(Head(st)) \cup UNION {PlanOf(st[m]) : m \in 2..Len(st)}
         /\ Head(Head(st)).op \in MouseOps =>
              /\ Len(st) = 1 /\ 2..Len(st) = {}
              /\ Head(Head(st)) \in Plan(st) /\ Plan(st) = PlanOf(Head(st))
<1>1. /\ Len(st) \in Nat \ {0} /\ Head(st) = st[1]
      /\ Len(Head(st)) \in Nat \ {0}
      /\ Head(Head(st)) = Head(st)[1] /\ Head(Head(st)) \in Instruction
  BY TopOfStack
<1>2. Plan(st) = PlanOf(st[1]) \cup UNION {PlanOf(st[m]) : m \in 2..Len(st)}
  <2>1. 1..Len(st) = {1} \cup 2..Len(st)
    BY <1>1
  <2> QED BY <2>1 DEF Plan
<1>3. ASSUME Head(Head(st)).op \in MouseOps PROVE Len(st) = 1
  <2>1. ~Calm(st[1])
    BY <1>1, <1>3 DEF Calm
  <2>2. 1 \in 1..Len(st)
    BY <1>1
  <2>3. 1 # Len(st) => Calm(st[1])
    BY <2>2 DEF TidyStack
  <2> QED BY <2>1, <2>3
<1>4. ASSUME Head(Head(st)).op \in MouseOps PROVE Head(Head(st)) \in PlanOf(Head(st))
  BY <1>1, <1>4 DEF PlanOf
<1>5. Len(st) = 1 => 2..Len(st) = {}
  OBVIOUS
<1> QED BY <1>1, <1>2, <1>3, <1>4, <1>5

\* One instruction is done, and what comes instead has nothing to do with the
\* mouse.
LEMMA SoftGoesOn ==
  ASSUME NEW st \in Stacks, st # << >>, TidyStack(st), NEW p, Soft(p)
  PROVE  /\ TidyStack(GoesOn(st, p))
         /\ Plan(GoesOn(st, p)) \subseteq Plan(st)
         /\ Plan(st) \subseteq Plan(GoesOn(st, p)) \cup {Head(Head(st))}
         /\ Head(Head(st)).op \notin MouseOps => Plan(GoesOn(st, p)) = Plan(st)
         /\ Head(Head(st)).op = "click" => ~Plans(Plan(GoesOn(st, p)), "release")
<1> DEFINE others == UNION {PlanOf(st[m]) : m \in 2..Len(st)}
           top == Head(st)
<1>1. p \in Seq(Instruction) /\ Calm(p) /\ Tidy(p) /\ PlanOf(p) = {}
  BY SoftTidy DEF Soft
<1>2. TidyStack(GoesOn(st, p)) /\ Plan(GoesOn(st, p)) = PlanOf(Tail(top)) \cup others
  BY <1>1, PlanGoesOn
<1>3. /\ Plan(st) = PlanOf(top) \cup others
      /\ Head(top).op \in MouseOps => others = {}
  BY PlanOfStack
<1>4. Len(st) \in Nat \ {0} /\ top = st[1] /\ top # << >> /\ Head(top) \in Instruction
  BY TopOfStack
<1>5. Tidy(top)
  BY <1>4 DEF TidyStack
<1>6. /\ PlanOf(Tail(top)) \subseteq PlanOf(top)
      /\ PlanOf(top) \subseteq PlanOf(Tail(top)) \cup {Head(top)}
      /\ Head(top).op = "click" => ~Plans(PlanOf(Tail(top)), "release")
  BY <1>4, <1>5, TailTidy
<1>7. Head(top).op \notin MouseOps => Head(top) \notin PlanOf(top)
  BY DEF PlanOf
<1> HIDE DEF others, top
<1>8. Head(top).op \notin MouseOps => PlanOf(Tail(top)) = PlanOf(top)
  BY <1>6, <1>7
<1>9. Head(top).op = "click" => Head(top).op \in MouseOps
  BY DEF MouseOps
<1>10. Head(top).op = "click" => ~Plans(Plan(GoesOn(st, p)), "release")
  <2> SUFFICES ASSUME Head(top).op = "click"
               PROVE  ~Plans(Plan(GoesOn(st, p)), "release")
    OBVIOUS
  <2>1. Plan(GoesOn(st, p)) = PlanOf(Tail(top))
    BY <1>2, <1>3, <1>9
  <2> QED BY <1>6, <2>1
<1> QED BY <1>2, <1>3, <1>6, <1>8, <1>10 DEF top

\* A message of the mouse is handled, with nothing else planned.
LEMMA TidyGoesOn ==
  ASSUME NEW st \in Stacks, st # << >>, TidyStack(st),
         Head(Head(st)).op \in MouseMessages, NEW p, Tidy(p)
  PROVE  TidyStack(GoesOn(st, p)) /\ Plan(GoesOn(st, p)) = PlanOf(p)
<1>1. Len(st) = 1 /\ 2..Len(st) = {}
  BY PlanOfStack DEF MouseOps
<1>2. Head(st) = st[1] /\ Head(st) # << >> /\ Tail(Head(st)) \in Seq(Instruction)
  BY TopOfStack
<1>3. Tidy(Head(st))
  BY <1>1, <1>2 DEF TidyStack
<1>4. Calm(Tail(Head(st))) /\ p \in Seq(Instruction)
  BY <1>2, <1>3, TailTidy DEF Tidy
<1>5. PlanOf(Tail(Head(st))) = {}
  BY <1>2, <1>4, SoftTidy DEF Soft
<1>6. UNION {PlanOf(st[m]) : m \in 2..Len(st)} = {}
  BY <1>1
<1>7. /\ TidyStack(GoesOn(st, p))
      /\ Plan(GoesOn(st, p))
           = PlanOf(p) \cup PlanOf(Tail(Head(st))) \cup UNION {PlanOf(st[m]) : m \in 2..Len(st)}
  BY <1>1, <1>4, PlanGoesOn
<1> QED BY <1>5, <1>6, <1>7

\* A handler that has nothing to do with the mouse comes on top, or any tidy one
\* if there is none.
LEMMA PlanPush ==
  ASSUME NEW st \in Stacks, TidyStack(st), NEW p, Tidy(p), p # << >>,
         Calm(p) \/ st = << >>
  PROVE  TidyStack(<<p>> \o st) /\ Plan(<<p>> \o st) = PlanOf(p) \cup Plan(st)
<1> DEFINE r == <<p>> \o st
<1>1. /\ Len(r) = Len(st) + 1 /\ r[1] = p /\ Len(st) \in Nat
      /\ \A n \in 1..Len(st) : r[n + 1] = st[n]
      /\ st = << >> => Len(st) = 0
  BY PushType, LenProperties, EmptySeq DEF Tidy, Stacks
<1> HIDE DEF r
<1>2. /\ 1 \in 1..Len(r)
      /\ \A n \in 1..Len(st) : n + 1 \in 1..Len(r)
  BY <1>1
<1>3. ASSUME NEW n \in 1..Len(r), n # 1
      PROVE  n - 1 \in 1..Len(st) /\ r[n] = st[n - 1] /\ (n # Len(r) => n - 1 # Len(st))
  <2>1. n - 1 \in 1..Len(st) /\ (n - 1) + 1 = n /\ (n # Len(r) => n - 1 # Len(st))
    BY <1>1, <1>3
  <2>2. r[(n - 1) + 1] = st[n - 1]
    BY <1>1, <2>1
  <2> QED BY <2>1, <2>2
<1>4. TidyStack(r)
  <2> SUFFICES ASSUME NEW n \in 1..Len(r)
               PROVE  Tidy(r[n]) /\ (n # Len(r) => Calm(r[n]))
    BY DEF TidyStack
  <2>1. CASE n = 1
    BY <1>1, <2>1
  <2>2. CASE n # 1
    BY <1>3, <2>2 DEF TidyStack
  <2> QED BY <2>1, <2>2
<1>5. Plan(r) \subseteq PlanOf(p) \cup Plan(st)
  <2> SUFFICES ASSUME NEW n \in 1..Len(r)
               PROVE  PlanOf(r[n]) \subseteq PlanOf(p) \cup Plan(st)
    BY DEF Plan
  <2>1. CASE n = 1
    BY <1>1, <2>1
  <2>2. CASE n # 1
    BY <1>3, <2>2 DEF Plan
  <2> QED BY <2>1, <2>2
<1>6. PlanOf(p) \cup Plan(st) \subseteq Plan(r)
  <2>1. PlanOf(p) \subseteq Plan(r)
    BY <1>1, <1>2 DEF Plan
  <2>2. \A n \in 1..Len(st) : PlanOf(st[n]) \subseteq Plan(r)
    BY <1>1, <1>2 DEF Plan
  <2> QED BY <2>1, <2>2 DEF Plan
<1> QED BY <1>4, <1>5, <1>6 DEF r

---------------------------------------------------------------------------
\* Steps and the mouse.

\* The innermost handler goes on, neither with the mouse nor towards it.
LEMMA MouseGoesOn ==
  ASSUME PaintInv, MouseInv, stack # << >>, NEW p, Becomes(p), Soft(p),
         Now.op \notin MouseOps, captured' = captured, nested' = nested,
         click # Null \/ bereft => click' # Null \/ bereft'
  PROVE  MouseInv'
<1> SUFFICES ASSUME ~nested'
             PROVE  TidyStack(stack') /\ Matched(captured', click', bereft', Plan(stack'))
  BY DEF MouseInv
<1>1. TidyStack(stack) /\ Matched(captured, click, bereft, Plan(stack))
  BY DEF MouseInv
<1>2. stack' = GoesOn(stack, p) /\ stack \in Stacks
  BY DEF Becomes, GoesOn, PaintInv, PaintType
<1>3. TidyStack(stack') /\ Plan(stack') = Plan(stack)
  BY <1>1, <1>2, SoftGoesOn DEF Now
<1> QED BY <1>1, <1>3 DEF Matched

\* Lists of soft instructions.
LEMMA ListSoft ==
  ASSUME NEW a, NEW b, NEW c, Soft(<<a>>), Soft(<<b>>)
  PROVE  /\ Soft(<<a, b>>)
         /\ Soft(<<c>>) => Soft(<<a, b, c>>)
<1>1. ASSUME NEW x, Soft(<<x>>) PROVE x \in Instruction /\ x.op \notin MouseOps
  <2> DEFINE p == <<x>>
  <2>1. Len(p) = 1 /\ p[1] = x /\ p \in Seq(Instruction) /\ Calm(p)
    BY <1>1 DEF Soft
  <2> HIDE DEF p
  <2>2. 1 \in 1..Len(p)
    BY <2>1
  <2>3. p[1] \in Instruction
    BY <2>1, <2>2, ElementOfSeq
  <2>4. p[1].op \notin MouseOps
    BY <2>1, <2>2 DEF Calm
  <2> QED BY <2>1, <2>3, <2>4
<1>2. Soft(<<a, b>>)
  <2> DEFINE p == <<a, b>>
  <2>1. p \in Seq(Instruction) /\ Len(p) = 2 /\ p[1] = a /\ p[2] = b
    BY <1>1
  <2> HIDE DEF p
  <2>3. \A i \in 1..Len(p) : i = 1 \/ i = 2
    BY <2>1
  <2>4. a.op \notin MouseOps /\ b.op \notin MouseOps
    BY <1>1
  <2>2. Soft(p)
    BY <2>1, <2>3, <2>4 DEF Soft, Calm
  <2> QED BY <2>2 DEF p
<1>3. ASSUME Soft(<<c>>) PROVE Soft(<<a, b, c>>)
  <2> DEFINE p == <<a, b, c>>
  <2>1. p \in Seq(Instruction) /\ Len(p) = 3 /\ p[1] = a /\ p[2] = b /\ p[3] = c
    BY <1>1, <1>3
  <2> HIDE DEF p
  <2>3. \A i \in 1..Len(p) : i = 1 \/ i = 2 \/ i = 3
    BY <2>1
  <2>4. a.op \notin MouseOps /\ b.op \notin MouseOps /\ c.op \notin MouseOps
    BY <1>1, <1>3
  <2>2. Soft(p)
    BY <2>1, <2>3, <2>4 DEF Soft, Calm
  <2> QED BY <2>2 DEF p
<1> QED BY <1>2, <1>3

LEMMA TellSoft ==
  ASSUME NEW x \in Target
  PROVE  Soft(<<Tell(x)>>) /\ Soft(TellIf(x))
BY DoSoft, EmptySoft DEF Tell, TellIf, Operations, MouseOps, MouseMessages

\* What the handler of a message has to do with the mouse is the message.
LEMMA HandlerPlan ==
  ASSUME NEW message \in Operations \ {"click", "capture", "release"}
  PROVE  /\ Tidy(Handler(message)) /\ Handler(message) # << >>
         /\ \A x \in PlanOf(Handler(message)) : x.op \in MouseMessages
         /\ message \notin MouseOps => Soft(Handler(message))
<1> DEFINE p == <<Do("drain", Null), Do(message, Null)>>
           q == IF message \in {"SIZE", "MOUSEHOVER"} THEN << >> ELSE <<Do("drain", Null)>>
<1>1. /\ Do("drain", Null) \in Instruction /\ Do("drain", Null).op = "drain"
      /\ Do(message, Null) \in Instruction /\ Do(message, Null).op = message
  BY NullIsTarget DEF Do, Instruction, Operations
<1>2. /\ p \in Seq(Instruction) /\ Len(p) = 2
      /\ p[1] = Do("drain", Null) /\ p[2] = Do(message, Null)
  BY <1>1
<1>3. Soft(q)
  BY DoSoft, EmptySoft, NullIsTarget DEF Operations, MouseOps, MouseMessages
<1>4. Handler(message) = p \o q
  BY DEF Handler
<1> HIDE DEF p, q
<1>5. \A i \in 1..Len(p) : i = 1 \/ i = 2
  BY <1>2
<1>6. "drain" \notin MouseOps /\ "drain" # "click"
  BY DEF MouseOps, MouseMessages
<1>7. Tidy(p)
  <2> SUFFICES ASSUME NEW i \in 1..Len(p), NEW k \in 1..Len(p), i < k
               PROVE  p[i].op \notin MouseMessages /\ p[i].op # "click"
    BY <1>2 DEF Tidy
  <2>1. i = 1
    BY <1>5
  <2> QED BY <1>1, <1>2, <1>6, <2>1 DEF MouseOps
<1>8. \A x \in PlanOf(p) : x.op \in MouseMessages
  BY <1>1, <1>2, <1>5, <1>6 DEF PlanOf, MouseOps
<1>9. message \notin MouseOps => Soft(p)
  BY <1>1, <1>2, <1>5, <1>6 DEF Soft, Calm
<1>10. Tidy(p \o q) /\ PlanOf(p \o q) = PlanOf(p)
  <2>1. Tidy(q) /\ PlanOf(q) = {}
    BY <1>3, SoftTidy
  <2>2. Calm(q)
    BY <1>3 DEF Soft
  <2>3. Tidy(p \o q) /\ PlanOf(p \o q) = PlanOf(p) \cup PlanOf(q)
    BY <1>7, <2>1, <2>2, ConcatTidy
  <2> QED BY <2>1, <2>3
<1>11. p \o q # << >>
  <2>1. q \in Seq(Instruction)
    BY <1>3 DEF Soft
  <2>2. p \in Seq(Instruction) /\ Len(p) = 2
    BY <1>2
  <2>3. Len(q) \in Nat /\ Len(p \o q) = Len(p) + Len(q)
    BY <2>1, <2>2, ConcatShape
  <2>4. Len(p \o q) # 0
    BY <2>2, <2>3
  <2> QED BY <2>4, EmptySeq
<1> QED BY <1>3, <1>4, <1>8, <1>9, <1>10, <1>11, ConcatSoft

\* What follows a button that goes down: a click, and no release.
LEMMA ButtonDown ==
  ASSUME NEW message \in {"LBUTTONDOWN", "LBUTTONDBLCLK", "RBUTTONDOWN"},
         NEW c \in Controls, NEW cap, NEW x, NEW ber
  PROVE  /\ Tidy(Pointing(message, c))
         /\ Matched(cap, x, ber, PlanOf(Pointing(message, c)))
<1> DEFINE p == Pointing(message, c)
           clicked == Do("click", c)
<1>1. /\ clicked \in Instruction /\ clicked.op = "click" /\ clicked.who = c
      /\ Do("focus", c) \in Instruction /\ Do("focus", c).op = "focus"
      /\ Do("capture", c) \in Instruction /\ Do("capture", c).op = "capture"
      /\ Tell(c) \in Instruction /\ Tell(c).op = "tell"
      /\ c # Null
  BY PaintManagerAssumption DEF PaintManagerAssumption, Tell, Do, Instruction, Operations, Target
<1>2. /\ p \in Seq(Instruction)
      /\ \A i \in 1..Len(p) : \/ p[i] = clicked
                              \/ p[i].op \in {"focus", "capture", "tell"}
      /\ \E i \in 1..Len(p) : p[i] = clicked
  <2>1. CASE message = "LBUTTONDOWN"
    <3>1. p = <<clicked, Do("focus", c), Do("capture", c), Tell(c)>>
      BY <2>1 DEF Pointing
    <3> HIDE DEF p, clicked
    <3>2. /\ p \in Seq(Instruction) /\ Len(p) = 4
          /\ p[1] = clicked /\ p[2] = Do("focus", c)
          /\ p[3] = Do("capture", c) /\ p[4] = Tell(c)
      BY <1>1, <3>1
    <3>3. 1..Len(p) = {1, 2, 3, 4}
      BY <3>2
    <3> QED BY <1>1, <3>2, <3>3
  <2>2. CASE message = "LBUTTONDBLCLK"
    <3>1. p = <<Do("capture", c), Tell(c), clicked>>
      BY <2>2 DEF Pointing
    <3> HIDE DEF p, clicked
    <3>2. /\ p \in Seq(Instruction) /\ Len(p) = 3
          /\ p[1] = Do("capture", c) /\ p[2] = Tell(c) /\ p[3] = clicked
      BY <1>1, <3>1
    <3>3. 1..Len(p) = {1, 2, 3}
      BY <3>2
    <3> QED BY <1>1, <3>2, <3>3
  <2>3. CASE message = "RBUTTONDOWN"
    <3>1. p = <<Do("focus", c), Do("capture", c), Tell(c), clicked>>
      BY <2>3 DEF Pointing
    <3> HIDE DEF p, clicked
    <3>2. /\ p \in Seq(Instruction) /\ Len(p) = 4
          /\ p[1] = Do("focus", c) /\ p[2] = Do("capture", c)
          /\ p[3] = Tell(c) /\ p[4] = clicked
      BY <1>1, <3>1
    <3>3. 1..Len(p) = {1, 2, 3, 4}
      BY <3>2
    <3> QED BY <1>1, <3>2, <3>3
  <2> QED BY <2>1, <2>2, <2>3
<1> HIDE DEF p, clicked
<1>3. \A i \in 1..Len(p) : p[i].op \notin MouseMessages /\ p[i].op # "release"
  BY <1>1, <1>2 DEF MouseMessages
<1>4. Tidy(p)
  BY <1>2, <1>3 DEF Tidy
<1>5. Clicks(PlanOf(p))
  BY <1>1, <1>2 DEF Clicks, PlanOf, MouseOps
<1>6. ~Plans(PlanOf(p), "release")
  BY <1>3 DEF Plans, PlanOf
<1>7. ~Unclicks(PlanOf(p))
  BY <1>1, <1>2 DEF Unclicks, PlanOf
<1>8. Matched(cap, x, ber, PlanOf(p))
  BY <1>5, <1>6, <1>7 DEF Matched
<1> QED BY <1>4, <1>8 DEF p

\* What follows a button that goes up over something clicked.
LEMMA ButtonUp ==
  ASSUME NEW c \in Target \ {Null}, NEW cap, NEW ber,
         NEW p, p = <<Do("release", Null), Tell(c), Do("click", Null)>>
  PROVE  Tidy(p) /\ Matched(cap, c, ber, PlanOf(p))
<1>1. /\ Do("release", Null) \in Instruction /\ Do("release", Null).op = "release"
      /\ Do("click", Null) \in Instruction /\ Do("click", Null).op = "click"
      /\ Do("click", Null).who = Null
      /\ Tell(c) \in Instruction /\ Tell(c).op = "tell"
  BY NullIsTarget DEF Tell, Do, Instruction, Operations
<1>2. /\ p \in Seq(Instruction) /\ Len(p) = 3
      /\ p[1] = Do("release", Null) /\ p[2] = Tell(c) /\ p[3] = Do("click", Null)
  BY <1>1
<1>3. 1..Len(p) = {1, 2, 3}
  BY <1>2
<1>4. Tidy(p)
  BY <1>1, <1>2, <1>3 DEF Tidy, MouseMessages
<1>5. Plans(PlanOf(p), "release")
  BY <1>1, <1>2, <1>3 DEF Plans, PlanOf, MouseOps
<1>6. ~Plans(PlanOf(p), "capture")
  BY <1>1, <1>2, <1>3 DEF Plans, PlanOf
<1> QED BY <1>4, <1>5, <1>6 DEF Matched

\* A message of the mouse is handled by p.
LEMMA MouseMessage ==
  ASSUME PaintInv, MouseInv, stack # << >>, Now.op \in MouseMessages,
         NEW p, Becomes(p), Tidy(p),
         Matched(captured, click, bereft, PlanOf(p)),
         UNCHANGED <<captured, click, bereft, nested>>
  PROVE  MouseInv'
<1> SUFFICES ASSUME ~nested'
             PROVE  TidyStack(stack') /\ Matched(captured', click', bereft', Plan(stack'))
  BY DEF MouseInv
<1>1. TidyStack(stack)
  BY DEF MouseInv
<1>2. stack' = GoesOn(stack, p) /\ stack \in Stacks
  BY DEF Becomes, GoesOn, PaintInv, PaintType
<1> QED BY <1>1, <1>2, TidyGoesOn DEF Now

\* A message of the mouse that is for nobody.
LEMMA MouseIgnored ==
  ASSUME PaintInv, MouseInv, stack # << >>, Now.op \in MouseMessages,
         Becomes(<< >>), UNCHANGED <<captured, click, bereft, nested>>
  PROVE  MouseInv'
<1> SUFFICES ASSUME ~nested'
             PROVE  TidyStack(stack') /\ Matched(captured', click', bereft', Plan(stack'))
  BY DEF MouseInv
<1>1. TidyStack(stack) /\ Matched(captured, click, bereft, Plan(stack))
  BY DEF MouseInv
<1>2. stack' = GoesOn(stack, << >>) /\ stack \in Stacks
  BY DEF Becomes, GoesOn, PaintInv, PaintType
<1>3. TidyStack(stack') /\ Plan(stack') = {}
  BY <1>1, <1>2, EmptySoft, SoftTidy, TidyGoesOn DEF Now
<1>4. ~Clicks(Plan(stack))
  <2>1. Head(Head(stack)) \in Instruction /\ Head(stack) # << >> /\ Head(stack) = stack[1]
        /\ Len(stack) \in Nat \ {0}
    BY <1>2, TopOfStack
  <2>2. Plan(stack) = PlanOf(Head(stack))
    BY <1>1, <1>2, PlanOfStack DEF Now, MouseOps
  <2>3. Tidy(Head(stack))
    BY <1>1, <2>1 DEF TidyStack
  <2>4. PlanOf(Head(stack)) \subseteq PlanOf(Tail(Head(stack))) \cup {Head(Head(stack))}
        /\ Calm(Tail(Head(stack))) /\ Tidy(Tail(Head(stack)))
    BY <2>1, <2>3, TailTidy DEF Now
  <2>5. PlanOf(Tail(Head(stack))) = {}
    BY <2>4, SoftTidy DEF Soft, Tidy
  <2> QED BY <2>2, <2>4, <2>5 DEF Clicks, Now, MouseMessages
<1> QED BY <1>1, <1>3, <1>4 DEF Matched, Plans, Clicks, Unclicks

LEMMA PointMouse == PaintInv /\ MouseInv /\ Point => MouseInv'
<1> SUFFICES ASSUME PaintInv, MouseInv, Point PROVE MouseInv'
  OBVIOUS
<1>1. /\ stack # << >> /\ Now.op \in PointMessages
      /\ UNCHANGED <<captured, click, bereft, nested>>
  BY DEF Point, AtOneOf, Running, Idle, targets
<1>2. CASE Becomes(<< >>)
  <2>1. CASE Now.op \in MouseMessages
    BY <1>1, <1>2, <2>1, MouseIgnored
  <2>2. CASE Now.op \notin MouseMessages
    <3>1. Now.op \notin MouseOps
      BY <1>1, <2>2 DEF MouseOps, PointMessages
    <3> QED BY <1>1, <1>2, <3>1, EmptySoft, MouseGoesOn
  <2> QED BY <2>1, <2>2
<1>3. ASSUME NEW c \in Controls, Becomes(Pointing(Now.op, c)) PROVE MouseInv'
  <2>1. CASE Now.op \in {"LBUTTONDOWN", "LBUTTONDBLCLK", "RBUTTONDOWN"}
    <3>1. /\ Tidy(Pointing(Now.op, c))
          /\ Matched(captured, click, bereft, PlanOf(Pointing(Now.op, c)))
      BY <2>1, ButtonDown
    <3> QED BY <1>1, <1>3, <2>1, <3>1, MouseMessage DEF MouseMessages
  <2>2. CASE Now.op \in {"MOUSEWHEEL", "MOUSEHOVER"}
    <3>1. Soft(<<Tell(c)>>) /\ Soft(TellIf(hover)) /\ Soft(<<Do("touch", c)>>)
      BY TellSoft, DoSoft DEF Target, Operations, MouseOps, MouseMessages, PaintInv, PaintType
    <3>2. Soft(Handler("MOUSEMOVE"))
      BY HandlerPlan DEF Operations, MouseOps, MouseMessages
    <3>3. Soft(Pointing(Now.op, c))
      BY <2>2, <3>1, <3>2, ConcatSoft DEF Pointing
    <3>4. Now.op \notin MouseOps
      BY <2>2 DEF MouseOps, MouseMessages
    <3> QED BY <1>1, <1>3, <3>3, <3>4, MouseGoesOn
  <2> QED BY <1>1, <2>1, <2>2 DEF PointMessages
<1> QED BY <1>2, <1>3 DEF Point, Tree

LEMMA ReactMouse == PaintInv /\ MouseInv /\ React => MouseInv'
<1> SUFFICES ASSUME PaintInv, MouseInv, React PROVE MouseInv'
  OBVIOUS
<1>1. /\ stack # << >> /\ Now.op \in OtherMessages /\ Becomes(Reacting(Now.op))
      /\ UNCHANGED <<captured, click, bereft, nested>>
      /\ focus \in Target /\ hover \in Target /\ click \in Target /\ key \in Target
  BY DEF React, AtOneOf, Running, Idle, targets, PaintInv, PaintType
<1>2. CASE Now.op \in {"LBUTTONUP", "CONTEXTMENU"}
  <2>1. Now.op \in MouseMessages
    BY <1>2 DEF MouseMessages
  <2>2. CASE click = Null
    <3>1. Reacting(Now.op) = << >>
      BY <1>2, <2>2 DEF Reacting
    <3> QED BY <1>1, <2>1, <3>1, MouseIgnored
  <2>3. CASE click # Null
    <3> DEFINE p == <<Do("release", Null), Tell(click), Do("click", Null)>>
    <3>1. Reacting(Now.op) = p
      BY <1>2, <2>3 DEF Reacting
    <3>2. Tidy(p) /\ Matched(captured, click, bereft, PlanOf(p))
      BY <1>1, <2>3, ButtonUp
    <3> HIDE DEF p
    <3> QED BY <1>1, <2>1, <3>1, <3>2, MouseMessage
  <2> QED BY <2>2, <2>3
<1>3. CASE Now.op \notin {"LBUTTONUP", "CONTEXTMENU"}
  <2>1. /\ Soft(<<Tell(focus)>>) /\ Soft(<<Tell(key)>>)
        /\ Soft(TellIf(focus)) /\ Soft(TellIf(hover))
    BY <1>1, TellSoft
  <2>2. /\ Soft(<<Do("keyDown", Null)>>) /\ Soft(<<Do("keyUp", Null)>>)
        /\ Soft(<<Do("tellClick", Null)>>) /\ Soft(<<Do("focus", Null)>>)
    BY DoSoft, NullIsTarget DEF Operations, MouseOps, MouseMessages
  <2>3. /\ Soft(<<Tell(focus), Do("keyDown", Null)>>)
        /\ Soft(<<Tell(key), Do("keyUp", Null)>>)
        /\ Soft(<<Do("tellClick", Null), Do("focus", Null)>>)
    BY <2>1, <2>2, ListSoft
  <2>4. Soft(TellIf(hover) \o <<Do("tellClick", Null), Do("focus", Null)>>)
    BY <2>1, <2>3, ConcatSoft
  <2>5. Soft(Reacting(Now.op))
    BY <1>1, <1>3, <2>1, <2>3, <2>4, EmptySoft DEF Reacting, OtherMessages
  <2>6. Now.op \notin MouseOps
    BY <1>1, <1>3 DEF MouseOps, MouseMessages, OtherMessages
  <2> QED BY <1>1, <2>5, <2>6, MouseGoesOn
<1> QED BY <1>2, <1>3

\* The steps that only go on, or set pointers other than m_pEventClick.
LEMMA OtherStepsMouse ==
  ASSUME PaintInv, MouseInv,
         Told \/ Drain \/ Move \/ Timer \/ GoOn \/ TakeFocus \/ Unfocus \/ SetHover \/ SetKey
  PROVE  MouseInv'
<1>1. /\ stack # << >> /\ UNCHANGED <<captured, click, bereft, nested>>
      /\ Now.op \in {"tell", "drain", "MOUSEMOVE", "TIMER", "focus", "moved", "tellClick",
                     "touch", "enter", "takeFocus", "unfocus", "hover", "keyDown", "keyUp"}
  BY DEF Told, Telling, Drain, Move, Timer, GoOn, TakeFocus, Unfocus, SetHover, SetKey,
         At, AtOneOf, Running, Idle, targets
<1>2. Now.op \notin MouseOps
  BY <1>1 DEF MouseOps, MouseMessages
<1>3. /\ Now.who \in Target /\ focus \in Target /\ hover \in Target /\ click \in Target
      /\ Null \in Target
  BY <1>1, NowType, NullIsTarget DEF PaintInv, PaintType
<1>4. \A x \in Target : Soft(<<Tell(x)>>) /\ Soft(TellIf(x))
  BY TellSoft
<1>5. \A x \in Target :
        /\ Soft(<<Do("drain", x)>>) /\ Soft(<<Do("hover", x)>>)
        /\ Soft(<<Do("enter", x)>>) /\ Soft(<<Do("moved", x)>>)
        /\ Soft(<<Do("unfocus", x)>>) /\ Soft(<<Do("takeFocus", x)>>)
  BY DoSoft DEF Operations, MouseOps, MouseMessages
<1>6. SUFFICES \E p : Becomes(p) /\ Soft(p)
  BY <1>1, <1>2, MouseGoesOn
<1>7. CASE Becomes(<< >>)
  BY <1>7, EmptySoft
<1>8. CASE \E x \in Target : Becomes(<<Tell(x)>>) \/ Becomes(TellIf(x))
  BY <1>4, <1>8
<1>9. CASE Drain /\ notify # << >>
  <2> DEFINE p == <<Tell(Head(notify))>> \o <<Do("drain", Null)>>
  <2>1. Becomes(p)
    BY <1>9 DEF Drain
  <2>2. Head(notify) \in Target
    BY <1>9, HeadTailProperties DEF PaintInv, PaintType
  <2>3. Soft(p)
    BY <1>3, <1>4, <1>5, <2>2, ConcatSoft
  <2> QED BY <2>1, <2>3
<1>10. CASE Move
  <2>1. PICK x \in Target : Becomes(Moving(x))
    BY <1>3, <1>10 DEF Move, Tree, Target
  <2>2. Soft(<<Tell(hover), Do("hover", Null)>>) /\ Soft(<<Do("enter", x), Do("moved", x)>>)
    BY <1>3, <1>4, <1>5, ListSoft
  <2>3. Soft(Moving(x))
    BY <2>2, EmptySoft, ConcatSoft DEF Moving
  <2> QED BY <2>1, <2>3
<1>11. CASE Becomes(Focusing(Now.who))
  <2>1. Soft(<<Tell(focus), Do("unfocus", Null)>>) /\ Soft(<<Do("takeFocus", Now.who)>>)
    BY <1>3, <1>4, <1>5, ListSoft
  <2>2. Soft(Focusing(Now.who))
    BY <2>1, EmptySoft, ConcatSoft DEF Focusing
  <2> QED BY <1>11, <2>2
<1>12. CASE Becomes(<<Tell(Now.who), Do("hover", Now.who)>>)
  <2>1. Soft(<<Tell(Now.who), Do("hover", Now.who)>>)
    BY <1>3, <1>4, <1>5, ListSoft
  <2> QED BY <1>12, <2>1
<1>13. Timer => Becomes(<< >>) \/ \E x \in Target : Becomes(<<Tell(x)>>)
  BY DEF Timer, PaintInv, PaintType, Target
<1>14. GoOn => \/ Becomes(<< >>) \/ Becomes(Focusing(Now.who))
               \/ \E x \in Target : Becomes(<<Tell(x)>>) \/ Becomes(TellIf(x))
               \/ Becomes(<<Tell(Now.who), Do("hover", Now.who)>>)
  BY <1>3 DEF GoOn
<1>15. TakeFocus => Becomes(<< >>) \/ \E x \in Target : Becomes(<<Tell(x)>>)
  BY <1>3 DEF TakeFocus
<1>16. Told \/ (Drain /\ notify = << >>) \/ Unfocus \/ SetHover \/ SetKey => Becomes(<< >>)
  BY DEF Told, Drain, Unfocus, SetHover, SetKey
<1> QED
  BY <1>7, <1>8, <1>9, <1>10, <1>11, <1>12, <1>13, <1>14, <1>15, <1>16

\* A pointer to what was clicked is only lost with a note of it in bereft.
LEMMA LosesClick ==
  ASSUME PaintInv, MouseInv, Cleanup \/ Attach
  PROVE  MouseInv'
<1>1. /\ stack # << >> /\ Becomes(<< >>) /\ UNCHANGED <<captured, nested>>
      /\ Now.op \in {"CLEANUP", "attach"}
  BY DEF Cleanup, Attach, At, AtOneOf, Running, Idle
<1>2. click # Null \/ bereft => click' # Null \/ bereft'
  BY DEF Cleanup, Attach, ReapObjects, Forgotten
<1>3. Now.op \notin MouseOps
  BY <1>1 DEF MouseOps, MouseMessages
<1> QED BY <1>1, <1>2, <1>3, EmptySoft, MouseGoesOn

\* The steps Tidy and Matched are about.
LEMMA SetClickMouse == PaintInv /\ MouseInv /\ SetClick => MouseInv'
<1> SUFFICES ASSUME PaintInv, MouseInv, SetClick, ~nested'
             PROVE  TidyStack(stack') /\ Matched(captured', click', bereft', Plan(stack'))
  BY DEF MouseInv
<1>1. /\ stack # << >> /\ Becomes(<< >>) /\ click' = Now.who /\ Now.op = "click"
      /\ UNCHANGED <<captured, bereft, nested>>
  BY DEF SetClick, At, AtOneOf, Running, Idle
<1>2. TidyStack(stack) /\ Matched(captured, click, bereft, Plan(stack))
  BY <1>1 DEF MouseInv
<1>3. stack' = GoesOn(stack, << >>) /\ stack \in Stacks
  BY <1>1 DEF Becomes, GoesOn, PaintInv, PaintType
<1>4. /\ TidyStack(stack') /\ Plan(stack') \subseteq Plan(stack)
      /\ Plan(stack) \subseteq Plan(stack') \cup {Now}
      /\ ~Plans(Plan(stack'), "release")
  BY <1>1, <1>2, <1>3, EmptySoft, SoftGoesOn DEF Now
<1>5. Now \in Plan(stack)
  BY <1>1, <1>2, <1>3, PlanOfStack DEF Now, MouseOps
<1>6. ~Plans(Plan(stack), "release")
  BY <1>1, <1>4 DEF Plans
<1>7. CASE Now.who # Null
  BY <1>1, <1>2, <1>4, <1>6, <1>7 DEF Matched, Plans, Unclicks
<1>8. CASE Now.who = Null
  <2>1. Unclicks(Plan(stack))
    BY <1>1, <1>5, <1>8 DEF Unclicks
  <2>2. ~captured /\ ~Plans(Plan(stack), "capture")
    BY <1>2, <1>6, <2>1 DEF Matched
  <2>3. ~Plans(Plan(stack'), "capture")
    BY <1>4, <2>2 DEF Plans
  <2> QED BY <1>1, <1>4, <2>2, <2>3 DEF Matched
<1> QED BY <1>7, <1>8

LEMMA CaptureMouse == PaintInv /\ MouseInv /\ Capture => MouseInv'
<1> SUFFICES ASSUME PaintInv, MouseInv, Capture, ~nested'
             PROVE  TidyStack(stack') /\ Matched(captured', click', bereft', Plan(stack'))
  BY DEF MouseInv
<1>1. /\ stack # << >> /\ Becomes(<< >>) /\ UNCHANGED <<click, nested>>
      /\ \/ Now.op = "capture" /\ captured' = TRUE /\ UNCHANGED bereft
         \/ Now.op = "release" /\ captured' = FALSE
  BY DEF Capture, At, AtOneOf, Running, Idle, targets
<1>2. TidyStack(stack) /\ Matched(captured, click, bereft, Plan(stack))
  BY <1>1 DEF MouseInv
<1>3. stack' = GoesOn(stack, << >>) /\ stack \in Stacks
  BY <1>1 DEF Becomes, GoesOn, PaintInv, PaintType
<1>4. /\ TidyStack(stack') /\ Plan(stack') \subseteq Plan(stack)
      /\ Plan(stack) \subseteq Plan(stack') \cup {Now}
  BY <1>1, <1>2, <1>3, EmptySoft, SoftGoesOn DEF Now
<1>5. Now \in Plan(stack)
  BY <1>1, <1>2, <1>3, PlanOfStack DEF Now, MouseOps
<1>6. CASE Now.op = "capture"
  <2>1. Plans(Plan(stack), "capture")
    BY <1>5, <1>6 DEF Plans
  <2>2. click # Null \/ bereft \/ Clicks(Plan(stack'))
    BY <1>2, <1>4, <1>6, <2>1 DEF Matched, Clicks
  <2>3. ~Unclicks(Plan(stack)) /\ ~Plans(Plan(stack), "release")
    BY <1>2, <2>1 DEF Matched
  <2>4. ~Unclicks(Plan(stack')) /\ ~Plans(Plan(stack'), "release")
    BY <1>4, <2>3 DEF Unclicks, Plans
  <2> QED BY <1>1, <1>4, <1>6, <2>2, <2>4 DEF Matched
<1>7. CASE Now.op = "release"
  <2>1. ~Plans(Plan(stack), "capture")
    BY <1>2, <1>5, <1>7 DEF Matched, Plans
  <2>2. ~Plans(Plan(stack'), "capture")
    BY <1>4, <2>1 DEF Plans
  <2> QED BY <1>1, <1>4, <1>7, <2>2 DEF Matched
<1> QED BY <1>1, <1>6, <1>7

---------------------------------------------------------------------------
\* Outside of a handler nothing is planned, and what is dispatched then plans
\* no more than to handle its message.
LEMMA StartsMouse ==
  ASSUME PaintInv, MouseInv, NEW message \in Operations \ {"click", "capture", "release"},
         Starts(message), UNCHANGED <<captured, click, bereft>>
  PROVE  MouseInv'
<1> SUFFICES ASSUME ~nested'
             PROVE  TidyStack(stack') /\ Matched(captured', click', bereft', Plan(stack'))
  BY DEF MouseInv
<1> DEFINE p == Handler(message)
<1>1. stack = << >> /\ stack' = <<p>> \o << >> /\ nested' = nested
  BY DEF Starts, Idle
<1>2. /\ TidyStack(<< >>) /\ Plan(<< >>) = {} /\ << >> \in Stacks
  BY EmptySeq DEF TidyStack, Plan, Stacks
<1>3. /\ Tidy(p) /\ p # << >>
      /\ \A x \in PlanOf(p) : x.op \in MouseMessages
  BY HandlerPlan
<1>4. Matched(captured, click, bereft, Plan(stack))
  BY <1>1 DEF MouseInv
<1> HIDE DEF p
<1>5. TidyStack(stack') /\ Plan(stack') = PlanOf(p)
  BY <1>1, <1>2, <1>3, PlanPush
<1>6. /\ ~Plans(PlanOf(p), "capture") /\ ~Plans(PlanOf(p), "release")
      /\ ~Unclicks(PlanOf(p))
  BY <1>3 DEF Plans, Unclicks, MouseMessages
<1>7. captured => click # Null \/ bereft
  BY <1>1, <1>2, <1>4 DEF Matched, Clicks
<1> QED BY <1>5, <1>6, <1>7 DEF Matched

\* A call of SetFocus() or AttachDialog() plans nothing with the mouse.
LEMMA CallMouse ==
  ASSUME PaintInv, MouseInv, NEW p, Soft(p), p # << >>, stack' = <<p>> \o stack,
         UNCHANGED <<captured, click, bereft, nested>>
  PROVE  MouseInv'
<1> SUFFICES ASSUME ~nested'
             PROVE  TidyStack(stack') /\ Matched(captured', click', bereft', Plan(stack'))
  BY DEF MouseInv
<1>1. TidyStack(stack) /\ Matched(captured, click, bereft, Plan(stack)) /\ stack \in Stacks
  BY DEF MouseInv, PaintInv, PaintType
<1>2. Tidy(p) /\ Calm(p) /\ PlanOf(p) = {}
  BY SoftTidy DEF Soft
<1>3. TidyStack(stack') /\ Plan(stack') = Plan(stack)
  BY <1>1, <1>2, PlanPush
<1> QED BY <1>1, <1>3

LEMMA ProgramMouse == PaintInv /\ MouseInv /\ Program => MouseInv'
<1> SUFFICES ASSUME PaintInv, MouseInv, Program PROVE MouseInv'
  OBVIOUS
<1>1. CASE DispatchCleanup
  BY <1>1, StartsMouse DEF DispatchCleanup, Operations, targets
<1>2. CASE \E message \in Messages : Dispatch(message)
  <2>1. PICK message \in Messages : Dispatch(message)
    BY <1>2
  <2>2. message \in Operations \ {"click", "capture", "release"}
    BY DEF Messages, PointMessages, OtherMessages, Operations
  <2> QED BY <2>1, <2>2, StartsMouse DEF Dispatch, targets
<1>3. ASSUME NEW c \in Controls, CallSetFocus(c) PROVE MouseInv'
  <2> DEFINE p == <<Do("focus", c)>>
  <2>1. stack' = <<p>> \o stack /\ UNCHANGED <<captured, click, bereft, nested>>
    BY <1>3 DEF CallSetFocus, targets
  <2>2. Soft(p)
    BY DoSoft DEF Operations, MouseOps, MouseMessages, Target
  <2>3. p # << >>
    OBVIOUS
  <2> HIDE DEF p
  <2> QED BY <2>1, <2>2, <2>3, CallMouse
<1>4. ASSUME NEW c \in Controls, AttachDialog(c) PROVE MouseInv'
  <2> DEFINE p == <<Do("focus", Null), Do("attach", c)>>
  <2>1. stack' = <<p>> \o stack /\ UNCHANGED <<captured, click, bereft, nested>>
    BY <1>4 DEF AttachDialog, targets
  <2>2. Soft(<<Do("focus", Null)>>) /\ Soft(<<Do("attach", c)>>)
    BY DoSoft, NullIsTarget DEF Operations, MouseOps, MouseMessages, Target
  <2>3. Soft(p)
    BY <2>2, ListSoft
  <2>4. p # << >>
    OBVIOUS
  <2> HIDE DEF p
  <2> QED BY <2>1, <2>3, <2>4, CallMouse
<1>5. CASE UNCHANGED <<stack, captured, click, bereft, nested>>
  BY <1>5 DEF MouseInv
<1>6. ASSUME NEW c \in Controls, RemoveControl(c) PROVE MouseInv'
  <2>1. /\ UNCHANGED <<stack, captured, nested>>
        /\ click # Null \/ bereft => click' # Null \/ bereft'
    BY <1>6 DEF RemoveControl, DeleteControl, AddDelayedCleanup, ReapObjects, Forgotten, targets
  <2> QED BY <2>1 DEF MouseInv, Matched
<1> QED
  BY <1>1, <1>2, <1>3, <1>4, <1>5, <1>6
  DEF Program, AddControl, SetTimer, KillTimer, SendNotify, targets

LEMMA NextMouse == PaintInv /\ MouseInv /\ [Next]_vars => MouseInv'
<1>1. ASSUME MouseInv, UNCHANGED vars PROVE MouseInv'
  BY <1>1 DEF vars, MouseInv
<1> QED
  BY <1>1, PointMouse, ReactMouse, OtherStepsMouse, LosesClick, SetClickMouse,
     CaptureMouse, ProgramMouse DEF Next, Step

LEMMA StuckMouse == Stuck /\ MouseInv /\ [Next]_vars => MouseInv'
<1>1. ASSUME MouseInv, UNCHANGED vars PROVE MouseInv'
  BY <1>1 DEF vars, MouseInv
<1> QED BY <1>1, StuckStops

LEMMA InitMouse == Init => MouseInv
<1> SUFFICES ASSUME Init PROVE MouseInv
  OBVIOUS
<1>1. stack = << >> /\ Len(stack) = 0 /\ ~captured
  BY EmptySeq DEF Init
<1>2. TidyStack(stack) /\ Plan(stack) = {}
  BY <1>1 DEF TidyStack, Plan
<1> QED BY <1>1, <1>2 DEF MouseInv, Matched, Plans, Unclicks

LEMMA SpecMouse == Spec => []MouseInv
BY SpecInv, InitMouse, NextMouse, StuckMouse, PTL DEF Spec

\* As long as no handler dispatches messages, the capture of the mouse outlives
\* a message only while there is a control to release it at the next
\* WM_LBUTTONUP, or after what was clicked has gone (of which nothing is said):
\* every handler that captures has clicked or will (UIManager.cpp:866-948),
\* and none clears m_pEventClick before it has released (UIManager.cpp:914-924,
\* 955-964).
THEOREM PaintCaptureIsReleased == Spec => []CaptureIsReleased
<1>1. ASSUME MouseInv, Idle, captured, ~nested PROVE click # Null \/ bereft
  <2>1. Len(stack) = 0
    BY <1>1, EmptySeq DEF Idle
  <2>2. Plan(stack) = {}
    BY <2>1 DEF Plan
  <2> QED BY <1>1, <2>2 DEF MouseInv, Matched, Clicks
<1>2. MouseInv => CaptureIsReleased
  BY <1>1 DEF CaptureIsReleased
<1> QED BY <1>2, SpecMouse, PTL
=============================================================================
