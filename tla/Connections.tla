---------------------------- MODULE Connections ----------------------------
(***************************************************************************)
(* What the server promises to those who connect to it: each of them is    *)
(* taken in turn, each of its requests is handled once and in order, and   *)
(* it is let go when it has finished and, unless it broke off, not before  *)
(* its last request was handled.  The server may go down, but only while   *)
(* it handles a request, while it lets somebody go, or because of somebody *)
(* it let go who has finished and is still reading.                        *)
(***************************************************************************)
EXTENDS Naturals

CONSTANT Clients  \* each of them connects once

VARIABLES
  stage,     \* per client: "away", "waiting", "served" or "released"
  ending,    \* per client: "no", "finished" (what it sent arrives) or "reset"
  asked,     \* per client: requests sent
  handled,   \* per client: requests handled
  up         \* the server runs

vars == <<stage, ending, asked, handled, up>>

Moves(c, from, to) ==
  /\ stage[c] = from
  /\ stage' = [stage EXCEPT ![c] = to]
  /\ UNCHANGED <<ending, asked, handled>>

\* What the server does for somebody may be the last it does.
MayGoDown == up' \in BOOLEAN

Init ==
  /\ stage = [c \in Clients |-> "away"]
  /\ ending = [c \in Clients |-> "no"]
  /\ asked = [c \in Clients |-> 0]
  /\ handled = [c \in Clients |-> 0]
  /\ up = TRUE

Connect(c) == Moves(c, "away", "waiting") /\ UNCHANGED up

Serve(c) == Moves(c, "waiting", "served") /\ UNCHANGED up

Ask(c) ==
  /\ stage[c] \in {"waiting", "served"} /\ ending[c] = "no"
  /\ asked' = [asked EXCEPT ![c] = @ + 1]
  /\ UNCHANGED <<stage, ending, handled, up>>

Handle(c) ==
  /\ stage[c] = "served" /\ handled[c] < asked[c]
  /\ handled' = [handled EXCEPT ![c] = @ + 1]
  /\ MayGoDown
  /\ UNCHANGED <<stage, ending, asked>>

Finish(c) ==
  /\ stage[c] \in {"waiting", "served"} /\ ending[c] = "no"
  /\ ending' = [ending EXCEPT ![c] = "finished"]
  /\ UNCHANGED <<stage, asked, handled, up>>

\* Whoever breaks off while it waits is not served any more.
BreakOff(c) ==
  /\ stage[c] \in {"waiting", "served"} /\ ending[c] = "no"
  /\ ending' = [ending EXCEPT ![c] = "reset"]
  /\ stage' = [stage EXCEPT ![c] = IF @ = "waiting" THEN "released" ELSE @]
  /\ UNCHANGED <<asked, handled, up>>

Release(c) ==
  /\ \/ ending[c] = "reset"
     \/ ending[c] = "finished" /\ handled[c] = asked[c]
  /\ Moves(c, "served", "released") /\ MayGoDown

GoDown ==
  /\ \E c \in Clients : stage[c] = "released" /\ ending[c] = "finished"
  /\ up' = FALSE
  /\ UNCHANGED <<stage, ending, asked, handled>>

Next ==
  /\ up
  /\ \/ GoDown
     \/ \E c \in Clients :
          \/ Connect(c) \/ Serve(c) \/ Ask(c) \/ Handle(c)
          \/ Finish(c) \/ BreakOff(c) \/ Release(c)

Spec == Init /\ [][Next]_vars
============================================================================
