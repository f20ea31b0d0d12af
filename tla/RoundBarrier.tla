--------------------------- MODULE RoundBarrier ---------------------------
(***************************************************************************)
(* What a game of rapid calculation promises its players: everybody works  *)
(* on the same question.  A player sees the results of a question when all *)
(* players who are still there have answered it, and gets the next         *)
(* question when all of them have asked for it: two barriers per round.    *)
(***************************************************************************)
EXTENDS Naturals

CONSTANT Players

VARIABLES
  client,  \* per player: the question it is at and what it does with it
  online   \* the players who are still there

vars == <<client, online>>

\* A player who is "ready" has seen the results of question `round` (0: there
\* was none yet) and waits for the next one.
HasAnswered(c, r) == c.round > r \/ (c.round = r /\ c.stage # "solving")
HasPrepared(c, r) == c.round > r \/ (c.round = r /\ c.stage = "ready")

Advance(p, stage, r) ==
  /\ client' = [client EXCEPT ![p] = [stage |-> stage, round |-> r]]
  /\ UNCHANGED online

---------------------------------------------------------------------------
Init ==
  /\ client = [p \in Players |-> [stage |-> "ready", round |-> 0]]
  /\ online = Players

GetQuestion(p) ==
  /\ client[p].stage = "ready"
  /\ \A q \in online : HasPrepared(client[q], client[p].round)
  /\ Advance(p, "solving", client[p].round + 1)

Answer(p) ==
  /\ client[p].stage = "solving"
  /\ Advance(p, "answered", client[p].round)

SeeResults(p) ==
  /\ client[p].stage = "answered"
  /\ \A q \in online : HasAnswered(client[q], client[p].round)
  /\ Advance(p, "reviewing", client[p].round)

Prepare(p) ==
  /\ client[p].stage = "reviewing"
  /\ Advance(p, "ready", client[p].round)

Leave(p) ==
  /\ online' = online \ {p}
  /\ UNCHANGED client

Next ==
  \E p \in online :
    GetQuestion(p) \/ Answer(p) \/ SeeResults(p) \/ Prepare(p) \/ Leave(p)

Spec == Init /\ [][Next]_vars
============================================================================
