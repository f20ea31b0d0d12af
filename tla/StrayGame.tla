------------------------------ MODULE StrayGame ------------------------------
(***************************************************************************)
(* RapidCalculation among clients of which some stray: they send results   *)
(* and prepares whenever they like, repeated, unasked for, and before the  *)
(* game was started, for a session hands every event to the game its       *)
(* player is in (Session.cpp:272-277).  The class is RapidCalculation's    *)
(* own.  The honest players follow the protocol and drop an RC_FINAL they  *)
(* do not wait for.  What do they get, and what becomes of the game when   *)
(* players leave it?                                                       *)
(***************************************************************************)
EXTENDS RapidCalculation

CONSTANTS
  Strays,     \* the players who stray
  MaxStrayed  \* bound: messages the strays send in a behaviour

ASSUME StrayAssumption ==
  /\ Strays \subseteq Players
  /\ MaxStrayed \in Nat

VARIABLES
  started,  \* start() was called
  strayed,  \* the number of messages the strays have sent
  early,    \* an event was handled before that (history)
  leftAt    \* per player who left, the question of that moment (history)

strayVars == <<vars, started, strayed, early, leftAt>>
game == <<started, strayed, early, leftAt>>

Honest == Players \ Strays

---------------------------------------------------------------------------
\* start(), unless a player is gone.
StartGame ==
  /\ ~crashed /\ ~gone /\ ~started
  /\ question < MaxRounds
  /\ Players \subseteq online
  /\ SendQuestion(resultInfos, toClient)
  /\ started' = TRUE
  /\ UNCHANGED <<gone, crashed, online, client, toServer, strayed, early, leftAt>>

\* The game is gone, or Game::start() dereferences the player who is gone.
StartGameCrashes ==
  /\ ~started
  /\ ~crashed
  /\ gone \/ ~(Players \subseteq online)
  /\ crashed' = TRUE
  /\ UNCHANGED <<resultInfos, question, gone, online, client, toServer, toClient, game>>

\* handleEvent(), of a player of the game, started or not.
HandleEvent(p) ==
  /\ HandleResult(p) \/ HandlePrepare(p)
  /\ early' = (early \/ ~started)
  /\ UNCHANGED <<started, strayed, leftAt>>

\* There is no game, or no body to read a result from.
HandleEventCrashes(p) == EventCrashes(p) /\ UNCHANGED game

\* What a client does that follows the protocol.
Honestly(p) ==
  /\ \/ ClientGetsQuestion(p)
     \/ ClientAnswers(p)
     \/ ClientPrepares(p)
     \/ (client[p].stage = "answered" /\ ClientSeesResults(p))
  /\ UNCHANGED game

\* Results that p does not wait for, and whatever is sent to a stray.
Drops(p) ==
  /\ p \in online /\ toClient[p] # <<>>
  /\ \/ p \in Strays
     \/ Head(toClient[p]).event = "RC_FINAL" /\ client[p].stage # "answered"
  /\ toClient' = [toClient EXCEPT ![p] = Tail(@)]
  /\ UNCHANGED <<server, online, client, toServer, game>>

\* A stray sends an RC_RESULT, perhaps without a body, or an RC_PREPARE,
\* whatever it was sent.
StraySends(p, msg) ==
  /\ p \in online /\ strayed < MaxStrayed
  /\ strayed' = strayed + 1
  /\ toServer' = [toServer EXCEPT ![p] = Append(@, msg)]
  /\ UNCHANGED <<server, online, client, toClient, started, early, leftAt>>

\* p leaves; question is noted, to compare with what becomes of the game.
LeaveGame(p) ==
  /\ Leave(p)
  /\ leftAt' = [q \in DOMAIN leftAt \cup {p} |-> IF q = p THEN question ELSE leftAt[q]]
  /\ UNCHANGED <<started, strayed, early>>

---------------------------------------------------------------------------
StrayInit ==
  /\ Init
  /\ started = FALSE /\ strayed = 0 /\ early = FALSE /\ leftAt = <<>>

StrayNext ==
  \/ StartGame \/ StartGameCrashes
  \/ \E p \in Players :
       HandleEvent(p) \/ HandleEventCrashes(p) \/ Drops(p) \/ LeaveGame(p)
  \/ \E p \in Honest : Honestly(p)
  \/ \E p \in Strays, msg \in {RcResult(0), RcNoResult, RcPrepare} :
       StraySends(p, msg)

StraySpec == StrayInit /\ [][StrayNext]_strayVars

---------------------------------------------------------------------------
(* Properties.                                                             *)

PlaysOn == Honest \cap online

\* Unless an event came before start(), the honest players who stay are never
\* more than half a round apart, whatever the strays send: none is asked before
\* all of them are ready, none sees results before all of them have answered
\* (the loops at RapidCalculation.cpp:82 and :142).  It takes a lone
\* RC_PREPARE before start() (RapidCalculation.cpp:138) to break this: all
\* entries there are, one, are prepared, and the first question is sent twice.
HonestInStep ==
  ~early =>
    \A p, q \in PlaysOn :
      LET r == client[p].round IN
      /\ client[p].stage \in {"solving", "answered"} =>
           client[q].round >= r \/ client[q] = [stage |-> "ready", round |-> r - 1]
      /\ client[p].stage \in {"reviewing", "ready"} =>
           client[q].round >= r /\ client[q] # [stage |-> "solving", round |-> r]

\* Unless an event came before start(), an RC_FINAL under way to an honest
\* player has the right result of the question it was asked last, and of every
\* honest player, present ones included, the answer to that very question:
\* a stray that answers again and again repeats the results and cannot mix
\* those of two rounds (RapidCalculation.cpp:91-129).
FinalsAreTrue ==
  \A p \in PlaysOn : \A i \in DOMAIN toClient[p] :
    LET msg == toClient[p][i] IN
    msg.event = "RC_FINAL" /\ ~early =>
      /\ client[p].round = msg.right /\ client[p].stage # "solving"
      /\ PlaysOn \subseteq DOMAIN msg.results
      /\ \A q \in DOMAIN msg.results \cap Honest : msg.results[q] = msg.right

\* When a player leaves, the game goes with it, or it keeps the entry of the
\* player in m_resultInfos (RapidCalculation.cpp:86 looks at every entry), if
\* the Player named another game by then (Session.cpp:226).  Either way the
\* game ends for the honest players who stay with the round it left in: at
\* most one more question is asked, and no results are sent of a later
\* question than the one that was asked last when it left.  Were the strays
\* alone, they could go on: those who left prepared are prepared for ever.
LeaversEndTheGame ==
  PlaysOn # {} =>
    \A p \in DOMAIN leftAt \cap DOMAIN resultInfos :
      /\ question <= leftAt[p] + 1
      /\ \A q \in online : \A i \in DOMAIN toClient[q] :
           toClient[q][i].event = "RC_FINAL" => toClient[q][i].right <= leftAt[p]
============================================================================
