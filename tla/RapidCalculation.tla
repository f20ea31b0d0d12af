------------------------- MODULE RapidCalculation -------------------------
(***************************************************************************)
(* One game of rapid calculation: class RapidCalculation, with Game::start *)
(* and what SockEventDef.h says of the events RC_START, RC_RESULT,         *)
(* RC_FINAL and RC_PREPARE.  Its events come from the connections of its   *)
(* players: a session looks for the game of its player in m_games and      *)
(* hands the event to what it finds (Session.cpp:272-277), null included.  *)
(*                                                                         *)
(* GameManager::newGame enters no game in m_games (GameManager.cpp:7-15),  *)
(* so in the program as committed a game is `gone` from the start and its  *)
(* first event ends the process.  The other behaviours of this module are  *)
(* those of the class once its games are entered.                          *)
(*                                                                         *)
(* When a connection ends, the player goes and with it the game its gameId *)
(* names (MainWindow.cpp:147-157).  That need not be this one: a player    *)
(* who was challenged meanwhile, whatever its state (Session.cpp:219-226), *)
(* or logged in again (:129) is on the list of this game and names another *)
(* or none.  Its events do not come here any more; they are taken as still *)
(* under way when it leaves.  Then this game stays, without that player.   *)
(*                                                                         *)
(* A question is identified by its number, which stands for the pair of    *)
(* random numbers; a result by the number of the question it answers.  The *)
(* time a player took is left out.                                         *)
(*                                                                         *)
(* External: the clients, which follow the protocol (one RC_RESULT per     *)
(* RC_START, one RC_PREPARE per RC_FINAL), and the connections, which are  *)
(* FIFO in each direction.                                                 *)
(***************************************************************************)
EXTENDS Naturals, Sequences

CONSTANTS
  Players,    \* m_players, the sockets of the players of the game
  MaxRounds,  \* bound: questions asked in a behaviour
  MayLeave    \* may players disconnect?

ASSUME GameAssumption ==
  /\ MaxRounds \in Nat
  /\ MayLeave \in BOOLEAN

VARIABLES
  resultInfos,  \* m_resultInfos: per socket, its state and result
  question,     \* m_number1 and m_number2, 0 before the first are drawn
  gone,         \* findGame() finds no such game
  crashed,      \* the server dereferenced null
  online,       \* the players with a session and a Player
  client,       \* external: what each client is doing, with which question
  toServer,     \* external: messages of each client under way
  toClient      \* external: messages of the server under way

vars ==
  <<resultInfos, question, gone, crashed, online, client, toServer, toClient>>

server == <<resultInfos, question, gone, crashed>>

---------------------------------------------------------------------------
(* Messages.                                                               *)

RcStart(q) == [event |-> "RC_START", question |-> q]
RcResult(q) == [event |-> "RC_RESULT", question |-> q]
RcPrepare == [event |-> "RC_PREPARE"]

\* An RC_RESULT without a body.
RcNoResult == [event |-> "RC_RESULT without a body"]

\* results: what is said of each player, right: the right result.
RcFinal(results, right) ==
  [event |-> "RC_FINAL", results |-> results, right |-> right]

\* msg goes to every player of the game who has a session; the messages in
\* `queues` are those under way already.
Broadcast(queues, msg) ==
  [p \in Players |-> IF p \in online THEN Append(queues[p], msg) ELSE queues[p]]

---------------------------------------------------------------------------
(* The class.                                                              *)

Info(state, result) == [state |-> state, result |-> result]

AllAre(infos, state) == \A p \in DOMAIN infos : infos[p].state = state

\* infos[p] = info: a map, in which the entry may be new.
With(infos, p, info) ==
  [q \in DOMAIN infos \cup {p} |-> IF q = p THEN info ELSE infos[q]]

\* As if a state of class Player had been taken for one of ResultInfo.
MutAskedFighting(infos) ==
  [p \in DOMAIN infos \cup online |->
     IF p \in online THEN Info("FIGHTING", 0) ELSE infos[p]]

\* The entries that sendQuestion() resets: those of players with a session.
Asked(infos) ==
  [p \in DOMAIN infos \cup online |->
     IF p \in online THEN Info("CALCULATING", 0) ELSE infos[p]]

\* sendQuestion() on m_resultInfos = infos, with queues of messages under way.
SendQuestion(infos, queues) ==
  /\ question' = question + 1
  /\ resultInfos' = Asked(infos)
  /\ toClient' = Broadcast(queues, RcStart(question + 1))

\* start(), called once for a game: Game::start() marks the players as
\* fighting, and then the first question is sent.
Start ==
  /\ ~crashed /\ ~gone
  /\ question = 0 /\ MaxRounds > 0
  /\ Players \subseteq online
  /\ SendQuestion(resultInfos, toClient)
  /\ UNCHANGED <<gone, crashed, online, client, toServer>>

\* There is no game to start (Session.cpp:247), or one with a player who is
\* gone: Game::start() looks for all of them.
StartCrashes ==
  /\ ~crashed
  /\ question = 0 /\ MaxRounds > 0
  /\ gone \/ ~(Players \subseteq online)
  /\ crashed' = TRUE
  /\ UNCHANGED <<resultInfos, question, gone, online, client, toServer, toClient>>

\* The next message of p is `event`, and its session hands it to the game.
Receives(p, event) ==
  /\ ~crashed /\ ~gone
  /\ p \in online
  /\ toServer[p] # <<>>
  /\ Head(toServer[p]).event = event
  /\ toServer' = [toServer EXCEPT ![p] = Tail(@)]
  /\ UNCHANGED <<gone, crashed, online, client>>

\* p's session finds no game to hand it to (Session.cpp:276), or handleResult
\* has no body to read a result from.
EventCrashes(p) ==
  /\ ~crashed
  /\ p \in online
  /\ toServer[p] # <<>>
  /\ gone \/ Head(toServer[p]) = RcNoResult
  /\ crashed' = TRUE
  /\ UNCHANGED <<resultInfos, question, gone, online, client, toServer, toClient>>

\* What RC_FINAL says: the results of the players who can be found.
FinalOf(infos) ==
  RcFinal([p \in DOMAIN infos \cap online |-> infos[p].result], question)

\* As if one player who is done were enough.
MutHandleResultAnyDone(p) ==
  /\ Receives(p, "RC_RESULT")
  /\ LET infos == With(resultInfos, p, Info("DONE", Head(toServer[p]).question))
     IN  /\ resultInfos' = infos
         /\ toClient' = IF \E q \in DOMAIN infos : infos[q].state = "DONE"
                        THEN Broadcast(toClient, FinalOf(infos))
                        ELSE toClient
  /\ UNCHANGED question

\* As if the results were put together before the new one is noted.
MutHandleResultStale(p) ==
  /\ Receives(p, "RC_RESULT")
  /\ LET infos == With(resultInfos, p, Info("DONE", Head(toServer[p]).question))
     IN  /\ resultInfos' = infos
         /\ toClient' = IF AllAre(infos, "DONE")
                        THEN Broadcast(toClient, FinalOf(resultInfos))
                        ELSE toClient
  /\ UNCHANGED question

\* As if the players who are gone were not waited for.
MutHandleResultForgetsGone(p) ==
  /\ Receives(p, "RC_RESULT")
  /\ LET infos == With(resultInfos, p, Info("DONE", Head(toServer[p]).question))
     IN  /\ resultInfos' = infos
         /\ toClient' = IF \A q \in DOMAIN infos \cap online : infos[q].state = "DONE"
                        THEN Broadcast(toClient, FinalOf(infos))
                        ELSE toClient
  /\ UNCHANGED question

\* handleResult(): the result is noted, and if it was the last one missing,
\* the results are sent.
HandleResult(p) ==
  /\ Receives(p, "RC_RESULT")
  /\ LET infos == With(resultInfos, p, Info("DONE", Head(toServer[p]).question))
     IN  /\ resultInfos' = infos
         /\ toClient' = IF AllAre(infos, "DONE")
                        THEN Broadcast(toClient, FinalOf(infos))
                        ELSE toClient
  /\ UNCHANGED question

\* As if the first player who is prepared got the next question for all.
MutHandlePrepareAtOnce(p) ==
  /\ Receives(p, "RC_PREPARE")
  /\ question < MaxRounds
  /\ SendQuestion(resultInfos, toClient)

\* As if the check for the last player were made before it is noted.
MutHandlePrepareChecksFirst(p) ==
  /\ Receives(p, "RC_PREPARE")
  /\ IF AllAre(resultInfos, "PREPARED")
     THEN question < MaxRounds /\ SendQuestion(resultInfos, toClient)
     ELSE /\ resultInfos' = With(resultInfos, p, Info("PREPARED", 0))
          /\ UNCHANGED <<question, toClient>>

\* handlePrepare(): if all are prepared, the next question is sent.  The
\* entry of a player who has none is created with result 0.
HandlePrepare(p) ==
  /\ Receives(p, "RC_PREPARE")
  /\ LET result == IF p \in DOMAIN resultInfos THEN resultInfos[p].result ELSE 0
         infos == With(resultInfos, p, Info("PREPARED", result))
     IN  IF AllAre(infos, "PREPARED")
         THEN question < MaxRounds /\ SendQuestion(infos, toClient)
         ELSE /\ resultInfos' = infos
              /\ UNCHANGED <<question, toClient>>

---------------------------------------------------------------------------
(* The clients and their connections.                                      *)

ClientGetsQuestion(p) ==
  /\ p \in online
  /\ toClient[p] # <<>>
  /\ Head(toClient[p]).event = "RC_START"
  /\ toClient' = [toClient EXCEPT ![p] = Tail(@)]
  /\ client' = [client EXCEPT ![p] = [stage |-> "solving",
                                      round |-> Head(toClient[p]).question]]
  /\ UNCHANGED <<server, online, toServer>>

ClientAnswers(p) ==
  /\ p \in online
  /\ client[p].stage = "solving"
  /\ client' = [client EXCEPT ![p].stage = "answered"]
  /\ toServer' = [toServer EXCEPT ![p] = Append(@, RcResult(client[p].round))]
  /\ UNCHANGED <<server, online, toClient>>

ClientSeesResults(p) ==
  /\ p \in online
  /\ toClient[p] # <<>>
  /\ Head(toClient[p]).event = "RC_FINAL"
  /\ toClient' = [toClient EXCEPT ![p] = Tail(@)]
  /\ client' = [client EXCEPT ![p].stage = "reviewing"]
  /\ UNCHANGED <<server, online, toServer>>

ClientPrepares(p) ==
  /\ p \in online
  /\ client[p].stage = "reviewing"
  /\ client' = [client EXCEPT ![p].stage = "ready"]
  /\ toServer' = [toServer EXCEPT ![p] = Append(@, RcPrepare)]
  /\ UNCHANGED <<server, online, toClient>>

\* The connection of p ends: its session, its Player and the game the Player
\* names go, and what was under way is lost.
Leave(p) ==
  /\ MayLeave
  /\ p \in online
  /\ online' = online \ {p}
  /\ toServer' = [toServer EXCEPT ![p] = <<>>]
  /\ toClient' = [toClient EXCEPT ![p] = <<>>]
  /\ gone' \in {gone, TRUE}
  /\ UNCHANGED <<resultInfos, question, crashed, client>>

---------------------------------------------------------------------------
Init ==
  /\ resultInfos = <<>>
  /\ question = 0
  /\ gone \in BOOLEAN
  /\ crashed = FALSE
  /\ online = Players
  /\ client = [p \in Players |-> [stage |-> "ready", round |-> 0]]
  /\ toServer = [p \in Players |-> <<>>]
  /\ toClient = [p \in Players |-> <<>>]

ServerNext ==
  \/ Start
  \/ StartCrashes
  \/ \E p \in Players : HandleResult(p) \/ HandlePrepare(p) \/ EventCrashes(p)

ClientNext(p) ==
  \/ ClientGetsQuestion(p)
  \/ ClientAnswers(p)
  \/ ClientSeesResults(p)
  \/ ClientPrepares(p)

Next ==
  \/ ServerNext
  \/ \E p \in Players : ClientNext(p) \/ Leave(p)

Spec == Init /\ [][Next]_vars

\* The message loop handles what arrives, and the players keep playing.
FairSpec ==
  /\ Spec
  /\ \A p \in Players : /\ WF_vars(HandleResult(p))
                        /\ WF_vars(HandlePrepare(p))
                        /\ WF_vars(ClientNext(p))

---------------------------------------------------------------------------
(* Properties.                                                             *)

InfoType == [state : {"PREPARED", "CALCULATING", "DONE"}, result : Nat]

ClientType ==
  [stage : {"ready", "solving", "answered", "reviewing"}, round : Nat]

\* The type invariant of the class's members and of the connections.
TypeOK ==
  /\ DOMAIN resultInfos \subseteq Players
  /\ resultInfos \in [DOMAIN resultInfos -> InfoType]
  /\ question \in Nat
  /\ gone \in BOOLEAN /\ crashed \in BOOLEAN
  /\ online \subseteq Players
  /\ client \in [Players -> ClientType]
  /\ DOMAIN toServer = Players /\ DOMAIN toClient = Players

\* No player is still at work on a question while another one, who is there,
\* is listed as prepared for the next: handleResult and handlePrepare test
\* the entries of all players, and an overlap would let neither test ever
\* succeed again (RapidCalculation.cpp:84-92, 138-149).
PhasesNeverOverlap ==
  \A p, q \in DOMAIN resultInfos \cap online :
    ~(resultInfos[p].state = "CALCULATING" /\ resultInfos[q].state = "PREPARED")

\* Whoever receives results has answered that very question, and finds there
\* the result of everybody who was there, for that question and no other
\* (RapidCalculation.cpp:92-130).
FinalsAreComplete ==
  \A p \in online : \A i \in DOMAIN toClient[p] :
    LET msg == toClient[p][i] IN
    msg.event = "RC_FINAL" =>
      /\ client[p].stage = "answered" /\ client[p].round = msg.right
      /\ online \subseteq DOMAIN msg.results
      /\ \A q \in DOMAIN msg.results : msg.results[q] = msg.right

\* The game implements the two barriers of RoundBarrier, players leaving at
\* any time included: nobody sees the results before all have answered or
\* the next question before all have prepared (RapidCalculation.cpp:43-150).
Barrier == INSTANCE RoundBarrier

KeepsPlayersTogether == Barrier!Spec

\* As long as nobody leaves, a game that was started goes on: every question
\* is answered and followed by the next (RapidCalculation.cpp:92, 146).
GameGoesOn ==
  question > 0 ~>
    \/ online # Players
    \/ \A p \in Players : client[p] = [stage |-> "ready", round |-> MaxRounds]
============================================================================
