---------------------- MODULE RapidCalculationProofs ----------------------
(***************************************************************************)
(* Proofs about RapidCalculation, for every set of players, any number of  *)
(* rounds, and players leaving at any time.                                *)
(*                                                                         *)
(* What PhasesNeverOverlap and FinalsAreComplete say of the entries and of *)
(* the messages is true because a player, its entry and its two channels   *)
(* go through eight combinations in a circle, and because the players who  *)
(* are there are all in the first four or all in the last four of them.    *)
(*                                                                         *)
(* The second part is about StrayGame, where connections that never        *)
(* answered send results and prepares whenever they like, and anybody may  *)
(* leave. The honest players still go round that circle, with results in   *)
(* front of the next question (HonestCircle), as long as nothing came      *)
(* before start(). If something did, what a player has under way and what  *)
(* it still owes are two words out of few (HonestStand), and those decide  *)
(* how far a game gets that somebody left (LeaverInv).                     *)
(***************************************************************************)
EXTENDS StrayGame, SequenceTheorems, TLAPS

---------------------------------------------------------------------------
(* The eight combinations, q being the question.                           *)

Quiet(p) == toServer[p] = << >> /\ toClient[p] = << >>

QuestionSent(p) ==
  /\ resultInfos[p].state = "CALCULATING"
  /\ client[p].stage = "ready" /\ client[p].round + 1 = question
  /\ toServer[p] = << >> /\ toClient[p] = <<RcStart(question)>>

Solving(p) ==
  /\ resultInfos[p].state = "CALCULATING"
  /\ client[p].stage = "solving" /\ client[p].round = question
  /\ Quiet(p)

AnswerSent(p) ==
  /\ resultInfos[p].state = "CALCULATING"
  /\ client[p].stage = "answered" /\ client[p].round = question
  /\ toServer[p] = <<RcResult(question)>> /\ toClient[p] = << >>

Answered(p) ==
  /\ resultInfos[p].state = "DONE" /\ resultInfos[p].result = question
  /\ client[p].stage = "answered" /\ client[p].round = question
  /\ Quiet(p)

\* msg has the results of everybody, and they are those of this question.
CompleteFinal(msg) ==
  /\ msg.event = "RC_FINAL" /\ msg.right = question
  /\ online \subseteq DOMAIN msg.results
  /\ \A q \in DOMAIN msg.results : msg.results[q] = question

ResultsSent(p) ==
  /\ resultInfos[p].state = "DONE"
  /\ client[p].stage = "answered" /\ client[p].round = question
  /\ toServer[p] = << >>
  /\ toClient[p] = <<toClient[p][1]>> /\ CompleteFinal(toClient[p][1])

Reviewing(p) ==
  /\ resultInfos[p].state = "DONE"
  /\ client[p].stage = "reviewing" /\ client[p].round = question
  /\ Quiet(p)

PrepareSent(p) ==
  /\ resultInfos[p].state = "DONE"
  /\ client[p].stage = "ready" /\ client[p].round = question
  /\ toServer[p] = <<RcPrepare>> /\ toClient[p] = << >>

Prepared(p) ==
  /\ resultInfos[p].state = "PREPARED"
  /\ client[p].stage = "ready" /\ client[p].round = question
  /\ Quiet(p)

Working(p) == QuestionSent(p) \/ Solving(p) \/ AnswerSent(p) \/ Answered(p)

Resting(p) == ResultsSent(p) \/ Reviewing(p) \/ PrepareSent(p) \/ Prepared(p)

NotStarted ==
  /\ DOMAIN resultInfos = {}
  /\ \A p \in online : /\ client[p].stage = "ready" /\ client[p].round = 0
                       /\ Quiet(p)

Circle ==
  /\ question = 0 => NotStarted
  /\ question > 0 => /\ online \subseteq DOMAIN resultInfos
                     /\ \/ \A p \in online : Working(p)
                        \/ \A p \in online : Resting(p)

GameInv == TypeOK /\ Circle

---------------------------------------------------------------------------
(* The initial state and the two properties.                               *)

LEMMA GameInit == Init => GameInv
<1> SUFFICES ASSUME Init PROVE GameInv
  OBVIOUS
<1>1. resultInfos = << >> /\ DOMAIN resultInfos = {}
  BY DEF Init
<1>2. resultInfos \in [{} -> InfoType]
  BY <1>1
<1>3. TypeOK
  BY <1>1, <1>2 DEF Init, TypeOK, ClientType
<1>4. NotStarted
  BY <1>1 DEF Init, NotStarted, Quiet
<1> QED BY <1>3, <1>4 DEF GameInv, Circle, Init

LEMMA GameInvImpliesPhases == GameInv => PhasesNeverOverlap
<1> SUFFICES ASSUME GameInv, NEW p \in DOMAIN resultInfos \cap online,
                    NEW q \in DOMAIN resultInfos \cap online,
                    resultInfos[p].state = "CALCULATING",
                    resultInfos[q].state = "PREPARED"
             PROVE  FALSE
  BY DEF PhasesNeverOverlap
<1>1. question > 0
  BY DEF GameInv, TypeOK, Circle, NotStarted
<1>2. CASE \A x \in online : Working(x)
  BY <1>2 DEF Working, QuestionSent, Solving, AnswerSent, Answered
<1>3. CASE \A x \in online : Resting(x)
  BY <1>3 DEF Resting, ResultsSent, Reviewing, PrepareSent, Prepared
<1> QED BY <1>1, <1>2, <1>3 DEF GameInv, Circle

LEMMA GameInvImpliesFinals == GameInv => FinalsAreComplete
<1> SUFFICES ASSUME GameInv, NEW p \in online, NEW i \in DOMAIN toClient[p],
                    toClient[p][i].event = "RC_FINAL"
             PROVE  /\ client[p].stage = "answered"
                    /\ client[p].round = toClient[p][i].right
                    /\ online \subseteq DOMAIN toClient[p][i].results
                    /\ \A q \in DOMAIN toClient[p][i].results :
                         toClient[p][i].results[q] = toClient[p][i].right
  BY DEF FinalsAreComplete
<1>1. question > 0
  <2>1. toClient[p] # << >>
    OBVIOUS
  <2> QED BY <2>1 DEF GameInv, TypeOK, Circle, NotStarted, Quiet
<1>2. toClient[p] # << >>
  OBVIOUS
<1>3. QuestionSent(p) \/ ResultsSent(p)
  BY <1>1, <1>2 DEF GameInv, Circle, Working, Resting, Solving, AnswerSent, Answered,
                    Reviewing, PrepareSent, Prepared, Quiet
<1>4. ~QuestionSent(p)
  <2> SUFFICES ASSUME QuestionSent(p) PROVE FALSE
    OBVIOUS
  <2>1. toClient[p] = <<RcStart(question)>>
    BY DEF QuestionSent
  <2>2. i = 1
    BY <2>1
  <2> QED BY <2>1, <2>2 DEF RcStart
<1>5. ResultsSent(p)
  BY <1>3, <1>4
<1>6. i = 1
  <2> DEFINE m == toClient[p][1]
  <2>1. toClient[p] = <<m>>
    BY <1>5 DEF ResultsSent
  <2> HIDE DEF m
  <2> QED BY <2>1
<1> QED BY <1>5, <1>6 DEF ResultsSent, CompleteFinal

---------------------------------------------------------------------------
(* The steps.                                                              *)

\* What a step leaves alone stays where it is in the circle; that somebody
\* leaves makes no difference.
LEMMA KeepsPlace ==
  ASSUME NEW q, question' = question, online' \subseteq online,
         resultInfos'[q] = resultInfos[q], client'[q] = client[q],
         toServer'[q] = toServer[q], toClient'[q] = toClient[q]
  PROVE  (Working(q) => Working(q)') /\ (Resting(q) => Resting(q)')
<1>1. /\ QuestionSent(q) => QuestionSent(q)'
      /\ Solving(q) => Solving(q)'
      /\ AnswerSent(q) => AnswerSent(q)'
      /\ Answered(q) => Answered(q)'
  BY DEF QuestionSent, Solving, AnswerSent, Answered, Quiet
<1>2. /\ Reviewing(q) => Reviewing(q)'
      /\ PrepareSent(q) => PrepareSent(q)'
      /\ Prepared(q) => Prepared(q)'
  BY DEF Reviewing, PrepareSent, Prepared, Quiet
<1>3. ResultsSent(q) => ResultsSent(q)'
  BY DEF ResultsSent, CompleteFinal
<1> QED BY <1>1, <1>2, <1>3 DEF Working, Resting

\* p moves on within the first half, or within the second half, alone.
OnlyMoves(p) ==
  /\ question' = question /\ online' = online
  /\ DOMAIN resultInfos' = DOMAIN resultInfos
  /\ \A q \in online \ {p} :
       /\ resultInfos'[q] = resultInfos[q] /\ client'[q] = client[q]
       /\ toServer'[q] = toServer[q] /\ toClient'[q] = toClient[q]

LEMMA MoveKeepsCircle ==
  ASSUME GameInv, NEW p \in online, OnlyMoves(p), question > 0,
         \/ (\A q \in online : Working(q)) /\ Working(p)'
         \/ (\A q \in online : Resting(q)) /\ Resting(p)'
  PROVE  Circle'
<1>1. question' > 0 /\ question' # 0 /\ online' = online
  BY DEF OnlyMoves, GameInv, TypeOK
<1>2. online' \subseteq DOMAIN resultInfos'
  BY DEF OnlyMoves, GameInv, Circle
<1>3. \A q \in online \ {p} :
        (Working(q) => Working(q)') /\ (Resting(q) => Resting(q)')
  BY KeepsPlace DEF OnlyMoves
<1>4. (\A q \in online : Working(q)') \/ (\A q \in online : Resting(q)')
  BY <1>3
<1> QED BY <1>1, <1>2, <1>4 DEF Circle

\* A player who is at work, or has a message under way, is in a started game.
LEMMA BusyMeansStarted ==
  ASSUME GameInv, NEW p \in online,
         client[p].stage # "ready" \/ toServer[p] # << >> \/ toClient[p] # << >>
  PROVE  question > 0 /\ (\/ \A q \in online : Working(q)
                          \/ \A q \in online : Resting(q))
BY DEF GameInv, TypeOK, Circle, NotStarted, Quiet

\* In each half, only one of the four combinations fits what p does next.
LEMMA PlaceOf ==
  ASSUME NEW p
  PROVE  /\ client[p].stage = "solving" /\ Working(p) => Solving(p)
         /\ client[p].stage = "solving" => ~Resting(p)
         /\ client[p].stage = "reviewing" /\ Resting(p) => Reviewing(p)
         /\ client[p].stage = "reviewing" => ~Working(p)
         /\ toServer[p] # << >> /\ Working(p) => AnswerSent(p)
         /\ toServer[p] # << >> /\ Resting(p) => PrepareSent(p)
         /\ toClient[p] # << >> /\ Working(p) => QuestionSent(p)
         /\ toClient[p] # << >> /\ Resting(p) => ResultsSent(p)
<1>1. /\ client[p].stage = "solving" /\ Working(p) => Solving(p)
      /\ client[p].stage = "solving" => ~Resting(p)
      /\ client[p].stage = "reviewing" /\ Resting(p) => Reviewing(p)
      /\ client[p].stage = "reviewing" => ~Working(p)
  BY DEF Working, Resting, QuestionSent, Solving, AnswerSent, Answered,
         ResultsSent, Reviewing, PrepareSent, Prepared
<1>2. /\ toServer[p] # << >> /\ Working(p) => AnswerSent(p)
      /\ toServer[p] # << >> /\ Resting(p) => PrepareSent(p)
      /\ toClient[p] # << >> /\ Working(p) => QuestionSent(p)
      /\ toClient[p] # << >> /\ Resting(p) => ResultsSent(p)
  BY DEF Working, Resting, QuestionSent, Solving, AnswerSent, Answered,
         ResultsSent, Reviewing, PrepareSent, Prepared, Quiet
<1> QED BY <1>1, <1>2

\* The head of a channel with one message tells where its player is.
LEMMA HeadTells ==
  ASSUME NEW p
  PROVE  /\ AnswerSent(p) => /\ Head(toServer[p]) = RcResult(question)
                             /\ Tail(toServer[p]) = << >>
         /\ PrepareSent(p) => /\ Head(toServer[p]) = RcPrepare
                              /\ Tail(toServer[p]) = << >>
         /\ QuestionSent(p) => /\ Head(toClient[p]) = RcStart(question)
                               /\ Tail(toClient[p]) = << >>
         /\ ResultsSent(p) => /\ Head(toClient[p]).event = "RC_FINAL"
                              /\ Tail(toClient[p]) = << >>
<1>1. \A m : Head(<<m>>) = m /\ Tail(<<m>>) = << >>
  OBVIOUS
<1>2. ResultsSent(p) => /\ Head(toClient[p]).event = "RC_FINAL"
                        /\ Tail(toClient[p]) = << >>
  BY <1>1 DEF ResultsSent, CompleteFinal
<1> QED BY <1>1, <1>2 DEF AnswerSent, PrepareSent, QuestionSent

\* A message sent on an empty channel is the only one there.
LEMMA AppendToEmpty == \A m : Append(<< >>, m) = <<m>>
OBVIOUS

\* start() asks the first question.
LEMMA StartKeepsInv == GameInv /\ Start => GameInv'
<1> SUFFICES ASSUME GameInv, Start PROVE GameInv'
  OBVIOUS
<1>1. /\ question = 0 /\ question' = 1 /\ online' = online
      /\ online = Players /\ DOMAIN resultInfos = {}
      /\ client' = client /\ toServer' = toServer /\ gone' = gone /\ crashed' = crashed
      /\ toClient' = Broadcast(toClient, RcStart(1))
      /\ resultInfos' = Asked(resultInfos)
  BY DEF Start, SendQuestion, GameInv, TypeOK, Circle, NotStarted
<1>2. resultInfos' = [p \in Players |-> Info("CALCULATING", 0)]
  BY <1>1 DEF Asked
<1>3. toClient' = [p \in Players |-> <<RcStart(1)>>]
  <2>1. \A p \in Players : Append(toClient[p], RcStart(1)) = <<RcStart(1)>>
    BY <1>1, AppendToEmpty DEF GameInv, Circle, NotStarted, Quiet
  <2> QED BY <1>1, <2>1 DEF Broadcast
<1>4. TypeOK'
  BY <1>1, <1>2, <1>3 DEF GameInv, TypeOK, InfoType, Info
<1>5. \A p \in online' : QuestionSent(p)'
  BY <1>1, <1>2, <1>3 DEF QuestionSent, Info, GameInv, TypeOK, Circle, NotStarted, Quiet
<1>6. Circle'
  BY <1>1, <1>2, <1>5 DEF Circle, Working
<1> QED BY <1>4, <1>6 DEF GameInv

\* A result moves its player from AnswerSent to Answered, or, if it was the
\* last, everybody from there to ResultsSent.
LEMMA HandleResultKeepsInv ==
  ASSUME GameInv, NEW p \in Players, HandleResult(p)
  PROVE  GameInv'
<1> DEFINE info == Info("DONE", Head(toServer[p]).question)
<1> DEFINE infos == With(resultInfos, p, info)
<1>1. /\ p \in online /\ toServer[p] # << >>
      /\ Head(toServer[p]).event = "RC_RESULT"
      /\ toServer' = [toServer EXCEPT ![p] = Tail(@)]
      /\ gone' = gone /\ crashed' = crashed /\ online' = online /\ client' = client
      /\ question' = question
      /\ resultInfos' = infos
      /\ toClient' = IF AllAre(infos, "DONE")
                     THEN Broadcast(toClient, FinalOf(infos)) ELSE toClient
  BY DEF HandleResult, Receives
<1>2. question > 0
  BY <1>1, BusyMeansStarted
<1>3. (\A q \in online : Working(q)) /\ AnswerSent(p)
  <2>1. ~PrepareSent(p)
    BY <1>1, HeadTells DEF RcPrepare
  <2>2. ~Resting(p)
    BY <1>1, <2>1, PlaceOf
  <2>3. \A q \in online : Working(q)
    BY <1>1, <2>2, BusyMeansStarted
  <2> QED BY <1>1, <2>3, PlaceOf
<1>4. Head(toServer[p]) = RcResult(question) /\ Tail(toServer[p]) = << >>
  BY <1>3, HeadTells
<1>5. info = Info("DONE", question)
  BY <1>4 DEF RcResult
<1> HIDE DEF info
<1>6. DOMAIN resultInfos \subseteq Players /\ p \in DOMAIN resultInfos
      /\ online \subseteq DOMAIN resultInfos
  BY <1>1, <1>2 DEF GameInv, TypeOK, Circle
<1>7. /\ DOMAIN infos = DOMAIN resultInfos
      /\ infos[p] = Info("DONE", question)
      /\ \A q \in DOMAIN resultInfos : q # p => infos[q] = resultInfos[q]
  BY <1>5, <1>6 DEF With
<1>8. infos \in [DOMAIN infos -> InfoType]
  <2>1. info \in InfoType
    BY <1>5 DEF Info, InfoType, GameInv, TypeOK
  <2>2. \A q \in DOMAIN resultInfos : resultInfos[q] \in InfoType
    BY DEF GameInv, TypeOK
  <2> QED BY <1>6, <2>1, <2>2 DEF With
<1> HIDE DEF infos
<1>9. DOMAIN toClient' = Players /\ DOMAIN toServer' = Players
  BY <1>1 DEF GameInv, TypeOK, Broadcast
<1>10. TypeOK'
  BY <1>1, <1>6, <1>7, <1>8, <1>9 DEF GameInv, TypeOK
<1>11. /\ toServer'[p] = << >>
       /\ \A q \in Players : q # p => toServer'[q] = toServer[q]
  BY <1>1, <1>4 DEF GameInv, TypeOK
<1>12. Info("DONE", question).state = "DONE" /\ Info("DONE", question).result = question
  BY DEF Info
<1>13. CASE ~AllAre(infos, "DONE")
  <2>1. toClient' = toClient
    BY <1>1, <1>13
  <2>2. Answered(p)'
    BY <1>1, <1>3, <1>7, <1>11, <1>12, <2>1 DEF AnswerSent, Answered, Quiet
  <2>3. OnlyMoves(p)
    BY <1>1, <1>6, <1>7, <1>11, <2>1 DEF OnlyMoves, GameInv, TypeOK
  <2>4. Circle'
    BY <1>1, <1>2, <1>3, <2>2, <2>3, MoveKeepsCircle DEF Working
  <2> QED BY <1>10, <2>4 DEF GameInv
<1>14. CASE AllAre(infos, "DONE")
  <2>1. toClient' = Broadcast(toClient, FinalOf(infos))
    BY <1>1, <1>14
  <2>2. \A q \in online : infos[q].state = "DONE" /\ infos[q].result = question
    <3> TAKE q \in online
    <3>1. CASE q = p
      BY <1>7, <1>12, <3>1
    <3>2. CASE q # p
      <4>1. infos[q] = resultInfos[q] /\ infos[q].state = "DONE"
        BY <1>6, <1>7, <1>14, <3>2 DEF AllAre
      <4>2. Answered(q)
        BY <1>3, <4>1 DEF Working, QuestionSent, Solving, AnswerSent
      <4> QED BY <4>1, <4>2 DEF Answered
    <3> QED BY <3>1, <3>2
  <2>3. \A q \in online : client[q].stage = "answered" /\ client[q].round = question
                          /\ toClient[q] = << >> /\ toServer'[q] = << >>
    <3> TAKE q \in online
    <3>1. CASE q = p
      BY <1>3, <1>11, <3>1 DEF AnswerSent
    <3>2. CASE q # p
      <4>1. infos[q] = resultInfos[q] /\ infos[q].state = "DONE"
        BY <1>6, <1>7, <1>14, <3>2 DEF AllAre
      <4>2. Answered(q)
        BY <1>3, <4>1 DEF Working, QuestionSent, Solving, AnswerSent
      <4> QED BY <1>6, <1>11, <3>2, <4>2 DEF Answered, Quiet
    <3> QED BY <3>1, <3>2
  <2>4. PICK msg : msg = FinalOf(infos)
    OBVIOUS
  <2>5. CompleteFinal(msg)'
    <3>1. /\ msg.event = "RC_FINAL" /\ msg.right = question
          /\ msg.results = [q \in DOMAIN infos \cap online |-> infos[q].result]
      BY <2>4 DEF FinalOf, RcFinal
    <3>2. online \subseteq DOMAIN msg.results
      BY <1>6, <1>7, <3>1
    <3>3. \A q \in DOMAIN msg.results : msg.results[q] = question
      BY <2>2, <3>1
    <3> QED BY <1>1, <3>1, <3>2, <3>3 DEF CompleteFinal
  <2>6. \A q \in online : toClient'[q] = <<msg>>
    <3> TAKE q \in online
    <3>1. q \in Players
      BY DEF GameInv, TypeOK
    <3>2. toClient'[q] = Append(toClient[q], msg)
      BY <2>1, <2>4, <3>1 DEF Broadcast
    <3> QED BY <2>3, <3>2, AppendToEmpty
  <2>7. \A q \in online' : ResultsSent(q)'
    <3>1. \A q \in online : toClient'[q][1] = msg
      BY <2>6
    <3> QED BY <1>1, <2>2, <2>3, <2>5, <2>6, <3>1 DEF ResultsSent
  <2>8. Circle'
    BY <1>1, <1>2, <1>6, <1>7, <2>7 DEF Circle, Resting
  <2> QED BY <1>10, <2>8 DEF GameInv
<1> QED BY <1>13, <1>14

\* An RC_PREPARE moves its player from PrepareSent to Prepared, or, if it was
\* the last, everybody to QuestionSent of the next question.
LEMMA HandlePrepareKeepsInv ==
  ASSUME GameInv, NEW p \in Players, HandlePrepare(p)
  PROVE  GameInv'
<1>1. /\ p \in online /\ toServer[p] # << >>
      /\ Head(toServer[p]).event = "RC_PREPARE"
      /\ toServer' = [toServer EXCEPT ![p] = Tail(@)]
      /\ gone' = gone /\ crashed' = crashed /\ online' = online /\ client' = client
  BY DEF HandlePrepare, Receives
<1>2. question > 0
  BY <1>1, BusyMeansStarted
<1>3. (\A q \in online : Resting(q)) /\ PrepareSent(p)
  <2>1. ~AnswerSent(p)
    BY <1>1, HeadTells DEF RcResult
  <2>2. ~Working(p)
    BY <1>1, <2>1, PlaceOf
  <2>3. \A q \in online : Resting(q)
    BY <1>1, <2>2, BusyMeansStarted
  <2> QED BY <1>1, <2>3, PlaceOf
<1>4. DOMAIN resultInfos \subseteq Players /\ p \in DOMAIN resultInfos
      /\ online \subseteq DOMAIN resultInfos /\ online \subseteq Players
  BY <1>1, <1>2 DEF GameInv, TypeOK, Circle
<1> DEFINE infos == With(resultInfos, p, Info("PREPARED", resultInfos[p].result))
<1>5. IF AllAre(infos, "PREPARED")
      THEN question < MaxRounds /\ SendQuestion(infos, toClient)
      ELSE resultInfos' = infos /\ UNCHANGED <<question, toClient>>
  BY <1>4 DEF HandlePrepare
<1>6. /\ DOMAIN infos = DOMAIN resultInfos
      /\ infos[p].state = "PREPARED"
      /\ \A q \in DOMAIN resultInfos : q # p => infos[q] = resultInfos[q]
      /\ infos \in [DOMAIN infos -> InfoType]
  BY <1>4 DEF With, Info, InfoType, GameInv, TypeOK
<1> HIDE DEF infos
<1>7. /\ toServer'[p] = << >> /\ DOMAIN toServer' = Players
      /\ \A q \in Players : q # p => toServer'[q] = toServer[q]
  BY <1>1, <1>3, HeadTells DEF GameInv, TypeOK
<1>8. CASE ~AllAre(infos, "PREPARED")
  <2>1. resultInfos' = infos /\ question' = question /\ toClient' = toClient
    BY <1>5, <1>8
  <2>2. Prepared(p)'
    BY <1>1, <1>3, <1>6, <1>7, <2>1 DEF PrepareSent, Prepared, Quiet
  <2>3. OnlyMoves(p)
    BY <1>1, <1>4, <1>6, <1>7, <2>1 DEF OnlyMoves
  <2>4. Circle'
    BY <1>1, <1>2, <1>3, <2>2, <2>3, MoveKeepsCircle DEF Resting
  <2>5. TypeOK'
    BY <1>1, <1>4, <1>6, <1>7, <2>1 DEF GameInv, TypeOK
  <2> QED BY <2>4, <2>5 DEF GameInv
<1>9. CASE AllAre(infos, "PREPARED")
  <2>1. /\ question' = question + 1
        /\ resultInfos' = Asked(infos)
        /\ toClient' = Broadcast(toClient, RcStart(question + 1))
    BY <1>5, <1>9 DEF SendQuestion
  <2>2. \A q \in online : client[q].stage = "ready" /\ client[q].round = question
                          /\ toClient[q] = << >> /\ toServer'[q] = << >>
    <3> TAKE q \in online
    <3>1. CASE q = p
      BY <1>3, <1>7, <3>1 DEF PrepareSent
    <3>2. CASE q # p
      <4>1. resultInfos[q].state = "PREPARED"
        BY <1>4, <1>6, <1>9, <3>2 DEF AllAre
      <4>2. Prepared(q)
        BY <1>3, <4>1 DEF Resting, ResultsSent, Reviewing, PrepareSent
      <4> QED BY <1>4, <1>7, <3>2, <4>2 DEF Prepared, Quiet
    <3> QED BY <3>1, <3>2
  <2>3. /\ DOMAIN resultInfos' = DOMAIN resultInfos
        /\ \A q \in online : resultInfos'[q] = Info("CALCULATING", 0)
        /\ resultInfos' \in [DOMAIN resultInfos' -> InfoType]
    BY <1>4, <1>6, <2>1 DEF Asked, Info, InfoType
  <2>4. \A q \in online : toClient'[q] = <<RcStart(question')>>
    <3> TAKE q \in online
    <3>1. toClient'[q] = Append(toClient[q], RcStart(question'))
      BY <1>4, <2>1 DEF Broadcast
    <3> QED BY <2>2, <3>1, AppendToEmpty
  <2>5. \A q \in online' : QuestionSent(q)'
    BY <1>1, <2>1, <2>2, <2>3, <2>4 DEF QuestionSent, Info
  <2>6. question' \in Nat /\ question' > 0
    BY <2>1 DEF GameInv, TypeOK
  <2>7. Circle'
    BY <1>1, <1>4, <2>3, <2>5, <2>6 DEF Circle, Working
  <2>8. TypeOK'
    BY <1>1, <1>4, <1>7, <2>1, <2>3, <2>6 DEF GameInv, TypeOK, Broadcast
  <2> QED BY <2>7, <2>8 DEF GameInv
<1> QED BY <1>8, <1>9

\* A client that does something moves on within its half of the circle.
LEMMA ClientKeepsInv ==
  ASSUME GameInv, NEW p \in Players, ClientNext(p)
  PROVE  GameInv'
<1>1. CASE ClientGetsQuestion(p)
  <2>1. p \in online /\ toClient[p] # << >> /\ Head(toClient[p]).event = "RC_START"
    BY <1>1 DEF ClientGetsQuestion
  <2>2. question > 0
    BY <2>1, BusyMeansStarted
  <2>3. (\A q \in online : Working(q)) /\ QuestionSent(p)
    <3>1. ~Resting(p)
      BY <2>1, PlaceOf, HeadTells
    <3>2. \A q \in online : Working(q)
      BY <2>1, <3>1, BusyMeansStarted
    <3> QED BY <2>1, <3>2, PlaceOf
  <2>4. Head(toClient[p]) = RcStart(question) /\ Tail(toClient[p]) = << >>
    BY <2>3, HeadTells
  <2>5. /\ client' = [client EXCEPT ![p] = [stage |-> "solving", round |-> question]]
        /\ toClient' = [toClient EXCEPT ![p] = << >>]
        /\ UNCHANGED <<server, online, toServer>>
    <3>1. Head(toClient[p]).question = question
      BY <2>4 DEF RcStart
    <3> QED BY <1>1, <2>4, <3>1 DEF ClientGetsQuestion
  <2>6. TypeOK'
    BY <2>5 DEF GameInv, TypeOK, ClientType, server
  <2>7. Solving(p)'
    BY <2>3, <2>5 DEF QuestionSent, Solving, Quiet, GameInv, TypeOK, server
  <2>8. OnlyMoves(p)
    BY <2>5 DEF OnlyMoves, GameInv, TypeOK, server
  <2> QED BY <2>1, <2>2, <2>3, <2>6, <2>7, <2>8, MoveKeepsCircle DEF GameInv, Working
<1>2. CASE ClientAnswers(p)
  <2>1. p \in online /\ client[p].stage = "solving"
    BY <1>2 DEF ClientAnswers
  <2>2. question > 0
    BY <2>1, BusyMeansStarted
  <2>3. (\A q \in online : Working(q)) /\ Solving(p)
    BY <2>1, BusyMeansStarted, PlaceOf
  <2>4. /\ client' = [client EXCEPT ![p].stage = "answered"]
        /\ toServer' = [toServer EXCEPT ![p] = <<RcResult(question)>>]
        /\ UNCHANGED <<server, online, toClient>>
    BY <1>2, <2>3, AppendToEmpty DEF ClientAnswers, Solving, Quiet
  <2>5. TypeOK'
    BY <2>4 DEF GameInv, TypeOK, ClientType, server
  <2>6. AnswerSent(p)'
    BY <2>3, <2>4 DEF AnswerSent, Solving, Quiet, GameInv, TypeOK, ClientType, server
  <2>7. OnlyMoves(p)
    BY <2>4 DEF OnlyMoves, GameInv, TypeOK, server
  <2> QED BY <2>1, <2>2, <2>3, <2>5, <2>6, <2>7, MoveKeepsCircle DEF GameInv, Working
<1>3. CASE ClientSeesResults(p)
  <2>1. p \in online /\ toClient[p] # << >> /\ Head(toClient[p]).event = "RC_FINAL"
    BY <1>3 DEF ClientSeesResults
  <2>2. question > 0
    BY <2>1, BusyMeansStarted
  <2>3. (\A q \in online : Resting(q)) /\ ResultsSent(p)
    <3>1. ~Working(p)
      BY <2>1, PlaceOf, HeadTells DEF RcStart
    <3>2. \A q \in online : Resting(q)
      BY <2>1, <3>1, BusyMeansStarted
    <3> QED BY <2>1, <3>2, PlaceOf
  <2>4. Tail(toClient[p]) = << >>
    BY <2>3, HeadTells
  <2>5. /\ client' = [client EXCEPT ![p].stage = "reviewing"]
        /\ toClient' = [toClient EXCEPT ![p] = << >>]
        /\ UNCHANGED <<server, online, toServer>>
    BY <1>3, <2>4 DEF ClientSeesResults
  <2>6. TypeOK'
    BY <2>5 DEF GameInv, TypeOK, ClientType, server
  <2>7. Reviewing(p)'
    BY <2>3, <2>5 DEF ResultsSent, Reviewing, Quiet, GameInv, TypeOK, ClientType, server
  <2>8. OnlyMoves(p)
    BY <2>5 DEF OnlyMoves, GameInv, TypeOK, server
  <2> QED BY <2>1, <2>2, <2>3, <2>6, <2>7, <2>8, MoveKeepsCircle DEF GameInv, Resting
<1>4. CASE ClientPrepares(p)
  <2>1. p \in online /\ client[p].stage = "reviewing"
    BY <1>4 DEF ClientPrepares
  <2>2. question > 0
    BY <2>1, BusyMeansStarted
  <2>3. (\A q \in online : Resting(q)) /\ Reviewing(p)
    BY <2>1, BusyMeansStarted, PlaceOf
  <2>4. /\ client' = [client EXCEPT ![p].stage = "ready"]
        /\ toServer' = [toServer EXCEPT ![p] = <<RcPrepare>>]
        /\ UNCHANGED <<server, online, toClient>>
    BY <1>4, <2>3, AppendToEmpty DEF ClientPrepares, Reviewing, Quiet
  <2>5. TypeOK'
    BY <2>4 DEF GameInv, TypeOK, ClientType, server
  <2>6. PrepareSent(p)'
    BY <2>3, <2>4 DEF PrepareSent, Reviewing, Quiet, GameInv, TypeOK, ClientType, server
  <2>7. OnlyMoves(p)
    BY <2>4 DEF OnlyMoves, GameInv, TypeOK, server
  <2> QED BY <2>1, <2>2, <2>3, <2>5, <2>6, <2>7, MoveKeepsCircle DEF GameInv, Resting
<1> QED BY <1>1, <1>2, <1>3, <1>4 DEF ClientNext

\* A player who leaves disturbs nobody's place.
LEMMA LeaveKeepsInv ==
  ASSUME GameInv, NEW p \in Players, Leave(p)
  PROVE  GameInv'
<1>1. /\ online' = online \ {p}
      /\ toServer' = [toServer EXCEPT ![p] = << >>]
      /\ toClient' = [toClient EXCEPT ![p] = << >>]
      /\ client' = client /\ resultInfos' = resultInfos
      /\ question' = question /\ gone' \in {gone, TRUE} /\ crashed' = crashed
  BY DEF Leave, server
<1>2. TypeOK'
  <2>1. gone' \in BOOLEAN
    BY <1>1 DEF GameInv, TypeOK
  <2> QED BY <1>1, <2>1 DEF GameInv, TypeOK
<1>3. \A q \in online' : /\ q \in online
                         /\ toServer'[q] = toServer[q] /\ toClient'[q] = toClient[q]
  BY <1>1 DEF GameInv, TypeOK
<1>4. \A q \in online' : (Working(q) => Working(q)') /\ (Resting(q) => Resting(q)')
  BY <1>1, <1>3, KeepsPlace
<1>5. NotStarted => NotStarted'
  BY <1>1, <1>3 DEF NotStarted, Quiet
<1>6. Circle'
  BY <1>1, <1>3, <1>4, <1>5 DEF GameInv, Circle
<1> QED BY <1>2, <1>6 DEF GameInv

\* The process ends; nothing else changes.
LEMMA CrashKeepsInv ==
  ASSUME GameInv, crashed' = TRUE,
         UNCHANGED <<resultInfos, question, gone, online, client, toServer, toClient>>
  PROVE  GameInv'
BY DEF GameInv, TypeOK, Circle, NotStarted, Working, Resting,
   QuestionSent, Solving, AnswerSent, Answered, ResultsSent, Reviewing,
   PrepareSent, Prepared, Quiet, CompleteFinal

LEMMA GameStep == GameInv /\ [Next]_vars => GameInv'
<1> SUFFICES ASSUME GameInv, [Next]_vars PROVE GameInv'
  OBVIOUS
<1>1. CASE Start
  BY <1>1, StartKeepsInv
<1>2. CASE StartCrashes
  BY <1>2, CrashKeepsInv DEF StartCrashes
<1>3. ASSUME NEW p \in Players, HandleResult(p) PROVE GameInv'
  BY <1>3, HandleResultKeepsInv
<1>4. ASSUME NEW p \in Players, HandlePrepare(p) PROVE GameInv'
  BY <1>4, HandlePrepareKeepsInv
<1>5. ASSUME NEW p \in Players, ClientNext(p) PROVE GameInv'
  BY <1>5, ClientKeepsInv
<1>6. ASSUME NEW p \in Players, Leave(p) PROVE GameInv'
  BY <1>6, LeaveKeepsInv
<1>7. ASSUME NEW p \in Players, EventCrashes(p) PROVE GameInv'
  BY <1>7, CrashKeepsInv DEF EventCrashes
<1>8. CASE UNCHANGED vars
  BY <1>8 DEF vars, GameInv, TypeOK, Circle, NotStarted, Working, Resting,
     QuestionSent, Solving, AnswerSent, Answered, ResultsSent, Reviewing,
     PrepareSent, Prepared, Quiet, CompleteFinal
<1> QED BY <1>1, <1>2, <1>3, <1>4, <1>5, <1>6, <1>7, <1>8 DEF Next, ServerNext

---------------------------------------------------------------------------
\* The members of the class and the clients always have their types.
THEOREM GameTypeCorrect == Spec => []TypeOK
<1>1. GameInv => TypeOK
  BY DEF GameInv
<1> QED BY GameInit, GameStep, <1>1, PTL DEF Spec

\* No player is at work while another is listed as prepared for what follows.
THEOREM GamePhases == Spec => []PhasesNeverOverlap
BY GameInit, GameStep, GameInvImpliesPhases, PTL DEF Spec

\* Every RC_FINAL has the result of every player who is there, for the
\* question its receiver answered.
THEOREM GameFinals == Spec => []FinalsAreComplete
BY GameInit, GameStep, GameInvImpliesFinals, PTL DEF Spec

---------------------------------------------------------------------------
(* RapidCalculation implements RoundBarrier.                               *)

LEMMA BarrierInit == Init => Barrier!Init
BY DEF Init, Barrier!Init

\* Changing the stage of p is giving it a record with the same round.
LEMMA StageOnly ==
  ASSUME TypeOK, NEW p \in Players, NEW s
  PROVE  [client EXCEPT ![p].stage = s]
           = [client EXCEPT ![p] = [stage |-> s, round |-> client[p].round]]
<1>1. client[p] \in ClientType
  BY DEF TypeOK
<1>2. [client[p] EXCEPT !.stage = s] = [stage |-> s, round |-> client[p].round]
  BY <1>1 DEF ClientType
<1> QED BY <1>2

LEMMA BarrierStep == GameInv /\ [Next]_vars => [Barrier!Next]_(Barrier!vars)
<1> SUFFICES ASSUME GameInv, [Next]_vars PROVE [Barrier!Next]_(Barrier!vars)
  OBVIOUS
<1> USE DEF Barrier!vars
<1>1. CASE ServerNext
  <2>1. client' = client /\ online' = online
    BY <1>1 DEF ServerNext, Start, StartCrashes, HandleResult, HandlePrepare, Receives,
       EventCrashes
  <2> QED BY <2>1
<1>2. ASSUME NEW p \in Players, ClientGetsQuestion(p) PROVE Barrier!Next
  <2>1. p \in online /\ toClient[p] # << >> /\ Head(toClient[p]).event = "RC_START"
    BY <1>2 DEF ClientGetsQuestion
  <2>2. ~Resting(p)
    BY <2>1, PlaceOf, HeadTells
  <2>3. \A q \in online : Working(q)
    BY <2>1, <2>2, BusyMeansStarted
  <2>4. QuestionSent(p)
    BY <2>1, <2>3, PlaceOf
  <2>5. Head(toClient[p]).question = question
    BY <2>4, HeadTells DEF RcStart
  <2>6. client[p].stage = "ready" /\ client[p].round + 1 = question
        /\ client[p].round \in Nat
    BY <2>4 DEF QuestionSent, GameInv, TypeOK, ClientType
  <2>7. client' = [client EXCEPT ![p] = [stage |-> "solving", round |-> client[p].round + 1]]
        /\ online' = online
    BY <1>2, <2>5, <2>6 DEF ClientGetsQuestion
  <2>8. \A q \in online : Barrier!HasPrepared(client[q], client[p].round)
    <3> TAKE q \in online
    <3>1. client[q].round \in Nat /\ question \in Nat
      BY DEF GameInv, TypeOK, ClientType
    <3>2. client[q].round = question
          \/ (client[q].stage = "ready" /\ client[q].round + 1 = question)
      BY <2>3 DEF Working, QuestionSent, Solving, AnswerSent, Answered
    <3> QED BY <2>6, <3>1, <3>2 DEF Barrier!HasPrepared
  <2>9. Barrier!GetQuestion(p)
    BY <2>6, <2>7, <2>8 DEF Barrier!GetQuestion, Barrier!Advance
  <2> QED BY <2>1, <2>9 DEF Barrier!Next
<1>3. ASSUME NEW p \in Players, ClientAnswers(p) PROVE Barrier!Next
  <2>1. client' = [client EXCEPT ![p] = [stage |-> "answered", round |-> client[p].round]]
    BY <1>3, StageOnly DEF ClientAnswers, GameInv
  <2>2. p \in online /\ client[p].stage = "solving" /\ online' = online
    BY <1>3 DEF ClientAnswers
  <2> QED BY <2>1, <2>2 DEF Barrier!Next, Barrier!Answer, Barrier!Advance
<1>4. ASSUME NEW p \in Players, ClientSeesResults(p) PROVE Barrier!Next
  <2>1. p \in online /\ toClient[p] # << >> /\ Head(toClient[p]).event = "RC_FINAL"
    BY <1>4 DEF ClientSeesResults
  <2>2. ~Working(p)
    BY <2>1, PlaceOf, HeadTells DEF RcStart
  <2>3. \A q \in online : Resting(q)
    BY <2>1, <2>2, BusyMeansStarted
  <2>4. ResultsSent(p)
    BY <2>1, <2>3, PlaceOf
  <2>5. client[p].stage = "answered" /\ client[p].round = question
    BY <2>4 DEF ResultsSent
  <2>6. client' = [client EXCEPT ![p] = [stage |-> "reviewing", round |-> client[p].round]]
        /\ online' = online
    BY <1>4, StageOnly DEF ClientSeesResults, GameInv
  <2>7. \A q \in online : Barrier!HasAnswered(client[q], client[p].round)
    BY <2>3, <2>5 DEF Resting, ResultsSent, Reviewing, PrepareSent, Prepared,
                      Barrier!HasAnswered
  <2>8. Barrier!SeeResults(p)
    BY <2>5, <2>6, <2>7 DEF Barrier!SeeResults, Barrier!Advance
  <2> QED BY <2>1, <2>8 DEF Barrier!Next
<1>5. ASSUME NEW p \in Players, ClientPrepares(p) PROVE Barrier!Next
  <2>1. client' = [client EXCEPT ![p] = [stage |-> "ready", round |-> client[p].round]]
    BY <1>5, StageOnly DEF ClientPrepares, GameInv
  <2>2. p \in online /\ client[p].stage = "reviewing" /\ online' = online
    BY <1>5 DEF ClientPrepares
  <2> QED BY <2>1, <2>2 DEF Barrier!Next, Barrier!Prepare, Barrier!Advance
<1>6. ASSUME NEW p \in Players, Leave(p) PROVE Barrier!Next
  BY <1>6 DEF Leave, Barrier!Next, Barrier!Leave
<1>7. CASE UNCHANGED vars
  BY <1>7 DEF vars
<1> QED BY <1>1, <1>2, <1>3, <1>4, <1>5, <1>6, <1>7 DEF Next, ClientNext

\* The game keeps its players together, whoever leaves and whenever: it is an
\* implementation of the two barriers.
THEOREM GameKeepsPlayersTogether == Spec => KeepsPlayersTogether
<1>1. Init => Barrier!Init
  BY BarrierInit
<1>2. GameInv /\ [Next]_vars => [Barrier!Next]_(Barrier!vars)
  BY BarrierStep
<1> QED BY <1>1, <1>2, GameInit, GameStep, PTL DEF Spec, KeepsPlayersTogether, Barrier!Spec


---------------------------------------------------------------------------
(* StrayGame: the types.                                                   *)

Said ==
  [event : {"RC_RESULT"}, question : Nat]
    \cup [event : {"RC_PREPARE", "RC_RESULT without a body"}]

Results == UNION {[D -> Nat] : D \in SUBSET Players}

Heard ==
  [event : {"RC_START"}, question : Nat]
    \cup [event : {"RC_FINAL"}, results : Results, right : Nat]

StrayType ==
  /\ TypeOK
  /\ toServer \in [Players -> Seq(Said)]
  /\ toClient \in [Players -> Seq(Heard)]
  /\ started \in BOOLEAN /\ early \in BOOLEAN
  /\ DOMAIN leftAt \subseteq Players
  /\ \A p \in DOMAIN leftAt : leftAt[p] \in Nat

---------------------------------------------------------------------------
(* As long as no event came before start(), the honest players who are     *)
(* there go round the circle together; what the strays do repeats results, *)
(* which pile up in front of the next question.                            *)

\* msg has the results of question r, as far as honest players go, of whom
\* those in plays are there.
TrueFinal(msg, r, plays) ==
  /\ msg.event = "RC_FINAL" /\ msg.right = r
  /\ plays \subseteq DOMAIN msg.results
  /\ \A q \in DOMAIN msg.results \cap Honest : msg.results[q] = r

OnlyFinals(queue, r, plays) ==
  \A i \in 1..Len(queue) : TrueFinal(queue[i], r, plays)

FinalsThenStart(queue, r, plays) ==
  /\ Len(queue) > 0 /\ queue[Len(queue)] = RcStart(r + 1)
  /\ \A i \in 1..(Len(queue) - 1) : TrueFinal(queue[i], r, plays)

HasEntry(p, state) == p \in DOMAIN resultInfos /\ resultInfos[p].state = state

IsDone(p) == HasEntry(p, "DONE") /\ resultInfos[p].result = question

IsAt(p, stage) == client[p].stage = stage /\ client[p].round = question

WasAsked(p) ==
  /\ HasEntry(p, "CALCULATING")
  /\ client[p].stage = "ready" /\ client[p].round + 1 = question
  /\ toServer[p] = << >> /\ FinalsThenStart(toClient[p], client[p].round, PlaysOn)

IsSolving(p) == HasEntry(p, "CALCULATING") /\ IsAt(p, "solving") /\ Quiet(p)

HasAnswered(p) ==
  /\ HasEntry(p, "CALCULATING") /\ IsAt(p, "answered")
  /\ toServer[p] = <<RcResult(question)>> /\ toClient[p] = << >>

IsWaiting(p) == IsDone(p) /\ IsAt(p, "answered") /\ Quiet(p)

GetsResults(p) ==
  /\ IsDone(p) /\ IsAt(p, "answered") /\ toServer[p] = << >>
  /\ OnlyFinals(toClient[p], question, PlaysOn)

IsReviewing(p) ==
  /\ IsDone(p) /\ IsAt(p, "reviewing") /\ toServer[p] = << >>
  /\ OnlyFinals(toClient[p], question, PlaysOn)

HasPrepared(p) ==
  /\ IsDone(p) /\ IsAt(p, "ready") /\ toServer[p] = <<RcPrepare>>
  /\ OnlyFinals(toClient[p], question, PlaysOn)

IsPrepared(p) ==
  /\ HasEntry(p, "PREPARED") /\ IsAt(p, "ready") /\ toServer[p] = << >>
  /\ OnlyFinals(toClient[p], question, PlaysOn)

AtWork(p) == WasAsked(p) \/ IsSolving(p) \/ HasAnswered(p) \/ IsWaiting(p)

AtRest(p) == GetsResults(p) \/ IsReviewing(p) \/ HasPrepared(p) \/ IsPrepared(p)

Together == (\A p \in PlaysOn : AtWork(p)) \/ (\A p \in PlaysOn : AtRest(p))

\* Before start().
AtFirst(p) == client[p].stage = "ready" /\ client[p].round = 0 /\ Quiet(p)

HonestCircle ==
  ~early =>
    /\ ~started => /\ question = 0 /\ DOMAIN resultInfos = {}
                   /\ \A p \in PlaysOn : AtFirst(p)
    /\ started => question > 0 /\ Together

---------------------------------------------------------------------------
(* Whatever came before start(), an honest player has messages under way   *)
(* and messages it still has to send for what it was sent.  As words, R    *)
(* for a result and P for a prepare, there are few that can come up; which *)
(* depends on the entry of the player.                                     *)

Words == {"none", "R", "P", "RR", "RP", "PR"}

\* said is what is under way from a player.
SaidIs(said, w) ==
  \/ w = "none" /\ said = << >>
  \/ w = "R" /\ Len(said) = 1 /\ said[1].event = "RC_RESULT"
  \/ w = "P" /\ Len(said) = 1 /\ said[1].event = "RC_PREPARE"
  \/ w = "RR" /\ Len(said) = 2 /\ said[1].event = "RC_RESULT" /\ said[2].event = "RC_RESULT"
  \/ w = "RP" /\ Len(said) = 2 /\ said[1].event = "RC_RESULT" /\ said[2].event = "RC_PREPARE"
  \/ w = "PR" /\ Len(said) = 2 /\ said[1].event = "RC_PREPARE" /\ said[2].event = "RC_RESULT"

AllFinals(queue) == \A i \in 1..Len(queue) : queue[i].event = "RC_FINAL"

\* The j-th of the messages is a question, the others are results.
OneStart(queue, j) ==
  /\ j \in 1..Len(queue) /\ queue[j].event = "RC_START"
  /\ \A i \in 1..Len(queue) : i # j => queue[i].event = "RC_FINAL"

\* The last two are questions.
TwoStarts(queue) ==
  /\ Len(queue) > 1
  /\ queue[Len(queue)].event = "RC_START" /\ queue[Len(queue) - 1].event = "RC_START"
  /\ \A i \in 1..(Len(queue) - 2) : queue[i].event = "RC_FINAL"

\* What a player at this stage is going to send for what is in the queue.
Owes(stage, queue, w) ==
  \/ /\ stage = "ready"
     /\ \/ w = "none" /\ AllFinals(queue)
        \/ w = "R" /\ OneStart(queue, Len(queue))
        \/ w = "RP" /\ \E j \in 1..(Len(queue) - 1) : OneStart(queue, j)
        \/ w = "RR" /\ TwoStarts(queue)
  \/ /\ stage = "reviewing"
     /\ \/ w = "P" /\ AllFinals(queue)
        \/ w = "PR" /\ OneStart(queue, Len(queue))
  \/ /\ stage = "solving"
     /\ \/ w = "R" /\ queue = << >>
        \/ w = "RP" /\ queue # << >> /\ AllFinals(queue)
        \/ w = "RR" /\ Len(queue) = 1 /\ OneStart(queue, 1)
  \/ /\ stage = "answered"
     /\ \/ w = "none" /\ queue = << >>
        \/ w = "P" /\ queue # << >> /\ AllFinals(queue)
        \/ w = "R" /\ Len(queue) = 1 /\ OneStart(queue, 1)
        \/ w = "PR" /\ Len(queue) > 1 /\ OneStart(queue, Len(queue))
        \/ w = "RP" /\ Len(queue) > 1 /\ OneStart(queue, 1)
        \/ w = "RR" /\ Len(queue) = 2 /\ TwoStarts(queue)

\* A prepare is the last thing a player says before it is asked again.
Fits(stage, said, heard, s, o) ==
  /\ SaidIs(said, s) /\ Owes(stage, heard, o)
  /\ s \in {"P", "RP"} /\ o = "none" => stage = "ready"

\* The words of a player with entry e: the usual ones as long as start() was
\* not called, those that no prepare comes out of, and all there are.
Usual(e, s, o) ==
  \/ e = "CALCULATING" /\ \/ s = "none" /\ o = "R"
                          \/ s = "R" /\ o = "none"
  \/ e = "DONE" /\ \/ s = "none" /\ o \in {"none", "P"}
                   \/ s = "P" /\ o = "none"
  \/ e = "PREPARED" /\ s = "none" /\ o = "none"

Barren(e, s, o) ==
  \/ e = "CALCULATING" /\ \/ s = "none" /\ o \in {"R", "RR"}
                          \/ s = "R" /\ o \in {"none", "R"}
                          \/ s = "RR" /\ o = "none"
  \/ e = "DONE" /\ \/ s = "none" /\ o \in {"none", "R"}
                   \/ s = "R" /\ o = "none"

Possible(e, s, o) ==
  \/ Barren(e, s, o)
  \/ e = "CALCULATING" /\ \/ s = "none" /\ o = "PR"
                          \/ s = "P" /\ o = "R"
                          \/ s = "PR" /\ o = "none"
  \/ e = "DONE" /\ \/ s = "none" /\ o \in {"P", "RP"}
                   \/ s \in {"P", "RP"} /\ o = "none"
                   \/ s = "R" /\ o = "P"
  \/ e = "PREPARED" /\ \/ s = "none" /\ o \in {"none", "R"}
                       \/ s = "R" /\ o = "none"

Kinds == {"usual", "barren", "possible"}

Can(kind, e, s, o) ==
  \/ kind = "usual" /\ Usual(e, s, o)
  \/ kind = "barren" /\ Barren(e, s, o)
  \/ kind = "possible" /\ Possible(e, s, o)

Stands(kind, e, stage, said, heard) ==
  \E s, o \in Words : Fits(stage, said, heard, s, o) /\ Can(kind, e, s, o)

StandsAs(p, kind) ==
  Stands(kind, resultInfos[p].state, client[p].stage, toServer[p], toClient[p])

\* Not asked yet, but results of nothing may have been sent.
NotAsked(p) ==
  /\ p \notin DOMAIN resultInfos /\ ~started
  /\ client[p].stage = "ready" /\ toServer[p] = << >> /\ AllFinals(toClient[p])

InPlay(p) ==
  /\ p \in DOMAIN resultInfos
  /\ StandsAs(p, IF started THEN "possible" ELSE "usual")

HonestStand ==
  \A p \in PlaysOn : (question = 0 => NotAsked(p)) /\ (question > 0 => InPlay(p))

---------------------------------------------------------------------------
(* The game that somebody has left.                                        *)

RightsBelow(n) ==
  \A q \in online : \A i \in 1..Len(toClient[q]) :
    toClient[q][i].event = "RC_FINAL" => toClient[q][i].right <= n

\* p, who has an entry, is gone: an entry that is not prepared keeps the next
\* question from being asked, one that is keeps results from being sent, and
\* then no honest player has a reason to prepare.
Ended(p) ==
  /\ question <= leftAt[p] + 1
  /\ resultInfos[p].state # "PREPARED" => question <= leftAt[p]
  /\ RightsBelow(leftAt[p])
  /\ question = leftAt[p] + 1 => \A h \in PlaysOn : StandsAs(h, "barren")

LeaverInv ==
  /\ DOMAIN leftAt \cap online = {}
  /\ RightsBelow(question)
  /\ PlaysOn # {} => \A p \in DOMAIN leftAt \cap DOMAIN resultInfos : Ended(p)

StrayInv == StrayType /\ HonestCircle /\ HonestStand /\ LeaverInv

---------------------------------------------------------------------------
(* Queues.                                                                 *)

\* What is left of a queue when its head is taken, and what is in a longer one.
LEMMA TailOf ==
  ASSUME NEW S, NEW queue \in Seq(S), queue # << >>
  PROVE  /\ Len(queue) \in Nat \ {0} /\ Len(Tail(queue)) = Len(queue) - 1
         /\ Head(queue) = queue[1] /\ Head(queue) \in S
         /\ Tail(queue) \in Seq(S)
         /\ \A i \in 1..(Len(queue) - 1) : Tail(queue)[i] = queue[i + 1]
<1>1. Len(queue) \in Nat /\ Len(queue) # 0
  BY EmptySeq
<1> QED BY <1>1, HeadTailProperties

\* What is in a queue that a message was appended to.
LEMMA AppendOf ==
  ASSUME NEW S, NEW queue \in Seq(S), NEW m \in S
  PROVE  /\ Len(queue) \in Nat /\ Len(Append(queue, m)) = Len(queue) + 1
         /\ Append(queue, m) # << >> /\ Append(queue, m) \in Seq(S)
         /\ Append(queue, m)[Len(queue) + 1] = m
         /\ \A i \in 1..Len(queue) : Append(queue, m)[i] = queue[i]
BY AppendProperties

\* A queue is empty if and only if it has no length.
LEMMA EmptyOf ==
  ASSUME NEW S, NEW queue \in Seq(S)
  PROVE  Len(queue) \in Nat /\ (queue = << >> <=> Len(queue) = 0)
BY EmptySeq, LenProperties

---------------------------------------------------------------------------
(* Words, and what becomes of them.                                        *)

\* What is under way when the first message is handled.
LEMMA SaidTail ==
  ASSUME NEW S, NEW said \in Seq(S), said # << >>, NEW s, SaidIs(said, s)
  PROVE  /\ Head(said).event = "RC_RESULT" =>
              \/ s = "R" /\ SaidIs(Tail(said), "none")
              \/ s = "RR" /\ SaidIs(Tail(said), "R")
              \/ s = "RP" /\ SaidIs(Tail(said), "P")
         /\ Head(said).event = "RC_PREPARE" =>
              \/ s = "P" /\ SaidIs(Tail(said), "none")
              \/ s = "PR" /\ SaidIs(Tail(said), "R")
<1> DEFINE rest == Tail(said)
<1>1. /\ Len(said) \in Nat \ {0} /\ Len(rest) = Len(said) - 1
      /\ Head(said) = said[1] /\ rest \in Seq(S)
      /\ \A i \in 1..(Len(said) - 1) : rest[i] = said[i + 1]
  BY TailOf
<1> HIDE DEF rest
<1>2. rest = << >> <=> Len(rest) = 0
  BY <1>1, EmptyOf
<1>3. Len(said) = 2 => Len(rest) = 1 /\ rest[1] = said[1 + 1]
  BY <1>1
<1>4. Len(said) = 1 => rest = << >>
  BY <1>1, <1>2
<1>5. Len(said) = 2 => Len(rest) = 1 /\ rest[1] = said[2]
  BY <1>3
<1>6. /\ said[1].event = "RC_RESULT" =>
              \/ s = "R" /\ SaidIs(rest, "none")
              \/ s = "RR" /\ SaidIs(rest, "R")
              \/ s = "RP" /\ SaidIs(rest, "P")
      /\ said[1].event = "RC_PREPARE" =>
              \/ s = "P" /\ SaidIs(rest, "none")
              \/ s = "PR" /\ SaidIs(rest, "R")
  BY <1>4, <1>5 DEF SaidIs
<1> QED BY <1>1, <1>6 DEF rest

\* What is under way when one more message is sent.
LEMMA SaidAppend ==
  ASSUME NEW S, NEW said \in Seq(S), NEW m \in S, NEW s, SaidIs(said, s)
  PROVE  /\ m.event = "RC_RESULT" =>
              /\ s = "none" => SaidIs(Append(said, m), "R")
              /\ s = "R" => SaidIs(Append(said, m), "RR")
              /\ s = "P" => SaidIs(Append(said, m), "PR")
         /\ m.event = "RC_PREPARE" =>
              /\ s = "none" => SaidIs(Append(said, m), "P")
              /\ s = "R" => SaidIs(Append(said, m), "RP")
<1> DEFINE more == Append(said, m)
<1>1. /\ Len(said) \in Nat /\ Len(more) = Len(said) + 1
      /\ more[Len(said) + 1] = m
      /\ \A i \in 1..Len(said) : more[i] = said[i]
  BY AppendOf
<1>2. said = << >> => Len(said) = 0
  BY EmptyOf
<1> HIDE DEF more
<1>3. Len(said) = 0 => Len(more) = 1 /\ more[1] = m
  BY <1>1
<1>4. Len(said) = 1 => Len(more) = 2 /\ more[1] = said[1] /\ more[2] = m
  BY <1>1
<1>5. /\ m.event = "RC_RESULT" =>
              /\ s = "none" => SaidIs(more, "R")
              /\ s = "R" => SaidIs(more, "RR")
              /\ s = "P" => SaidIs(more, "PR")
      /\ m.event = "RC_PREPARE" =>
              /\ s = "none" => SaidIs(more, "P")
              /\ s = "R" => SaidIs(more, "RP")
  BY <1>2, <1>3, <1>4 DEF SaidIs
<1> QED BY <1>5 DEF more

\* The head of a queue is taken.
LEMMA FormsTail ==
  ASSUME NEW S, NEW queue \in Seq(S), queue # << >>
  PROVE  /\ AllFinals(queue) => /\ Head(queue).event = "RC_FINAL"
                                /\ AllFinals(Tail(queue))
         /\ \A j : OneStart(queue, j) =>
              \/ j = 1 /\ Head(queue).event = "RC_START" /\ AllFinals(Tail(queue))
              \/ j > 1 /\ Head(queue).event = "RC_FINAL" /\ OneStart(Tail(queue), j - 1)
         /\ TwoStarts(queue) =>
              \/ /\ Len(queue) = 2 /\ Head(queue).event = "RC_START"
                 /\ Len(Tail(queue)) = 1 /\ OneStart(Tail(queue), 1)
              \/ /\ Len(queue) > 2 /\ Head(queue).event = "RC_FINAL"
                 /\ TwoStarts(Tail(queue))
<1> DEFINE rest == Tail(queue)
<1>1. /\ Len(queue) \in Nat \ {0} /\ Len(rest) = Len(queue) - 1
      /\ Head(queue) = queue[1]
      /\ \A i \in 1..(Len(queue) - 1) : rest[i] = queue[i + 1]
  BY TailOf
<1> HIDE DEF rest
<1>2. AllFinals(queue) => queue[1].event = "RC_FINAL" /\ AllFinals(rest)
  BY <1>1 DEF AllFinals
<1>3. ASSUME NEW j, OneStart(queue, j)
      PROVE  \/ j = 1 /\ queue[1].event = "RC_START" /\ AllFinals(rest)
             \/ j > 1 /\ queue[1].event = "RC_FINAL" /\ OneStart(rest, j - 1)
  <2>1. j \in 1..Len(queue) /\ queue[j].event = "RC_START"
        /\ \A i \in 1..Len(queue) : i # j => queue[i].event = "RC_FINAL"
    BY <1>3 DEF OneStart
  <2>2. CASE j = 1
    BY <1>1, <2>1, <2>2 DEF AllFinals
  <2>3. CASE j > 1
    <3>1. queue[1].event = "RC_FINAL"
      BY <1>1, <2>1, <2>3
    <3>2. j - 1 \in 1..Len(rest) /\ rest[j - 1].event = "RC_START"
      BY <1>1, <2>1, <2>3
    <3>3. \A i \in 1..Len(rest) : i # j - 1 => rest[i].event = "RC_FINAL"
      BY <1>1, <2>1, <2>3
    <3> QED BY <2>3, <3>1, <3>2, <3>3 DEF OneStart
  <2> QED BY <1>1, <2>1, <2>2, <2>3
<1>4. ASSUME TwoStarts(queue)
      PROVE  \/ /\ Len(queue) = 2 /\ queue[1].event = "RC_START"
                /\ Len(rest) = 1 /\ OneStart(rest, 1)
             \/ /\ Len(queue) > 2 /\ queue[1].event = "RC_FINAL"
                /\ TwoStarts(rest)
  <2>1. /\ Len(queue) > 1
        /\ queue[Len(queue)].event = "RC_START" /\ queue[Len(queue) - 1].event = "RC_START"
        /\ \A i \in 1..(Len(queue) - 2) : queue[i].event = "RC_FINAL"
    BY <1>4 DEF TwoStarts
  <2>2. CASE Len(queue) = 2
    BY <1>1, <2>1, <2>2 DEF OneStart
  <2>3. CASE Len(queue) > 2
    <3>1. queue[1].event = "RC_FINAL"
      BY <1>1, <2>1, <2>3
    <3>2. rest[Len(rest)].event = "RC_START" /\ rest[Len(rest) - 1].event = "RC_START"
      <4>1. rest[Len(queue) - 1] = queue[(Len(queue) - 1) + 1]
        BY <1>1, <2>3
      <4>2. rest[Len(queue) - 2] = queue[(Len(queue) - 2) + 1]
        BY <1>1, <2>3
      <4>3. /\ (Len(queue) - 1) + 1 = Len(queue) /\ (Len(queue) - 2) + 1 = Len(queue) - 1
            /\ Len(rest) = Len(queue) - 1 /\ Len(rest) - 1 = Len(queue) - 2
        BY <1>1
      <4> QED BY <2>1, <4>1, <4>2, <4>3
    <3>3. \A i \in 1..(Len(rest) - 2) : rest[i].event = "RC_FINAL"
      BY <1>1, <2>1, <2>3
    <3> QED BY <1>1, <2>3, <3>1, <3>2, <3>3 DEF TwoStarts
  <2> QED BY <1>1, <2>1, <2>2, <2>3
<1> QED BY <1>1, <1>2, <1>3, <1>4 DEF rest

\* A message is added to a queue.
LEMMA FormsAppend ==
  ASSUME NEW S, NEW queue \in Seq(S), NEW m \in S
  PROVE  /\ m.event = "RC_FINAL" =>
              /\ AllFinals(queue) => AllFinals(Append(queue, m))
              /\ \A j : OneStart(queue, j) =>
                   /\ OneStart(Append(queue, m), j)
                   /\ j \in 1..(Len(Append(queue, m)) - 1)
         /\ m.event = "RC_START" =>
              /\ AllFinals(queue) => OneStart(Append(queue, m), Len(Append(queue, m)))
              /\ OneStart(queue, Len(queue)) => TwoStarts(Append(queue, m))
<1> DEFINE more == Append(queue, m)
<1>1. /\ Len(queue) \in Nat /\ Len(more) = Len(queue) + 1
      /\ more[Len(queue) + 1] = m
      /\ \A i \in 1..Len(queue) : more[i] = queue[i]
  BY AppendOf
<1> HIDE DEF more
<1>2. ASSUME m.event = "RC_FINAL"
      PROVE  /\ AllFinals(queue) => AllFinals(more)
             /\ \A j : OneStart(queue, j) =>
                   OneStart(more, j) /\ j \in 1..(Len(more) - 1)
  <2>1. AllFinals(queue) => AllFinals(more)
    BY <1>1, <1>2 DEF AllFinals
  <2>2. ASSUME NEW j, OneStart(queue, j)
        PROVE  OneStart(more, j) /\ j \in 1..(Len(more) - 1)
    BY <1>1, <1>2, <2>2 DEF OneStart
  <2> QED BY <2>1, <2>2
<1>3. ASSUME m.event = "RC_START"
      PROVE  /\ AllFinals(queue) => OneStart(more, Len(more))
             /\ OneStart(queue, Len(queue)) => TwoStarts(more)
  <2>1. AllFinals(queue) => OneStart(more, Len(more))
    BY <1>1, <1>3 DEF AllFinals, OneStart
  <2>2. ASSUME OneStart(queue, Len(queue)) PROVE TwoStarts(more)
    <3>1. Len(queue) > 0 /\ queue[Len(queue)].event = "RC_START"
          /\ \A i \in 1..(Len(queue) - 1) : queue[i].event = "RC_FINAL"
      BY <1>1, <2>2 DEF OneStart
    <3>2. more[Len(queue)] = queue[Len(queue)]
      BY <1>1, <3>1
    <3>3. Len(more) - 1 = Len(queue) /\ Len(more) - 2 = Len(queue) - 1 /\ Len(more) > 1
      BY <1>1, <3>1
    <3>4. \A i \in 1..(Len(queue) - 1) : more[i].event = "RC_FINAL"
      BY <1>1, <3>1
    <3> QED BY <1>1, <1>3, <3>1, <3>2, <3>3, <3>4 DEF TwoStarts
  <2> QED BY <2>1, <2>2
<1> QED BY <1>2, <1>3 DEF more

\* A question is taken from the queue, at whatever stage.
LEMMA OwesQuestion ==
  ASSUME NEW S, NEW queue \in Seq(S), queue # << >>,
         Head(queue).event = "RC_START", NEW stage, NEW o, Owes(stage, queue, o)
  PROVE  \/ o \in {"R", "RP", "RR"} /\ Owes("solving", Tail(queue), o)
         \/ o \in {"PR", "RR"} /\ Owes("solving", Tail(queue), "R")
<1> DEFINE rest == Tail(queue)
<1>1. /\ Len(queue) \in Nat \ {0} /\ Len(rest) = Len(queue) - 1 /\ rest \in Seq(S)
  BY TailOf
<1>2. /\ ~AllFinals(queue)
      /\ \A j : OneStart(queue, j) => j = 1 /\ AllFinals(rest)
      /\ TwoStarts(queue) => Len(queue) = 2 /\ Len(rest) = 1 /\ OneStart(rest, 1)
  BY FormsTail
<1> HIDE DEF rest
<1>3. rest = << >> <=> Len(rest) = 0
  BY <1>1, EmptyOf
<1>4. CASE stage = "ready"
  <2>1. CASE o = "R"
    <3>1. OneStart(queue, Len(queue))
      BY <1>4, <2>1 DEF Owes
    <3> QED BY <1>1, <1>2, <1>3, <2>1, <3>1 DEF Owes, rest
  <2>2. CASE o = "RP"
    <3>1. PICK j \in 1..(Len(queue) - 1) : OneStart(queue, j)
      BY <1>4, <2>2 DEF Owes
    <3>2. AllFinals(rest) /\ rest # << >>
      BY <1>1, <1>2, <1>3, <3>1
    <3> QED BY <2>2, <3>2 DEF Owes, rest
  <2>3. CASE o = "RR"
    <3>1. Len(rest) = 1 /\ OneStart(rest, 1)
      BY <1>2, <1>4, <2>3 DEF Owes
    <3> QED BY <2>3, <3>1 DEF Owes, rest
  <2>4. o \in {"R", "RP", "RR"}
    BY <1>2, <1>4 DEF Owes
  <2> QED BY <2>1, <2>2, <2>3, <2>4
<1>5. CASE stage = "reviewing"
  <2>1. o = "PR" /\ OneStart(queue, Len(queue))
    BY <1>2, <1>5 DEF Owes
  <2> QED BY <1>1, <1>2, <1>3, <2>1 DEF Owes, rest
<1>6. CASE stage = "solving"
  <2>1. o = "RR" /\ Len(queue) = 1
    BY <1>2, <1>6 DEF Owes
  <2> QED BY <1>1, <1>3, <2>1 DEF Owes, rest
<1>7. CASE stage = "answered"
  <2>1. CASE o = "R"
    <3>1. Len(queue) = 1
      BY <1>7, <2>1 DEF Owes
    <3> QED BY <1>1, <1>3, <2>1, <3>1 DEF Owes, rest
  <2>2. CASE o = "RP"
    <3>1. AllFinals(rest) /\ rest # << >>
      BY <1>1, <1>2, <1>3, <1>7, <2>2 DEF Owes
    <3> QED BY <2>2, <3>1 DEF Owes, rest
  <2>3. CASE o = "RR"
    <3>1. Len(rest) = 1 /\ OneStart(rest, 1)
      BY <1>2, <1>7, <2>3 DEF Owes
    <3> QED BY <2>3, <3>1 DEF Owes, rest
  <2>4. o # "PR"
    <3>1. SUFFICES ASSUME Len(queue) > 1, OneStart(queue, Len(queue)) PROVE FALSE
      BY <1>7 DEF Owes
    <3> QED BY <1>1, <1>2, <3>1
  <2>5. o \in {"R", "RP", "RR"}
    BY <1>2, <1>7, <2>4 DEF Owes
  <2> QED BY <2>1, <2>2, <2>3, <2>5
<1> QED BY <1>4, <1>5, <1>6, <1>7 DEF Owes

\* Results are taken from the queue: they are seen by a player who waits for
\* them, and dropped by the others.
LEMMA OwesResults ==
  ASSUME NEW S, NEW queue \in Seq(S), queue # << >>,
         Head(queue).event = "RC_FINAL", NEW stage, NEW o, Owes(stage, queue, o)
  PROVE  /\ stage = "answered" =>
              o \in {"P", "PR"} /\ Owes("reviewing", Tail(queue), o)
         /\ stage # "answered" =>
              \/ Owes(stage, Tail(queue), o)
              \/ o = "RP" /\ Owes(stage, Tail(queue), "R")
<1> DEFINE rest == Tail(queue)
<1>1. /\ Len(queue) \in Nat \ {0} /\ Len(rest) = Len(queue) - 1 /\ rest \in Seq(S)
  BY TailOf
<1>2. /\ AllFinals(queue) => AllFinals(rest)
      /\ \A j : OneStart(queue, j) => j > 1 /\ OneStart(rest, j - 1)
      /\ TwoStarts(queue) => TwoStarts(rest) /\ Len(queue) > 2
  BY FormsTail
<1> HIDE DEF rest
<1>3. rest = << >> <=> Len(rest) = 0
  BY <1>1, EmptyOf
<1>4. OneStart(queue, Len(queue)) => OneStart(rest, Len(rest))
  BY <1>1, <1>2
<1>5. ~OneStart(queue, 1)
  BY <1>2
<1>6. CASE stage = "answered"
  <2>1. \/ o = "P" /\ AllFinals(queue)
        \/ o = "PR" /\ OneStart(queue, Len(queue))
    BY <1>1, <1>2, <1>5, <1>6 DEF Owes
  <2> QED BY <1>2, <1>4, <1>6, <2>1 DEF Owes, rest
<1>7. CASE stage = "reviewing"
  <2>1. \/ o = "P" /\ AllFinals(queue)
        \/ o = "PR" /\ OneStart(queue, Len(queue))
    BY <1>7 DEF Owes
  <2> QED BY <1>2, <1>4, <1>7, <2>1 DEF Owes, rest
<1>8. CASE stage = "solving"
  <2>1. o = "RP" /\ AllFinals(queue)
    BY <1>5, <1>8 DEF Owes
  <2> QED BY <1>2, <1>8, <2>1 DEF Owes, rest
<1>9. CASE stage = "ready"
  <2>1. CASE o = "RP"
    <3>1. PICK j \in 1..(Len(queue) - 1) : OneStart(queue, j)
      BY <1>9, <2>1 DEF Owes
    <3>2. j - 1 \in 1..(Len(rest) - 1) /\ OneStart(rest, j - 1)
      BY <1>1, <1>2, <3>1
    <3> QED BY <1>9, <2>1, <3>2 DEF Owes, rest
  <2>2. CASE o # "RP"
    <3>1. \/ o = "none" /\ AllFinals(queue)
          \/ o = "R" /\ OneStart(queue, Len(queue))
          \/ o = "RR" /\ TwoStarts(queue)
      BY <1>9, <2>2 DEF Owes
    <3> QED BY <1>2, <1>4, <1>9, <3>1 DEF Owes, rest
  <2> QED BY <2>1, <2>2
<1> QED BY <1>6, <1>7, <1>8, <1>9 DEF Owes

\* A message is put at the end of the queue.
LEMMA OwesMore ==
  ASSUME NEW S, NEW queue \in Seq(S), NEW m \in S, NEW stage, NEW o,
         Owes(stage, queue, o)
  PROVE  /\ m.event = "RC_FINAL" =>
              /\ o = "none" => \/ Owes(stage, Append(queue, m), "none")
                               \/ stage # "ready" /\ Owes(stage, Append(queue, m), "P")
              /\ o = "P" => Owes(stage, Append(queue, m), "P")
              /\ o \in {"R", "RP"} => Owes(stage, Append(queue, m), "RP")
         /\ m.event = "RC_START" =>
              /\ o = "none" => Owes(stage, Append(queue, m), "R")
              /\ o = "R" => Owes(stage, Append(queue, m), "RR")
              /\ o = "P" => Owes(stage, Append(queue, m), "PR")
<1> DEFINE more == Append(queue, m)
<1>1. /\ Len(queue) \in Nat /\ Len(more) = Len(queue) + 1 /\ more # << >>
  BY AppendOf
<1>2. queue = << >> <=> Len(queue) = 0
  BY EmptyOf
<1>3. m.event = "RC_FINAL" =>
        /\ AllFinals(queue) => AllFinals(more)
        /\ \A j : OneStart(queue, j) => OneStart(more, j) /\ j \in 1..(Len(more) - 1)
  BY FormsAppend
<1>4. m.event = "RC_START" =>
        /\ AllFinals(queue) => OneStart(more, Len(more))
        /\ OneStart(queue, Len(queue)) => TwoStarts(more)
  BY FormsAppend
<1>5. queue = << >> => AllFinals(queue)
  BY <1>2 DEF AllFinals
<1> HIDE DEF more
<1>6. ASSUME m.event = "RC_FINAL"
      PROVE  /\ o = "none" => \/ Owes(stage, more, "none")
                              \/ stage # "ready" /\ Owes(stage, more, "P")
             /\ o = "P" => Owes(stage, more, "P")
             /\ o \in {"R", "RP"} => Owes(stage, more, "RP")
  <2>1. ASSUME o = "none"
        PROVE  \/ Owes(stage, more, "none")
               \/ stage # "ready" /\ Owes(stage, more, "P")
    <3>1. /\ AllFinals(more)
          /\ stage \in {"ready", "answered"}
      BY <1>3, <1>5, <1>6, <2>1 DEF Owes
    <3> QED BY <1>1, <3>1 DEF Owes
  <2>2. ASSUME o = "P" PROVE Owes(stage, more, "P")
    <3>1. AllFinals(more) /\ stage \in {"reviewing", "answered"}
      BY <1>3, <1>6, <2>2 DEF Owes
    <3> QED BY <1>1, <3>1 DEF Owes
  <2>3. ASSUME o = "R" PROVE Owes(stage, more, "RP")
    <3>1. CASE stage = "ready"
      <4>1. OneStart(queue, Len(queue))
        BY <2>3, <3>1 DEF Owes
      <4>2. \E j \in 1..(Len(more) - 1) : OneStart(more, j)
        BY <1>3, <1>6, <4>1
      <4> QED BY <3>1, <4>2 DEF Owes
    <3>2. CASE stage = "solving"
      <4>1. AllFinals(more)
        BY <1>3, <1>5, <1>6, <2>3, <3>2 DEF Owes
      <4> QED BY <1>1, <3>2, <4>1 DEF Owes
    <3>3. CASE stage = "answered"
      <4>1. Len(more) > 1 /\ OneStart(more, 1)
        BY <1>1, <1>3, <1>6, <2>3, <3>3 DEF Owes
      <4> QED BY <3>3, <4>1 DEF Owes
    <3> QED BY <2>3, <3>1, <3>2, <3>3 DEF Owes
  <2>4. ASSUME o = "RP" PROVE Owes(stage, more, "RP")
    <3>1. CASE stage = "ready"
      <4>1. PICK j \in 1..(Len(queue) - 1) : OneStart(queue, j)
        BY <2>4, <3>1 DEF Owes
      <4>2. \E i \in 1..(Len(more) - 1) : OneStart(more, i)
        BY <1>3, <1>6, <4>1
      <4> QED BY <3>1, <4>2 DEF Owes
    <3>2. CASE stage = "solving"
      <4>1. AllFinals(more)
        BY <1>3, <1>6, <2>4, <3>2 DEF Owes
      <4> QED BY <1>1, <3>2, <4>1 DEF Owes
    <3>3. CASE stage = "answered"
      <4>1. Len(more) > 1 /\ OneStart(more, 1)
        BY <1>1, <1>3, <1>6, <2>4, <3>3 DEF Owes
      <4> QED BY <3>3, <4>1 DEF Owes
    <3> QED BY <2>4, <3>1, <3>2, <3>3 DEF Owes
  <2> QED BY <2>1, <2>2, <2>3, <2>4
<1>7. ASSUME m.event = "RC_START"
      PROVE  /\ o = "none" => Owes(stage, more, "R")
             /\ o = "R" => Owes(stage, more, "RR")
             /\ o = "P" => Owes(stage, more, "PR")
  <2>1. ASSUME o = "none" PROVE Owes(stage, more, "R")
    <3>1. OneStart(more, Len(more)) /\ stage \in {"ready", "answered"}
      BY <1>4, <1>5, <1>7, <2>1 DEF Owes
    <3>2. stage = "answered" => Len(more) = 1
      BY <1>1, <1>2, <2>1 DEF Owes
    <3> QED BY <3>1, <3>2 DEF Owes
  <2>2. ASSUME o = "R" PROVE Owes(stage, more, "RR")
    <3>1. CASE stage = "ready"
      BY <1>4, <1>7, <2>2, <3>1 DEF Owes
    <3>2. CASE stage = "solving"
      <4>1. Len(more) = 1 /\ OneStart(more, Len(more))
        BY <1>1, <1>2, <1>4, <1>5, <1>7, <2>2, <3>2 DEF Owes
      <4> QED BY <3>2, <4>1 DEF Owes
    <3>3. CASE stage = "answered"
      <4>1. Len(queue) = 1 /\ OneStart(queue, Len(queue))
        BY <2>2, <3>3 DEF Owes
      <4> QED BY <1>1, <1>4, <1>7, <3>3, <4>1 DEF Owes
    <3> QED BY <2>2, <3>1, <3>2, <3>3 DEF Owes
  <2>3. ASSUME o = "P" PROVE Owes(stage, more, "PR")
    <3>1. OneStart(more, Len(more)) /\ stage \in {"reviewing", "answered"}
      BY <1>4, <1>7, <2>3 DEF Owes
    <3>2. stage = "answered" => Len(more) > 1
      BY <1>1, <1>2, <2>3 DEF Owes
    <3> QED BY <3>1, <3>2 DEF Owes
  <2> QED BY <2>1, <2>2, <2>3
<1> QED BY <1>6, <1>7 DEF more

\* An honest player who is asked, answers, sees results, prepares or drops
\* results stays within the words that are his to have.
LEMMA StandsAsked ==
  ASSUME NEW S, NEW heard \in Seq(S), heard # << >>, Head(heard).event = "RC_START",
         NEW kind \in Kinds, NEW e, NEW stage, NEW said,
         Stands(kind, e, stage, said, heard)
  PROVE  Stands(kind, e, "solving", said, Tail(heard))
<1>1. PICK s \in Words, o \in Words : Fits(stage, said, heard, s, o) /\ Can(kind, e, s, o)
  BY DEF Stands
<1>2. SaidIs(said, s) /\ Owes(stage, heard, o)
  BY <1>1 DEF Fits
<1>3. \/ o \in {"R", "RP", "RR"} /\ Owes("solving", Tail(heard), o)
      \/ o \in {"PR", "RR"} /\ Owes("solving", Tail(heard), "R")
  BY <1>2, OwesQuestion
<1>4. CASE o \in {"R", "RP", "RR"} /\ Owes("solving", Tail(heard), o)
  <2>1. Fits("solving", said, Tail(heard), s, o)
    BY <1>2, <1>4 DEF Fits
  <2> QED BY <1>1, <2>1 DEF Stands
<1>5. CASE o \in {"PR", "RR"} /\ Owes("solving", Tail(heard), "R")
  <2>1. Fits("solving", said, Tail(heard), s, "R")
    BY <1>2, <1>5 DEF Fits
  <2>2. Can(kind, e, s, "R")
    BY <1>1, <1>5 DEF Can, Usual, Barren, Possible
  <2>3. "R" \in Words
    BY DEF Words
  <2> QED BY <2>1, <2>2, <2>3 DEF Stands
<1> QED BY <1>3, <1>4, <1>5

\* A player that hears results moves to reviewing, or ignores them.
LEMMA StandsResults ==
  ASSUME NEW S, NEW heard \in Seq(S), heard # << >>, Head(heard).event = "RC_FINAL",
         NEW kind \in Kinds, NEW e, NEW stage, NEW said,
         Stands(kind, e, stage, said, heard)
  PROVE  /\ stage = "answered" => Stands(kind, e, "reviewing", said, Tail(heard))
         /\ stage # "answered" => Stands(kind, e, stage, said, Tail(heard))
<1>1. PICK s \in Words, o \in Words : Fits(stage, said, heard, s, o) /\ Can(kind, e, s, o)
  BY DEF Stands
<1>2. SaidIs(said, s) /\ Owes(stage, heard, o)
      /\ (s \in {"P", "RP"} /\ o = "none" => stage = "ready")
  BY <1>1 DEF Fits
<1>3. /\ stage = "answered" =>
           o \in {"P", "PR"} /\ Owes("reviewing", Tail(heard), o)
      /\ stage # "answered" =>
           \/ Owes(stage, Tail(heard), o)
           \/ o = "RP" /\ Owes(stage, Tail(heard), "R")
  BY <1>2, OwesResults
<1>4. CASE stage = "answered"
  <2>1. Fits("reviewing", said, Tail(heard), s, o)
    BY <1>2, <1>3, <1>4 DEF Fits
  <2> QED BY <1>1, <1>4, <2>1 DEF Stands
<1>5. CASE stage # "answered" /\ Owes(stage, Tail(heard), o)
  <2>1. Fits(stage, said, Tail(heard), s, o)
    BY <1>2, <1>5 DEF Fits
  <2> QED BY <1>1, <1>5, <2>1 DEF Stands
<1>6. CASE stage # "answered" /\ o = "RP" /\ Owes(stage, Tail(heard), "R")
  <2>1. Fits(stage, said, Tail(heard), s, "R")
    BY <1>2, <1>6 DEF Fits
  <2>2. Can(kind, e, s, "R")
    BY <1>1, <1>6 DEF Can, Usual, Barren, Possible
  <2>3. "R" \in Words
    BY DEF Words
  <2> QED BY <1>6, <2>1, <2>2, <2>3 DEF Stands
<1> QED BY <1>3, <1>4, <1>5, <1>6

\* A player that solves the question sends the result that it owes.
LEMMA StandsAnswers ==
  ASSUME NEW S, NEW said \in Seq(S), NEW m \in S, m.event = "RC_RESULT",
         NEW kind \in Kinds, NEW e, NEW heard,
         Stands(kind, e, "solving", said, heard)
  PROVE  Stands(kind, e, "answered", Append(said, m), heard)
<1>1. PICK s \in Words, o \in Words :
        Fits("solving", said, heard, s, o) /\ Can(kind, e, s, o)
  BY DEF Stands
<1>2. SaidIs(said, s) /\ Owes("solving", heard, o)
  BY <1>1 DEF Fits
<1>3. /\ s = "none" => SaidIs(Append(said, m), "R")
      /\ s = "R" => SaidIs(Append(said, m), "RR")
      /\ s = "P" => SaidIs(Append(said, m), "PR")
  BY <1>2, SaidAppend
<1>4. \/ o = "R" /\ Owes("answered", heard, "none")
      \/ o = "RP" /\ Owes("answered", heard, "P")
      \/ o = "RR" /\ Owes("answered", heard, "R")
  BY <1>2 DEF Owes
<1> DEFINE
  s1 == IF s = "none" THEN "R" ELSE IF s = "R" THEN "RR" ELSE "PR"
  o1 == IF o = "R" THEN "none" ELSE IF o = "RP" THEN "P" ELSE "R"
<1>5. s \in {"none", "R", "P"} /\ Can(kind, e, s1, o1)
  BY <1>1, <1>4 DEF Can, Usual, Barren, Possible
<1>6. Fits("answered", Append(said, m), heard, s1, o1)
  BY <1>3, <1>4, <1>5 DEF Fits
<1>7. s1 \in Words /\ o1 \in Words
  BY DEF Words
<1> QED BY <1>5, <1>6, <1>7 DEF Stands

\* A player that has reviewed sends the prepare that it owes.
LEMMA StandsPrepares ==
  ASSUME NEW S, NEW said \in Seq(S), NEW m \in S, m.event = "RC_PREPARE",
         NEW kind \in Kinds, NEW e, NEW heard,
         Stands(kind, e, "reviewing", said, heard)
  PROVE  Stands(kind, e, "ready", Append(said, m), heard)
<1>1. PICK s \in Words, o \in Words :
        Fits("reviewing", said, heard, s, o) /\ Can(kind, e, s, o)
  BY DEF Stands
<1>2. SaidIs(said, s) /\ Owes("reviewing", heard, o)
  BY <1>1 DEF Fits
<1>3. /\ s = "none" => SaidIs(Append(said, m), "P")
      /\ s = "R" => SaidIs(Append(said, m), "RP")
  BY <1>2, SaidAppend
<1>4. \/ o = "P" /\ Owes("ready", heard, "none")
      \/ o = "PR" /\ Owes("ready", heard, "R")
  BY <1>2 DEF Owes
<1> DEFINE
  s1 == IF s = "none" THEN "P" ELSE "RP"
  o1 == IF o = "P" THEN "none" ELSE "R"
<1>5. s \in {"none", "R"} /\ Can(kind, e, s1, o1)
  BY <1>1, <1>4 DEF Can, Usual, Barren, Possible
<1>6. Fits("ready", Append(said, m), heard, s1, o1)
  BY <1>3, <1>4, <1>5 DEF Fits
<1>7. s1 \in Words /\ o1 \in Words
  BY DEF Words
<1> QED BY <1>5, <1>6, <1>7 DEF Stands

\* What the game does with the messages of an honest player.
LEMMA StandsResultHandled ==
  ASSUME NEW S, NEW said \in Seq(S), said # << >>, Head(said).event = "RC_RESULT",
         NEW kind \in Kinds, NEW e, NEW stage, NEW heard,
         Stands(kind, e, stage, said, heard)
  PROVE  Stands(kind, "DONE", stage, Tail(said), heard)
<1>1. PICK s \in Words, o \in Words : Fits(stage, said, heard, s, o) /\ Can(kind, e, s, o)
  BY DEF Stands
<1>2. SaidIs(said, s) /\ Owes(stage, heard, o)
      /\ (s \in {"P", "RP"} /\ o = "none" => stage = "ready")
  BY <1>1 DEF Fits
<1>3. \/ s = "R" /\ SaidIs(Tail(said), "none")
      \/ s = "RR" /\ SaidIs(Tail(said), "R")
      \/ s = "RP" /\ SaidIs(Tail(said), "P")
  BY <1>2, SaidTail
<1> DEFINE s1 == IF s = "R" THEN "none" ELSE IF s = "RR" THEN "R" ELSE "P"
<1>4. Can(kind, "DONE", s1, o)
  BY <1>1, <1>3 DEF Can, Usual, Barren, Possible
<1>5. Fits(stage, Tail(said), heard, s1, o)
  BY <1>2, <1>3 DEF Fits
<1>6. s1 \in Words
  BY DEF Words
<1> QED BY <1>4, <1>5, <1>6 DEF Stands

\* handlePrepare() for an honest player: it is prepared, whatever the entry was.
LEMMA StandsPrepareHandled ==
  ASSUME NEW S, NEW said \in Seq(S), said # << >>, Head(said).event = "RC_PREPARE",
         NEW kind \in Kinds, NEW e, NEW stage, NEW heard,
         Stands(kind, e, stage, said, heard)
  PROVE  kind # "barren" /\ Stands(kind, "PREPARED", stage, Tail(said), heard)
<1>1. PICK s \in Words, o \in Words : Fits(stage, said, heard, s, o) /\ Can(kind, e, s, o)
  BY DEF Stands
<1>2. SaidIs(said, s) /\ Owes(stage, heard, o)
  BY <1>1 DEF Fits
<1>3. \/ s = "P" /\ SaidIs(Tail(said), "none")
      \/ s = "PR" /\ SaidIs(Tail(said), "R")
  BY <1>2, SaidTail
<1> DEFINE s1 == IF s = "P" THEN "none" ELSE "R"
<1>4. kind # "barren" /\ Can(kind, "PREPARED", s1, o)
  BY <1>1, <1>3 DEF Can, Usual, Barren, Possible
<1>5. Fits(stage, Tail(said), heard, s1, o)
  BY <1>2, <1>3 DEF Fits
<1>6. s1 \in Words
  BY DEF Words
<1> QED BY <1>4, <1>5, <1>6 DEF Stands

\* Results are sent to everybody when all entries are done.
LEMMA StandsFinal ==
  ASSUME NEW S, NEW heard \in Seq(S), NEW m \in S, m.event = "RC_FINAL",
         NEW kind \in {"usual", "possible"}, NEW stage, NEW said,
         Stands(kind, "DONE", stage, said, heard)
  PROVE  Stands(kind, "DONE", stage, said, Append(heard, m))
<1>1. PICK s \in Words, o \in Words :
        Fits(stage, said, heard, s, o) /\ Can(kind, "DONE", s, o)
  BY DEF Stands
<1>2. SaidIs(said, s) /\ Owes(stage, heard, o)
      /\ (s \in {"P", "RP"} /\ o = "none" => stage = "ready")
  BY <1>1 DEF Fits
<1> DEFINE more == Append(heard, m)
<1>3. /\ o = "none" => \/ Owes(stage, more, "none")
                       \/ stage # "ready" /\ Owes(stage, more, "P")
      /\ o = "P" => Owes(stage, more, "P")
      /\ o \in {"R", "RP"} => Owes(stage, more, "RP")
  BY <1>2, OwesMore
<1> HIDE DEF more
<1>4. \E o1 \in Words : Fits(stage, said, more, s, o1) /\ Can(kind, "DONE", s, o1)
  <2>1. CASE o = "none" /\ Owes(stage, more, "none")
    BY <1>1, <1>2, <2>1 DEF Fits
  <2>2. CASE o = "none" /\ stage # "ready" /\ Owes(stage, more, "P")
    <3>1. Fits(stage, said, more, s, "P")
      BY <1>2, <2>2 DEF Fits
    <3>2. Can(kind, "DONE", s, "P")
      BY <1>1, <1>2, <2>2 DEF Can, Usual, Barren, Possible
    <3>3. "P" \in Words
      BY DEF Words
    <3> QED BY <3>1, <3>2, <3>3
  <2>3. CASE o = "P"
    BY <1>1, <1>2, <1>3, <2>3 DEF Fits
  <2>4. CASE o \in {"R", "RP"}
    <3>1. Fits(stage, said, more, s, "RP")
      BY <1>2, <1>3, <2>4 DEF Fits
    <3>2. Can(kind, "DONE", s, "RP")
      BY <1>1, <2>4 DEF Can, Usual, Barren, Possible
    <3>3. "RP" \in Words
      BY DEF Words
    <3> QED BY <3>1, <3>2, <3>3
  <2>5. o \in {"none", "P", "R", "RP"}
    BY <1>1 DEF Can, Usual, Barren, Possible
  <2> QED BY <1>3, <2>1, <2>2, <2>3, <2>4, <2>5
<1> QED BY <1>4 DEF Stands, more

\* A question is sent to everybody: the next one when all entries are
\* prepared, and one more by start(), whatever the entries.
LEMMA StandsStart ==
  ASSUME NEW S, NEW heard \in Seq(S), NEW m \in S, m.event = "RC_START",
         NEW kind \in {"usual", "possible"}, NEW e, NEW stage, NEW said,
         Stands(kind, e, stage, said, heard)
  PROVE  /\ kind = "usual" =>
              Stands("possible", "CALCULATING", stage, said, Append(heard, m))
         /\ e = "PREPARED" =>
              /\ Stands("barren", "CALCULATING", stage, said, Append(heard, m))
              /\ Stands(kind, "CALCULATING", stage, said, Append(heard, m))
<1>1. PICK s \in Words, o \in Words : Fits(stage, said, heard, s, o) /\ Can(kind, e, s, o)
  BY DEF Stands
<1>2. SaidIs(said, s) /\ Owes(stage, heard, o)
  BY <1>1 DEF Fits
<1> DEFINE
  more == Append(heard, m)
  o1 == IF o = "none" THEN "R" ELSE IF o = "R" THEN "RR" ELSE "PR"
<1>3. /\ o = "none" => Owes(stage, more, "R")
      /\ o = "R" => Owes(stage, more, "RR")
      /\ o = "P" => Owes(stage, more, "PR")
  BY <1>2, OwesMore
<1> HIDE DEF more
<1>4. o1 \in Words
  BY DEF Words
<1>5. o \in {"none", "R", "P"} => Fits(stage, said, more, s, o1)
  BY <1>2, <1>3 DEF Fits
<1>6. kind = "usual" => o \in {"none", "R", "P"} /\ Can("possible", "CALCULATING", s, o1)
  BY <1>1 DEF Can, Usual, Barren, Possible
<1>7. e = "PREPARED" => /\ o \in {"none", "R", "P"}
                        /\ Can("barren", "CALCULATING", s, o1)
                        /\ Can(kind, "CALCULATING", s, o1)
  BY <1>1 DEF Can, Usual, Barren, Possible
<1> HIDE DEF o1
<1> QED BY <1>4, <1>5, <1>6, <1>7 DEF Stands, more

---------------------------------------------------------------------------
(* What the steps of StrayGame do, and that the types are kept.            *)

\* The types hold at first.
LEMMA StrayTypeInit == StrayInit => StrayType
<1> SUFFICES ASSUME StrayInit PROVE StrayType
  OBVIOUS
<1>1. Init
  BY DEF StrayInit
<1>2. TypeOK
  BY <1>1, GameInit DEF GameInv
<1>3. << >> \in Seq(Said) /\ << >> \in Seq(Heard)
  OBVIOUS
<1>4. toServer \in [Players -> Seq(Said)] /\ toClient \in [Players -> Seq(Heard)]
  BY <1>1, <1>3 DEF Init
<1>5. started \in BOOLEAN /\ early \in BOOLEAN /\ leftAt = << >>
  BY DEF StrayInit
<1>6. DOMAIN leftAt = {}
  BY <1>5
<1> QED BY <1>2, <1>4, <1>5, <1>6 DEF StrayType

\* The messages there are.
LEMMA MessageTypes ==
  /\ \A q \in Nat : RcStart(q) \in Heard /\ RcResult(q) \in Said
  /\ RcPrepare \in Said /\ RcNoResult \in Said
  /\ \A m \in Said : m.event = "RC_RESULT" => m.question \in Nat
  /\ \A m \in Heard : /\ m.event = "RC_START" => m.question \in Nat
                      /\ m.event = "RC_FINAL" => m.right \in Nat
                      /\ m.event \in {"RC_START", "RC_FINAL"}
<1>1. \A q \in Nat : RcStart(q) \in Heard /\ RcResult(q) \in Said
  BY DEF RcStart, RcResult, Said, Heard
<1>2. RcPrepare \in Said /\ RcNoResult \in Said
  BY DEF RcPrepare, RcNoResult, Said
<1>3. \A m \in Said : m.event = "RC_RESULT" => m.question \in Nat
  BY DEF Said
<1>4. \A m \in Heard : /\ m.event = "RC_START" => m.question \in Nat
                       /\ m.event = "RC_FINAL" => m.right \in Nat
                       /\ m.event \in {"RC_START", "RC_FINAL"}
  BY DEF Heard
<1> QED BY <1>1, <1>2, <1>3, <1>4

\* Results that are put together from entries are a message.
LEMMA FinalType ==
  ASSUME StrayType, NEW infos, infos \in [DOMAIN infos -> InfoType],
         DOMAIN infos \subseteq Players
  PROVE  FinalOf(infos) \in Heard
<1> DEFINE
  there == DOMAIN infos \cap online
  said == [q \in there |-> infos[q].result]
<1>1. there \in SUBSET Players
  OBVIOUS
<1>2. \A q \in there : infos[q].result \in Nat
  BY DEF InfoType
<1> HIDE DEF there
<1>3. said \in [there -> Nat]
  BY <1>2
<1>4. said \in Results
  BY <1>1, <1>3 DEF Results
<1> HIDE DEF said
<1>5. FinalOf(infos) = [event |-> "RC_FINAL", results |-> said, right |-> question]
  BY DEF FinalOf, RcFinal, said, there
<1>6. question \in Nat
  BY DEF StrayType, TypeOK
<1> QED BY <1>4, <1>5, <1>6 DEF Heard

\* A message goes to the end of the queue of everybody who is there.
LEMMA BroadcastOf ==
  ASSUME NEW queues \in [Players -> Seq(Heard)], NEW m \in Heard
  PROVE  /\ Broadcast(queues, m) \in [Players -> Seq(Heard)]
         /\ \A q \in Players :
              Broadcast(queues, m)[q] =
                IF q \in online THEN Append(queues[q], m) ELSE queues[q]
<1>1. \A q \in Players : Append(queues[q], m) \in Seq(Heard)
  BY AppendOf
<1> QED BY <1>1 DEF Broadcast

\* handleResult(): the entry of p is done, and if all are, they are sent.
LEMMA ResultDoes ==
  ASSUME StrayType, NEW p \in Players, HandleResult(p)
  PROVE  /\ p \in online /\ toServer[p] # << >> /\ Head(toServer[p]).event = "RC_RESULT"
         /\ Head(toServer[p]) \in Said /\ Tail(toServer[p]) \in Seq(Said)
         /\ toServer'[p] = Tail(toServer[p])
         /\ \A q \in Players : q # p => toServer'[q] = toServer[q]
         /\ gone' = gone /\ crashed' = crashed /\ online' = online /\ client' = client
         /\ question' = question
         /\ DOMAIN resultInfos' = DOMAIN resultInfos \cup {p}
         /\ resultInfos'[p] = Info("DONE", Head(toServer[p]).question)
         /\ \A q \in DOMAIN resultInfos : q # p => resultInfos'[q] = resultInfos[q]
         /\ \/ ~AllAre(resultInfos', "DONE") /\ toClient' = toClient
            \/ /\ AllAre(resultInfos', "DONE")
               /\ FinalOf(resultInfos') \in Heard
               /\ toClient' = Broadcast(toClient, FinalOf(resultInfos'))
         /\ TypeOK' /\ toServer' \in [Players -> Seq(Said)]
         /\ toClient' \in [Players -> Seq(Heard)]
<1>1. /\ p \in online /\ toServer[p] # << >> /\ Head(toServer[p]).event = "RC_RESULT"
      /\ toServer' = [toServer EXCEPT ![p] = Tail(@)]
      /\ gone' = gone /\ crashed' = crashed /\ online' = online /\ client' = client
      /\ question' = question
      /\ resultInfos' = With(resultInfos, p, Info("DONE", Head(toServer[p]).question))
      /\ toClient' = IF AllAre(resultInfos', "DONE")
                     THEN Broadcast(toClient, FinalOf(resultInfos')) ELSE toClient
  BY DEF HandleResult, Receives
<1>2. Head(toServer[p]) \in Said /\ Tail(toServer[p]) \in Seq(Said)
  BY <1>1, TailOf DEF StrayType
<1>3. Head(toServer[p]).question \in Nat
  BY <1>1, <1>2, MessageTypes
<1>4. /\ toServer' \in [Players -> Seq(Said)] /\ toServer'[p] = Tail(toServer[p])
      /\ \A q \in Players : q # p => toServer'[q] = toServer[q]
  BY <1>1, <1>2 DEF StrayType
<1> DEFINE info == Info("DONE", Head(toServer[p]).question)
<1>5. info \in InfoType
  BY <1>3 DEF Info, InfoType
<1>6. resultInfos' = With(resultInfos, p, info)
  BY <1>1
<1> HIDE DEF info
<1>7. /\ DOMAIN resultInfos' = DOMAIN resultInfos \cup {p}
      /\ resultInfos'[p] = info
      /\ \A q \in DOMAIN resultInfos : q # p => resultInfos'[q] = resultInfos[q]
  BY <1>6 DEF With
<1>8. DOMAIN resultInfos' \subseteq Players /\ resultInfos' \in [DOMAIN resultInfos' -> InfoType]
  <2>1. \A q \in DOMAIN resultInfos : resultInfos[q] \in InfoType
    BY DEF StrayType, TypeOK
  <2>2. \A q \in DOMAIN resultInfos \cup {p} :
          (IF q = p THEN info ELSE resultInfos[q]) \in InfoType
    BY <1>5, <2>1
  <2>3. resultInfos' \in [DOMAIN resultInfos \cup {p} -> InfoType]
    BY <1>6, <2>2 DEF With
  <2>4. DOMAIN resultInfos \subseteq Players
    BY DEF StrayType, TypeOK
  <2> QED BY <1>7, <2>3, <2>4
<1>9. FinalOf(resultInfos') \in Heard
  BY <1>8, FinalType
<1>10. toClient' \in [Players -> Seq(Heard)]
  BY <1>1, <1>9, BroadcastOf DEF StrayType
<1>11. TypeOK'
  BY <1>1, <1>4, <1>8, <1>10 DEF StrayType, TypeOK
<1> QED BY <1>1, <1>2, <1>4, <1>7, <1>9, <1>10, <1>11 DEF info

\* sendQuestion() on the entries infos: those of the players who are there
\* are reset, the others stay, and the question goes to all who are there.
LEMMA QuestionDoes ==
  ASSUME StrayType, NEW infos, infos \in [DOMAIN infos -> InfoType],
         DOMAIN infos \subseteq Players, SendQuestion(infos, toClient)
  PROVE  /\ question' = question + 1 /\ question' \in Nat
         /\ DOMAIN resultInfos' = DOMAIN infos \cup online
         /\ DOMAIN resultInfos' \subseteq Players
         /\ \A q \in online : resultInfos'[q] = Info("CALCULATING", 0)
         /\ \A q \in DOMAIN infos : q \notin online => resultInfos'[q] = infos[q]
         /\ resultInfos' \in [DOMAIN resultInfos' -> InfoType]
         /\ RcStart(question + 1) \in Heard
         /\ toClient' \in [Players -> Seq(Heard)]
         /\ \A q \in Players :
              toClient'[q] = IF q \in online THEN Append(toClient[q], RcStart(question + 1))
                                             ELSE toClient[q]
<1>1. /\ question' = question + 1
      /\ resultInfos' = Asked(infos)
      /\ toClient' = Broadcast(toClient, RcStart(question + 1))
  BY DEF SendQuestion
<1>2. question \in Nat /\ question + 1 \in Nat /\ online \subseteq Players
  BY DEF StrayType, TypeOK
<1>3. RcStart(question + 1) \in Heard
  BY <1>2, MessageTypes
<1>4. /\ toClient' \in [Players -> Seq(Heard)]
      /\ \A q \in Players :
           toClient'[q] = IF q \in online THEN Append(toClient[q], RcStart(question + 1))
                                          ELSE toClient[q]
  BY <1>1, <1>3, BroadcastOf DEF StrayType
<1>5. Info("CALCULATING", 0) \in InfoType
  BY DEF Info, InfoType
<1> DEFINE fresh == Info("CALCULATING", 0)
<1> HIDE DEF fresh
<1>6. resultInfos' = [q \in DOMAIN infos \cup online |->
                        IF q \in online THEN fresh ELSE infos[q]]
  BY <1>1 DEF Asked, fresh
<1>7. \A q \in DOMAIN infos \cup online :
        (IF q \in online THEN fresh ELSE infos[q]) \in InfoType
  BY <1>5 DEF fresh
<1>8. resultInfos' \in [DOMAIN infos \cup online -> InfoType]
  BY <1>6, <1>7
<1>9. /\ DOMAIN resultInfos' = DOMAIN infos \cup online
      /\ \A q \in online : resultInfos'[q] = fresh
      /\ \A q \in DOMAIN infos : q \notin online => resultInfos'[q] = infos[q]
  BY <1>6
<1> QED BY <1>1, <1>2, <1>3, <1>4, <1>8, <1>9 DEF fresh

\* handlePrepare(): the entry of p is prepared, and if all are, the next
\* question is sent.
LEMMA PrepareDoes ==
  ASSUME StrayType, NEW p \in Players, HandlePrepare(p)
  PROVE  /\ p \in online /\ toServer[p] # << >> /\ Head(toServer[p]).event = "RC_PREPARE"
         /\ Head(toServer[p]) \in Said /\ Tail(toServer[p]) \in Seq(Said)
         /\ toServer' \in [Players -> Seq(Said)]
         /\ toServer'[p] = Tail(toServer[p])
         /\ \A q \in Players : q # p => toServer'[q] = toServer[q]
         /\ gone' = gone /\ crashed' = crashed /\ online' = online /\ client' = client
         /\ \E infos :
              /\ DOMAIN infos = DOMAIN resultInfos \cup {p}
              /\ DOMAIN infos \subseteq Players
              /\ infos \in [DOMAIN infos -> InfoType]
              /\ infos[p].state = "PREPARED"
              /\ \A q \in DOMAIN resultInfos : q # p => infos[q] = resultInfos[q]
              /\ \/ /\ ~AllAre(infos, "PREPARED")
                    /\ resultInfos' = infos
                    /\ question' = question /\ toClient' = toClient
                 \/ AllAre(infos, "PREPARED") /\ SendQuestion(infos, toClient)
<1> DEFINE result == IF p \in DOMAIN resultInfos THEN resultInfos[p].result ELSE 0
<1> DEFINE info == Info("PREPARED", result)
<1> DEFINE infos == With(resultInfos, p, info)
<1>1. /\ p \in online /\ toServer[p] # << >> /\ Head(toServer[p]).event = "RC_PREPARE"
      /\ toServer' = [toServer EXCEPT ![p] = Tail(@)]
      /\ gone' = gone /\ crashed' = crashed /\ online' = online /\ client' = client
  BY DEF HandlePrepare, Receives
<1>2. IF AllAre(infos, "PREPARED")
      THEN question < MaxRounds /\ SendQuestion(infos, toClient)
      ELSE resultInfos' = infos /\ UNCHANGED <<question, toClient>>
  BY DEF HandlePrepare
<1>3. Head(toServer[p]) \in Said /\ Tail(toServer[p]) \in Seq(Said)
  BY <1>1, TailOf DEF StrayType
<1>4. /\ toServer' \in [Players -> Seq(Said)] /\ toServer'[p] = Tail(toServer[p])
      /\ \A q \in Players : q # p => toServer'[q] = toServer[q]
  BY <1>1, <1>3 DEF StrayType
<1>5. \A q \in DOMAIN resultInfos : resultInfos[q] \in InfoType
  BY DEF StrayType, TypeOK
<1>6. result \in Nat
  BY <1>5 DEF InfoType
<1> HIDE DEF result
<1>7. info \in InfoType /\ info.state = "PREPARED"
  BY <1>6 DEF Info, InfoType
<1> HIDE DEF info
<1>8. /\ DOMAIN infos = DOMAIN resultInfos \cup {p}
      /\ infos[p] = info
      /\ \A q \in DOMAIN resultInfos : q # p => infos[q] = resultInfos[q]
  BY DEF With
<1>9. infos \in [DOMAIN resultInfos \cup {p} -> InfoType]
  <2>1. \A q \in DOMAIN resultInfos \cup {p} :
          (IF q = p THEN info ELSE resultInfos[q]) \in InfoType
    BY <1>5, <1>7
  <2> QED BY <2>1 DEF With
<1> HIDE DEF infos
<1>10. DOMAIN infos \subseteq Players
  BY <1>8 DEF StrayType, TypeOK
<1> QED BY <1>1, <1>2, <1>3, <1>4, <1>7, <1>8, <1>9, <1>10

\* Only one element of a function of the players changes.
LEMMA ChangeOne ==
  ASSUME NEW f, NEW T, f \in [Players -> T], NEW p \in Players, NEW v \in T
  PROVE  /\ [f EXCEPT ![p] = v] \in [Players -> T]
         /\ [f EXCEPT ![p] = v][p] = v
         /\ \A q \in Players : q # p => [f EXCEPT ![p] = v][q] = f[q]
OBVIOUS

\* An honest player who takes a message from its queue.
LEMMA HonestlyDoes ==
  ASSUME StrayType, NEW p \in Players, Honestly(p)
  PROVE  /\ p \in online /\ UNCHANGED <<resultInfos, question, gone, crashed, online>>
         /\ UNCHANGED <<started, strayed, early, leftAt>>
         /\ \A q \in Players : q # p => /\ client'[q] = client[q]
                                        /\ toServer'[q] = toServer[q]
                                        /\ toClient'[q] = toClient[q]
         /\ \/ /\ toClient[p] # << >> /\ Head(toClient[p]).event = "RC_START"
               /\ toServer'[p] = toServer[p] /\ toClient'[p] = Tail(toClient[p])
               /\ client'[p] = [stage |-> "solving", round |-> Head(toClient[p]).question]
            \/ /\ client[p].stage = "solving"
               /\ client'[p] = [stage |-> "answered", round |-> client[p].round]
               /\ toServer'[p] = Append(toServer[p], RcResult(client[p].round))
               /\ toClient'[p] = toClient[p]
            \/ /\ client[p].stage = "reviewing"
               /\ client'[p] = [stage |-> "ready", round |-> client[p].round]
               /\ toServer'[p] = Append(toServer[p], RcPrepare)
               /\ toClient'[p] = toClient[p]
            \/ /\ client[p].stage = "answered"
               /\ toClient[p] # << >> /\ Head(toClient[p]).event = "RC_FINAL"
               /\ client'[p] = [stage |-> "reviewing", round |-> client[p].round]
               /\ toServer'[p] = toServer[p] /\ toClient'[p] = Tail(toClient[p])
         /\ StrayType'
<1>1. UNCHANGED <<started, strayed, early, leftAt>>
  BY DEF Honestly, game
<1>2. /\ client \in [Players -> ClientType] /\ toServer \in [Players -> Seq(Said)]
      /\ toClient \in [Players -> Seq(Heard)] /\ client[p] \in ClientType
  BY DEF StrayType, TypeOK
<1>3. client[p].round \in Nat
  BY <1>2 DEF ClientType
<1>4. /\ RcResult(client[p].round) \in Said /\ RcPrepare \in Said
  BY <1>3, MessageTypes
<1>5. /\ Append(toServer[p], RcResult(client[p].round)) \in Seq(Said)
      /\ Append(toServer[p], RcPrepare) \in Seq(Said)
  BY <1>2, <1>4, AppendOf
<1>6. toClient[p] # << >> => Tail(toClient[p]) \in Seq(Heard) /\ Head(toClient[p]) \in Heard
  BY <1>2, TailOf
<1>7. \A s \in {"ready", "solving", "answered", "reviewing"} :
        [stage |-> s, round |-> client[p].round] \in ClientType
  BY <1>3 DEF ClientType
<1>8. CASE ClientGetsQuestion(p)
  <2>1. /\ p \in online /\ UNCHANGED <<resultInfos, question, gone, crashed, online, toServer>>
        /\ toClient[p] # << >> /\ Head(toClient[p]).event = "RC_START"
        /\ toClient' = [toClient EXCEPT ![p] = Tail(toClient[p])]
        /\ client' = [client EXCEPT ![p] = [stage |-> "solving",
                                            round |-> Head(toClient[p]).question]]
    BY <1>8 DEF ClientGetsQuestion, server
  <2>2. Head(toClient[p]).question \in Nat
    BY <1>6, <2>1, MessageTypes
  <2>3. [stage |-> "solving", round |-> Head(toClient[p]).question] \in ClientType
    BY <2>2 DEF ClientType
  <2> DEFINE c == [stage |-> "solving", round |-> Head(toClient[p]).question]
  <2> HIDE DEF c
  <2>4. /\ client' \in [Players -> ClientType] /\ client'[p] = c
        /\ \A q \in Players : q # p => client'[q] = client[q]
    BY <1>2, <2>1, <2>3, ChangeOne DEF c
  <2>5. /\ toClient' \in [Players -> Seq(Heard)] /\ toClient'[p] = Tail(toClient[p])
        /\ \A q \in Players : q # p => toClient'[q] = toClient[q]
    BY <1>2, <1>6, <2>1, ChangeOne
  <2>6. StrayType'
    BY <1>1, <2>1, <2>4, <2>5 DEF StrayType, TypeOK
  <2> QED BY <1>1, <2>1, <2>4, <2>5, <2>6 DEF c
<1>9. CASE ClientAnswers(p)
  <2>1. /\ p \in online /\ UNCHANGED <<resultInfos, question, gone, crashed, online, toClient>>
        /\ client[p].stage = "solving"
        /\ toServer' = [toServer EXCEPT ![p] = Append(toServer[p], RcResult(client[p].round))]
    BY <1>9 DEF ClientAnswers, server
  <2>2. client' = [client EXCEPT ![p] = [stage |-> "answered", round |-> client[p].round]]
    BY <1>9, StageOnly DEF ClientAnswers, StrayType
  <2>3. /\ client' \in [Players -> ClientType]
        /\ client'[p] = [stage |-> "answered", round |-> client[p].round]
        /\ \A q \in Players : q # p => client'[q] = client[q]
    BY <1>2, <1>7, <2>2, ChangeOne
  <2>4. /\ toServer' \in [Players -> Seq(Said)]
        /\ toServer'[p] = Append(toServer[p], RcResult(client[p].round))
        /\ \A q \in Players : q # p => toServer'[q] = toServer[q]
    BY <1>2, <1>5, <2>1, ChangeOne
  <2>5. StrayType'
    BY <1>1, <2>1, <2>3, <2>4 DEF StrayType, TypeOK
  <2> QED BY <1>1, <2>1, <2>3, <2>4, <2>5
<1>10. CASE ClientPrepares(p)
  <2>1. /\ p \in online /\ UNCHANGED <<resultInfos, question, gone, crashed, online, toClient>>
        /\ client[p].stage = "reviewing"
        /\ toServer' = [toServer EXCEPT ![p] = Append(toServer[p], RcPrepare)]
    BY <1>10 DEF ClientPrepares, server
  <2>2. client' = [client EXCEPT ![p] = [stage |-> "ready", round |-> client[p].round]]
    BY <1>10, StageOnly DEF ClientPrepares, StrayType
  <2>3. /\ client' \in [Players -> ClientType]
        /\ client'[p] = [stage |-> "ready", round |-> client[p].round]
        /\ \A q \in Players : q # p => client'[q] = client[q]
    BY <1>2, <1>7, <2>2, ChangeOne
  <2>4. /\ toServer' \in [Players -> Seq(Said)]
        /\ toServer'[p] = Append(toServer[p], RcPrepare)
        /\ \A q \in Players : q # p => toServer'[q] = toServer[q]
    BY <1>2, <1>5, <2>1, ChangeOne
  <2>5. StrayType'
    BY <1>1, <2>1, <2>3, <2>4 DEF StrayType, TypeOK
  <2> QED BY <1>1, <2>1, <2>3, <2>4, <2>5
<1>11. CASE client[p].stage = "answered" /\ ClientSeesResults(p)
  <2>1. /\ p \in online /\ UNCHANGED <<resultInfos, question, gone, crashed, online, toServer>>
        /\ toClient[p] # << >> /\ Head(toClient[p]).event = "RC_FINAL"
        /\ toClient' = [toClient EXCEPT ![p] = Tail(toClient[p])]
    BY <1>11 DEF ClientSeesResults, server
  <2>2. client' = [client EXCEPT ![p] = [stage |-> "reviewing", round |-> client[p].round]]
    BY <1>11, StageOnly DEF ClientSeesResults, StrayType
  <2>3. /\ client' \in [Players -> ClientType]
        /\ client'[p] = [stage |-> "reviewing", round |-> client[p].round]
        /\ \A q \in Players : q # p => client'[q] = client[q]
    BY <1>2, <1>7, <2>2, ChangeOne
  <2>4. /\ toClient' \in [Players -> Seq(Heard)] /\ toClient'[p] = Tail(toClient[p])
        /\ \A q \in Players : q # p => toClient'[q] = toClient[q]
    BY <1>2, <1>6, <2>1, ChangeOne
  <2>5. StrayType'
    BY <1>1, <2>1, <2>3, <2>4 DEF StrayType, TypeOK
  <2> QED BY <1>1, <1>11, <2>1, <2>3, <2>4, <2>5
<1> QED BY <1>8, <1>9, <1>10, <1>11 DEF Honestly

\* What Drops leaves as it is, and which messages an honest player drops.
LEMMA DropsDoes ==
  ASSUME StrayType, NEW p \in Players, Drops(p)
  PROVE  /\ p \in online /\ toClient[p] # << >>
         /\ p \notin Strays =>
              Head(toClient[p]).event = "RC_FINAL" /\ client[p].stage # "answered"
         /\ toClient'[p] = Tail(toClient[p])
         /\ \A q \in Players : q # p => toClient'[q] = toClient[q]
         /\ UNCHANGED <<resultInfos, question, gone, crashed, online, client, toServer>>
         /\ UNCHANGED <<started, strayed, early, leftAt>>
         /\ StrayType'
<1>1. /\ p \in online /\ toClient[p] # << >>
      /\ p \notin Strays =>
              Head(toClient[p]).event = "RC_FINAL" /\ client[p].stage # "answered"
      /\ toClient' = [toClient EXCEPT ![p] = Tail(toClient[p])]
      /\ UNCHANGED <<resultInfos, question, gone, crashed, online, client, toServer>>
      /\ UNCHANGED <<started, strayed, early, leftAt>>
  BY DEF Drops, server, game
<1>2. toClient \in [Players -> Seq(Heard)] /\ Tail(toClient[p]) \in Seq(Heard)
  BY <1>1, TailOf DEF StrayType
<1>3. /\ toClient' \in [Players -> Seq(Heard)] /\ toClient'[p] = Tail(toClient[p])
      /\ \A q \in Players : q # p => toClient'[q] = toClient[q]
  BY <1>1, <1>2, ChangeOne
<1>4. StrayType'
  BY <1>1, <1>3 DEF StrayType, TypeOK
<1> QED BY <1>1, <1>3, <1>4

\* What StraySends leaves as it is.
LEMMA StraySendsDoes ==
  ASSUME StrayType, NEW p \in Strays, NEW msg \in {RcResult(0), RcNoResult, RcPrepare},
         StraySends(p, msg)
  PROVE  /\ \A q \in Players : q # p => toServer'[q] = toServer[q]
         /\ UNCHANGED <<resultInfos, question, gone, crashed, online, client, toClient>>
         /\ UNCHANGED <<started, early, leftAt>>
         /\ StrayType'
<1>1. p \in Players /\ msg \in Said
  BY StrayAssumption, MessageTypes
<1>2. /\ toServer' = [toServer EXCEPT ![p] = Append(toServer[p], msg)]
      /\ UNCHANGED <<resultInfos, question, gone, crashed, online, client, toClient>>
      /\ UNCHANGED <<started, early, leftAt>>
  BY DEF StraySends, server
<1>3. toServer \in [Players -> Seq(Said)] /\ Append(toServer[p], msg) \in Seq(Said)
  BY <1>1, AppendOf DEF StrayType
<1>4. /\ toServer' \in [Players -> Seq(Said)]
      /\ \A q \in Players : q # p => toServer'[q] = toServer[q]
  BY <1>1, <1>2, <1>3, ChangeOne
<1>5. StrayType'
  BY <1>2, <1>4 DEF StrayType, TypeOK
<1> QED BY <1>2, <1>4, <1>5

\* What LeaveGame leaves as it is; the queues of those who stay are untouched.
LEMMA LeaveGameDoes ==
  ASSUME StrayType, NEW p \in Players, LeaveGame(p)
  PROVE  /\ p \in online /\ online' = online \ {p}
         /\ \A q \in online' : toServer'[q] = toServer[q] /\ toClient'[q] = toClient[q]
         /\ UNCHANGED <<resultInfos, question, crashed, client, started, early>>
         /\ DOMAIN leftAt' = DOMAIN leftAt \cup {p}
         /\ leftAt'[p] = question
         /\ \A q \in DOMAIN leftAt : q # p => leftAt'[q] = leftAt[q]
         /\ StrayType'
<1>1. /\ p \in online /\ online' = online \ {p}
      /\ toServer' = [toServer EXCEPT ![p] = << >>]
      /\ toClient' = [toClient EXCEPT ![p] = << >>]
      /\ UNCHANGED <<resultInfos, question, crashed, client, started, early>>
      /\ gone' \in {gone, TRUE}
      /\ leftAt' = [q \in DOMAIN leftAt \cup {p} |-> IF q = p THEN question ELSE leftAt[q]]
  BY DEF LeaveGame, Leave, server
<1>2. /\ toServer \in [Players -> Seq(Said)] /\ toClient \in [Players -> Seq(Heard)]
      /\ << >> \in Seq(Said) /\ << >> \in Seq(Heard)
  BY DEF StrayType
<1>3. /\ toServer' \in [Players -> Seq(Said)] /\ toClient' \in [Players -> Seq(Heard)]
      /\ \A q \in Players : q # p => toServer'[q] = toServer[q] /\ toClient'[q] = toClient[q]
  BY <1>1, <1>2, ChangeOne
<1>4. /\ DOMAIN leftAt' = DOMAIN leftAt \cup {p}
      /\ leftAt'[p] = question
      /\ \A q \in DOMAIN leftAt : q # p => leftAt'[q] = leftAt[q]
  BY <1>1
<1>5. TypeOK'
  <2>1. gone' \in BOOLEAN
    BY <1>1 DEF StrayType, TypeOK
  <2> QED BY <1>1, <1>3, <2>1 DEF StrayType, TypeOK
<1>6. DOMAIN leftAt' \subseteq Players /\ \A q \in DOMAIN leftAt' : leftAt'[q] \in Nat
  BY <1>4 DEF StrayType, TypeOK
<1>7. StrayType'
  BY <1>1, <1>3, <1>5, <1>6 DEF StrayType
<1>8. online' \subseteq Players
  BY <1>1 DEF StrayType, TypeOK
<1> QED BY <1>1, <1>3, <1>4, <1>7, <1>8

\* The process ends for want of a player, of a game or of a body.
Crashes == StartGameCrashes \/ \E p \in Players : HandleEventCrashes(p)

\* Nothing else changes then.
LEMMA CrashesDoes ==
  ASSUME Crashes
  PROVE  /\ crashed' = TRUE
         /\ UNCHANGED <<resultInfos, question, gone, online, client, toServer, toClient>>
         /\ UNCHANGED <<started, strayed, early, leftAt>>
BY DEF Crashes, StartGameCrashes, HandleEventCrashes, EventCrashes, game

\* Every step keeps the types.
LEMMA StrayTypeStep == StrayType /\ [StrayNext]_strayVars => StrayType'
<1> SUFFICES ASSUME StrayType, [StrayNext]_strayVars PROVE StrayType'
  OBVIOUS
<1>1. CASE StartGame
  <2>1. /\ SendQuestion(resultInfos, toClient)
        /\ UNCHANGED <<gone, crashed, online, client, toServer, strayed, early, leftAt>>
        /\ started' = TRUE
    BY <1>1 DEF StartGame
  <2>2. /\ question' \in Nat /\ DOMAIN resultInfos' \subseteq Players
        /\ resultInfos' \in [DOMAIN resultInfos' -> InfoType]
        /\ toClient' \in [Players -> Seq(Heard)]
    BY <2>1, QuestionDoes DEF StrayType, TypeOK
  <2> QED BY <2>1, <2>2 DEF StrayType, TypeOK
<1>2. CASE Crashes
  BY <1>2, CrashesDoes DEF StrayType, TypeOK
<1>3. ASSUME NEW p \in Players, HandleEvent(p) PROVE StrayType'
  <2>1. early' = (early \/ ~started) /\ started' = started /\ leftAt' = leftAt
    BY <1>3 DEF HandleEvent
  <2>2. early' \in BOOLEAN /\ started' \in BOOLEAN
    BY <2>1 DEF StrayType
  <2>3. CASE HandleResult(p)
    BY <2>1, <2>2, <2>3, ResultDoes DEF StrayType
  <2>4. CASE HandlePrepare(p)
    <3>1. /\ gone' = gone /\ crashed' = crashed /\ online' = online /\ client' = client
          /\ toServer' \in [Players -> Seq(Said)]
      BY <2>4, PrepareDoes
    <3>2. PICK infos :
            /\ DOMAIN infos \subseteq Players /\ infos \in [DOMAIN infos -> InfoType]
            /\ \/ resultInfos' = infos /\ question' = question /\ toClient' = toClient
               \/ SendQuestion(infos, toClient)
      BY <2>4, PrepareDoes
    <3>3. /\ question' \in Nat /\ DOMAIN resultInfos' \subseteq Players
          /\ resultInfos' \in [DOMAIN resultInfos' -> InfoType]
          /\ toClient' \in [Players -> Seq(Heard)]
      BY <3>2, QuestionDoes DEF StrayType, TypeOK
    <3> QED BY <2>1, <2>2, <3>1, <3>3 DEF StrayType, TypeOK
  <2> QED BY <1>3, <2>3, <2>4 DEF HandleEvent
<1>4. ASSUME NEW p \in Players, Drops(p) PROVE StrayType'
  BY <1>4, DropsDoes
<1>5. ASSUME NEW p \in Players, LeaveGame(p) PROVE StrayType'
  BY <1>5, LeaveGameDoes
<1>6. ASSUME NEW p \in Honest, Honestly(p) PROVE StrayType'
  BY <1>6, HonestlyDoes DEF Honest
<1>7. ASSUME NEW p \in Strays, NEW msg \in {RcResult(0), RcNoResult, RcPrepare}, StraySends(p, msg)
      PROVE  StrayType'
  BY <1>7, StraySendsDoes
<1>8. CASE UNCHANGED strayVars
  BY <1>8 DEF strayVars, vars, StrayType, TypeOK
<1> QED BY <1>1, <1>2, <1>3, <1>4, <1>5, <1>6, <1>7, <1>8 DEF StrayNext, Crashes

---------------------------------------------------------------------------
(* The honest players go round the circle together.                        *)

\* Results, or results before a question, when the first of them is taken.
LEMMA FinalsTail ==
  ASSUME NEW S, NEW queue \in Seq(S), queue # << >>, NEW r, NEW plays
  PROVE  /\ OnlyFinals(queue, r, plays) =>
              Head(queue).event = "RC_FINAL" /\ OnlyFinals(Tail(queue), r, plays)
         /\ FinalsThenStart(queue, r, plays) =>
              \/ Head(queue) = RcStart(r + 1) /\ Tail(queue) = << >>
              \/ Head(queue).event = "RC_FINAL" /\ FinalsThenStart(Tail(queue), r, plays)
<1> DEFINE rest == Tail(queue)
<1>1. /\ Len(queue) \in Nat \ {0} /\ Len(rest) = Len(queue) - 1 /\ rest \in Seq(S)
      /\ Head(queue) = queue[1]
      /\ \A i \in 1..(Len(queue) - 1) : rest[i] = queue[i + 1]
  BY TailOf
<1> HIDE DEF rest
<1>2. rest = << >> <=> Len(rest) = 0
  BY <1>1, EmptyOf
<1>3. OnlyFinals(queue, r, plays) =>
        queue[1].event = "RC_FINAL" /\ OnlyFinals(rest, r, plays)
  <2> SUFFICES ASSUME OnlyFinals(queue, r, plays)
               PROVE  queue[1].event = "RC_FINAL" /\ OnlyFinals(rest, r, plays)
    OBVIOUS
  <2>1. \A i \in 1..Len(queue) : TrueFinal(queue[i], r, plays)
    BY DEF OnlyFinals
  <2>2. queue[1].event = "RC_FINAL"
    BY <1>1, <2>1 DEF TrueFinal
  <2>3. \A i \in 1..Len(rest) : TrueFinal(rest[i], r, plays)
    <3> TAKE i \in 1..Len(rest)
    <3>1. rest[i] = queue[i + 1] /\ i + 1 \in 1..Len(queue)
      BY <1>1
    <3> QED BY <2>1, <3>1
  <2> QED BY <2>2, <2>3 DEF OnlyFinals
<1>4. FinalsThenStart(queue, r, plays) =>
        \/ queue[1] = RcStart(r + 1) /\ rest = << >>
        \/ queue[1].event = "RC_FINAL" /\ FinalsThenStart(rest, r, plays)
  <2> SUFFICES ASSUME FinalsThenStart(queue, r, plays)
               PROVE  \/ queue[1] = RcStart(r + 1) /\ rest = << >>
                      \/ queue[1].event = "RC_FINAL" /\ FinalsThenStart(rest, r, plays)
    OBVIOUS
  <2>1. /\ queue[Len(queue)] = RcStart(r + 1)
        /\ \A i \in 1..(Len(queue) - 1) : TrueFinal(queue[i], r, plays)
    BY DEF FinalsThenStart
  <2>2. CASE Len(queue) = 1
    BY <1>1, <1>2, <2>1, <2>2
  <2>3. CASE Len(queue) > 1
    <3>1. queue[1].event = "RC_FINAL"
      BY <1>1, <2>1, <2>3 DEF TrueFinal
    <3>2. Len(rest) > 0 /\ rest[Len(rest)] = RcStart(r + 1)
      <4>1. rest[Len(queue) - 1] = queue[(Len(queue) - 1) + 1]
        BY <1>1, <2>3
      <4>2. (Len(queue) - 1) + 1 = Len(queue) /\ Len(rest) > 0
        BY <1>1, <2>3
      <4> QED BY <1>1, <2>1, <4>1, <4>2
    <3>3. \A i \in 1..(Len(rest) - 1) : TrueFinal(rest[i], r, plays)
      <4> TAKE i \in 1..(Len(rest) - 1)
      <4>1. rest[i] = queue[i + 1] /\ i + 1 \in 1..(Len(queue) - 1)
        BY <1>1
      <4> QED BY <2>1, <4>1
    <3> QED BY <3>1, <3>2, <3>3 DEF FinalsThenStart
  <2> QED BY <1>1, <2>2, <2>3
<1> QED BY <1>1, <1>3, <1>4 DEF rest

\* Results, when results or the next question are added to them.
LEMMA FinalsAppend ==
  ASSUME NEW S, NEW queue \in Seq(S), NEW m \in S, NEW r, NEW plays,
         OnlyFinals(queue, r, plays)
  PROVE  /\ TrueFinal(m, r, plays) => OnlyFinals(Append(queue, m), r, plays)
         /\ m = RcStart(r + 1) => FinalsThenStart(Append(queue, m), r, plays)
<1> DEFINE more == Append(queue, m)
<1>1. /\ Len(queue) \in Nat /\ Len(more) = Len(queue) + 1
      /\ more[Len(queue) + 1] = m
      /\ \A i \in 1..Len(queue) : more[i] = queue[i]
  BY AppendOf
<1> HIDE DEF more
<1>2. \A i \in 1..Len(queue) : TrueFinal(more[i], r, plays)
  BY <1>1 DEF OnlyFinals
<1>3. TrueFinal(m, r, plays) => OnlyFinals(more, r, plays)
  BY <1>1, <1>2 DEF OnlyFinals
<1>4. m = RcStart(r + 1) => FinalsThenStart(more, r, plays)
  BY <1>1, <1>2 DEF FinalsThenStart
<1> QED BY <1>3, <1>4 DEF more

\* Results that have everybody who plays have those who still do.
LEMMA FinalsOfFewer ==
  ASSUME NEW plays, NEW fewer \in SUBSET plays, NEW queue, NEW r
  PROVE  /\ OnlyFinals(queue, r, plays) => OnlyFinals(queue, r, fewer)
         /\ FinalsThenStart(queue, r, plays) => FinalsThenStart(queue, r, fewer)
<1>1. \A m : TrueFinal(m, r, plays) => TrueFinal(m, r, fewer)
  BY DEF TrueFinal
<1> QED BY <1>1 DEF OnlyFinals, FinalsThenStart

\* In an empty queue there are no other messages than results.
LEMMA FinalsOfNone == \A r, plays : OnlyFinals(<< >>, r, plays)
BY DEF OnlyFinals

\* What a step leaves alone stays where it is.
Untouched(q) ==
  /\ q \in DOMAIN resultInfos => q \in DOMAIN resultInfos' /\ resultInfos'[q] = resultInfos[q]
  /\ client'[q] = client[q] /\ toServer'[q] = toServer[q] /\ toClient'[q] = toClient[q]

\* Who is not touched stays in its place of the circle.
LEMMA UntouchedStays ==
  ASSUME NEW q, Untouched(q), question' = question, PlaysOn' \subseteq PlaysOn
  PROVE  /\ AtWork(q) => AtWork(q)'
         /\ AtRest(q) => AtRest(q)'
         /\ AtFirst(q) => AtFirst(q)'
<1> USE DEF Untouched, HasEntry, IsAt, Quiet, IsDone
<1>1. PlaysOn' \in SUBSET PlaysOn
  OBVIOUS
<1>2. \A queue, r : /\ OnlyFinals(queue, r, PlaysOn) => OnlyFinals(queue, r, PlaysOn')
                    /\ FinalsThenStart(queue, r, PlaysOn) => FinalsThenStart(queue, r, PlaysOn')
  BY <1>1, FinalsOfFewer
<1>3. /\ WasAsked(q) => WasAsked(q)'
      /\ IsSolving(q) => IsSolving(q)'
      /\ HasAnswered(q) => HasAnswered(q)'
      /\ IsWaiting(q) => IsWaiting(q)'
  BY <1>2 DEF WasAsked, IsSolving, HasAnswered, IsWaiting
<1>4. /\ GetsResults(q) => GetsResults(q)'
      /\ IsReviewing(q) => IsReviewing(q)'
      /\ HasPrepared(q) => HasPrepared(q)'
      /\ IsPrepared(q) => IsPrepared(q)'
  BY <1>2 DEF GetsResults, IsReviewing, HasPrepared, IsPrepared
<1>5. AtFirst(q) => AtFirst(q)'
  BY DEF AtFirst
<1> QED BY <1>3, <1>4, <1>5 DEF AtWork, AtRest

\* Where a player is that does or says something.
LEMMA WhereSpeaks ==
  ASSUME NEW p
  PROVE  /\ client[p].stage = "solving" => (AtWork(p) => IsSolving(p)) /\ ~AtRest(p)
         /\ client[p].stage = "reviewing" => (AtRest(p) => IsReviewing(p)) /\ ~AtWork(p)
         /\ toServer[p] # << >> =>
              /\ AtWork(p) => /\ HasAnswered(p) /\ Tail(toServer[p]) = << >>
                              /\ Head(toServer[p]) = RcResult(question)
              /\ AtRest(p) => /\ HasPrepared(p) /\ Tail(toServer[p]) = << >>
                              /\ Head(toServer[p]) = RcPrepare
<1>1. /\ client[p].stage = "solving" => (AtWork(p) => IsSolving(p)) /\ ~AtRest(p)
      /\ client[p].stage = "reviewing" => (AtRest(p) => IsReviewing(p)) /\ ~AtWork(p)
  BY DEF AtWork, AtRest, WasAsked, IsSolving, HasAnswered, IsWaiting,
         GetsResults, IsReviewing, HasPrepared, IsPrepared, IsAt
<1>2. toServer[p] # << >> => /\ AtWork(p) => HasAnswered(p)
                             /\ AtRest(p) => HasPrepared(p)
  BY DEF AtWork, AtRest, WasAsked, IsSolving, IsWaiting,
         GetsResults, IsReviewing, IsPrepared, Quiet
<1>3. \A m : Head(<<m>>) = m /\ Tail(<<m>>) = << >>
  OBVIOUS
<1>4. /\ HasAnswered(p) => toServer[p] = <<RcResult(question)>>
      /\ HasPrepared(p) => toServer[p] = <<RcPrepare>>
  BY DEF HasAnswered, HasPrepared
<1> QED BY <1>1, <1>2, <1>3, <1>4

\* What a player can have in its queue, at work and at rest.
LEMMA WhereHears ==
  ASSUME StrayType, NEW p \in Players, toClient[p] # << >>
  PROVE  /\ AtWork(p) => WasAsked(p)
         /\ AtRest(p) => /\ Head(toClient[p]).event = "RC_FINAL"
                         /\ OnlyFinals(toClient[p], question, PlaysOn)
                         /\ OnlyFinals(Tail(toClient[p]), question, PlaysOn)
         /\ WasAsked(p) =>
              \/ Head(toClient[p]) = RcStart(question) /\ Tail(toClient[p]) = << >>
              \/ /\ Head(toClient[p]).event = "RC_FINAL"
                 /\ FinalsThenStart(Tail(toClient[p]), client[p].round, PlaysOn)
<1>1. toClient[p] \in Seq(Heard)
  BY DEF StrayType
<1>2. AtWork(p) => WasAsked(p)
  BY DEF AtWork, IsSolving, HasAnswered, IsWaiting, Quiet
<1>3. AtRest(p) => OnlyFinals(toClient[p], question, PlaysOn)
  BY DEF AtRest, GetsResults, IsReviewing, HasPrepared, IsPrepared
<1>4. WasAsked(p) => /\ client[p].round + 1 = question
                     /\ FinalsThenStart(toClient[p], client[p].round, PlaysOn)
  BY DEF WasAsked
<1> QED BY <1>1, <1>2, <1>3, <1>4, FinalsTail

\* Results that are put together when everybody who plays has answered.
LEMMA FinalIsTrue ==
  ASSUME NEW infos,
         \A h \in PlaysOn : h \in DOMAIN infos /\ infos[h].result = question
  PROVE  TrueFinal(FinalOf(infos), question, PlaysOn)
<1> DEFINE said == [q \in DOMAIN infos \cap online |-> infos[q].result]
<1>1. FinalOf(infos).event = "RC_FINAL" /\ FinalOf(infos).right = question
      /\ FinalOf(infos).results = said
  BY DEF FinalOf, RcFinal
<1>2. PlaysOn \subseteq DOMAIN said
  BY DEF PlaysOn
<1>3. \A q \in DOMAIN said \cap Honest : said[q] = question
  BY DEF PlaysOn
<1> HIDE DEF said
<1> QED BY <1>1, <1>2, <1>3 DEF TrueFinal

\* handleResult() notes the answer of a player who is at work, or what a
\* stray says; when all entries are done, everybody at work has answered.
LEMMA ResultKeepsTogether ==
  ASSUME StrayType, Together, NEW p \in Players, HandleResult(p)
  PROVE  Together'
<1>1. /\ p \in online /\ toServer[p] # << >> /\ Head(toServer[p]).event = "RC_RESULT"
      /\ toServer'[p] = Tail(toServer[p])
      /\ \A q \in Players : q # p => toServer'[q] = toServer[q]
      /\ online' = online /\ client' = client /\ question' = question
      /\ DOMAIN resultInfos' = DOMAIN resultInfos \cup {p}
      /\ resultInfos'[p] = Info("DONE", Head(toServer[p]).question)
      /\ \A q \in DOMAIN resultInfos : q # p => resultInfos'[q] = resultInfos[q]
      /\ \/ ~AllAre(resultInfos', "DONE") /\ toClient' = toClient
         \/ /\ AllAre(resultInfos', "DONE")
            /\ FinalOf(resultInfos') \in Heard
            /\ toClient' = Broadcast(toClient, FinalOf(resultInfos'))
  BY ResultDoes
<1>2. PlaysOn' = PlaysOn /\ PlaysOn \subseteq Players /\ PlaysOn \subseteq online
  BY <1>1 DEF PlaysOn, Honest
<1>3. p \in PlaysOn => ~AtRest(p)
  <2>1. RcPrepare.event # "RC_RESULT"
    BY DEF RcPrepare
  <2> QED BY <1>1, <2>1, WhereSpeaks
<1>4. p \in PlaysOn /\ AtWork(p) =>
        /\ HasAnswered(p) /\ toServer'[p] = << >>
        /\ resultInfos'[p].state = "DONE" /\ resultInfos'[p].result = question
  <2>1. RcResult(question).question = question
    BY DEF RcResult
  <2> QED BY <1>1, <2>1, WhereSpeaks DEF Info
<1>5. CASE ~AllAre(resultInfos', "DONE")
  <2>1. toClient' = toClient
    BY <1>1, <1>5
  <2>2. \A h \in PlaysOn : h # p => Untouched(h)
    BY <1>1, <1>2, <2>1 DEF Untouched
  <2>3. \A h \in PlaysOn : h # p => (AtWork(h) => AtWork(h)') /\ (AtRest(h) => AtRest(h)')
    BY <1>1, <1>2, <2>2, UntouchedStays
  <2>4. p \in PlaysOn /\ AtWork(p) => AtWork(p)'
    <3> SUFFICES ASSUME p \in PlaysOn, AtWork(p) PROVE IsWaiting(p)'
      BY DEF AtWork
    <3>1. IsAt(p, "answered") /\ toClient[p] = << >>
      BY <1>4 DEF HasAnswered
    <3> QED BY <1>1, <1>4, <2>1, <3>1 DEF IsWaiting, IsDone, HasEntry, IsAt, Quiet
  <2> QED BY <1>2, <1>3, <2>3, <2>4 DEF Together
<1>6. CASE AllAre(resultInfos', "DONE")
  <2> DEFINE m == FinalOf(resultInfos')
  <2>1. m \in Heard /\ toClient' = Broadcast(toClient, m)
    BY <1>1, <1>6
  <2>2. \A h \in PlaysOn : h \in DOMAIN resultInfos => resultInfos'[h].state = "DONE"
    BY <1>1, <1>6 DEF AllAre
  <2>3. \A h \in PlaysOn : h # p /\ (AtWork(h) \/ AtRest(h)) =>
          h \in DOMAIN resultInfos /\ resultInfos'[h] = resultInfos[h]
    BY <1>1 DEF AtWork, AtRest, WasAsked, IsSolving, HasAnswered, IsWaiting, GetsResults,
                IsReviewing, HasPrepared, IsPrepared, HasEntry, IsDone
  <2>4. \A h \in PlaysOn : h # p /\ AtWork(h) => IsWaiting(h)
    BY <2>2, <2>3 DEF AtWork, WasAsked, IsSolving, HasAnswered, HasEntry
  <2>5. \A h \in PlaysOn : h # p /\ AtRest(h) => ~IsPrepared(h)
    BY <2>2, <2>3 DEF IsPrepared, HasEntry
  <2>6. \A h \in PlaysOn : AtWork(h) \/ (h # p /\ AtRest(h)) => IsDone(h)'
    <3> SUFFICES ASSUME NEW h \in PlaysOn, AtWork(h) \/ (h # p /\ AtRest(h)) PROVE IsDone(h)'
      OBVIOUS
    <3>1. CASE h = p
      BY <1>1, <1>4, <3>1 DEF IsDone, HasEntry
    <3>2. CASE h # p
      <4>1. IsDone(h)
        BY <2>4, <2>5, <3>2 DEF AtRest, IsWaiting, GetsResults, IsReviewing, HasPrepared
      <4> QED BY <1>1, <3>2, <4>1 DEF IsDone, HasEntry
    <3> QED BY <3>1, <3>2
  <2>7. \A h \in PlaysOn : AtWork(h) \/ AtRest(h)
    BY DEF Together
  <2>8. \A h \in PlaysOn : IsDone(h)'
    BY <1>3, <2>6, <2>7
  <2>9. TrueFinal(m, question, PlaysOn)
    <3>1. \A h \in PlaysOn : h \in DOMAIN resultInfos' /\ resultInfos'[h].result = question
      BY <1>1, <2>8 DEF IsDone, HasEntry
    <3> QED BY <3>1, FinalIsTrue
  <2>10. \A h \in PlaysOn : toClient'[h] = Append(toClient[h], m) /\ toClient[h] \in Seq(Heard)
    BY <1>2, <2>1, BroadcastOf DEF StrayType
  <2> HIDE DEF m
  <2>11. ASSUME NEW h \in PlaysOn, OnlyFinals(toClient[h], question, PlaysOn)
         PROVE  OnlyFinals(toClient'[h], question, PlaysOn)
    BY <2>1, <2>9, <2>10, <2>11, FinalsAppend
  <2>12. ASSUME NEW h \in PlaysOn, AtWork(h) PROVE GetsResults(h)'
    <3>1. IsAt(h, "answered") /\ toClient[h] = << >> /\ toServer'[h] = << >>
      <4>1. CASE h = p
        BY <1>4, <2>12, <4>1 DEF HasAnswered
      <4>2. CASE h # p
        BY <1>1, <1>2, <2>4, <2>12, <4>2 DEF IsWaiting, Quiet
      <4> QED BY <4>1, <4>2
    <3>2. OnlyFinals(toClient'[h], question, PlaysOn)
      BY <2>11, <3>1, FinalsOfNone
    <3> QED BY <1>1, <1>2, <2>8, <3>1, <3>2 DEF GetsResults, IsAt
  <2>13. ASSUME NEW h \in PlaysOn, AtRest(h) PROVE AtRest(h)'
    <3>1. h # p
      BY <1>3, <2>13
    <3>2. GetsResults(h) \/ IsReviewing(h) \/ HasPrepared(h)
      BY <2>5, <2>13, <3>1 DEF AtRest
    <3>3. OnlyFinals(toClient'[h], question, PlaysOn)
      BY <2>11, <3>2 DEF GetsResults, IsReviewing, HasPrepared
    <3>4. toServer'[h] = toServer[h]
      BY <1>1, <1>2, <3>1
    <3>5. CASE GetsResults(h)
      BY <1>1, <1>2, <2>8, <3>3, <3>4, <3>5 DEF GetsResults, IsAt, AtRest
    <3>6. CASE IsReviewing(h)
      BY <1>1, <1>2, <2>8, <3>3, <3>4, <3>6 DEF IsReviewing, IsAt, AtRest
    <3>7. CASE HasPrepared(h)
      BY <1>1, <1>2, <2>8, <3>3, <3>4, <3>7 DEF HasPrepared, IsAt, AtRest
    <3> QED BY <3>2, <3>5, <3>6, <3>7
  <2> QED BY <1>2, <2>12, <2>13 DEF Together, AtRest
<1> QED BY <1>5, <1>6

\* handlePrepare() notes a player who has seen the results, or what a stray
\* says; when all entries are prepared, everybody who plays is.
LEMMA PrepareKeepsTogether ==
  ASSUME StrayType, Together, NEW p \in Players, HandlePrepare(p)
  PROVE  Together' /\ question' \in {question, question + 1}
<1>1. /\ p \in online /\ toServer[p] # << >> /\ Head(toServer[p]).event = "RC_PREPARE"
      /\ toServer'[p] = Tail(toServer[p])
      /\ \A q \in Players : q # p => toServer'[q] = toServer[q]
      /\ online' = online /\ client' = client
  BY PrepareDoes
<1>2. PICK infos :
        /\ DOMAIN infos = DOMAIN resultInfos \cup {p}
        /\ DOMAIN infos \subseteq Players
        /\ infos \in [DOMAIN infos -> InfoType]
        /\ infos[p].state = "PREPARED"
        /\ \A q \in DOMAIN resultInfos : q # p => infos[q] = resultInfos[q]
        /\ \/ /\ ~AllAre(infos, "PREPARED")
              /\ resultInfos' = infos
              /\ question' = question /\ toClient' = toClient
           \/ AllAre(infos, "PREPARED") /\ SendQuestion(infos, toClient)
  BY PrepareDoes
<1>3. PlaysOn' = PlaysOn /\ PlaysOn \subseteq Players /\ PlaysOn \subseteq online
  BY <1>1 DEF PlaysOn, Honest
<1>4. p \in PlaysOn => ~AtWork(p)
  <2>1. RcResult(question).event # "RC_PREPARE"
    BY DEF RcResult
  <2> QED BY <1>1, <2>1, WhereSpeaks
<1>5. p \in PlaysOn /\ AtRest(p) => HasPrepared(p) /\ toServer'[p] = << >>
  BY <1>1, WhereSpeaks
<1>6. CASE ~AllAre(infos, "PREPARED")
  <2>1. resultInfos' = infos /\ question' = question /\ toClient' = toClient
    BY <1>2, <1>6
  <2>2. \A h \in PlaysOn : h # p => Untouched(h)
    BY <1>1, <1>2, <1>3, <2>1 DEF Untouched
  <2>3. \A h \in PlaysOn : h # p => (AtWork(h) => AtWork(h)') /\ (AtRest(h) => AtRest(h)')
    BY <1>3, <2>1, <2>2, UntouchedStays
  <2>4. p \in PlaysOn /\ AtRest(p) => AtRest(p)'
    <3> SUFFICES ASSUME p \in PlaysOn, AtRest(p) PROVE IsPrepared(p)'
      BY DEF AtRest
    <3>1. IsAt(p, "ready") /\ OnlyFinals(toClient[p], question, PlaysOn)
      BY <1>5 DEF HasPrepared
    <3> QED BY <1>1, <1>2, <1>3, <1>5, <2>1, <3>1 DEF IsPrepared, HasEntry, IsAt
  <2> QED BY <1>3, <1>4, <2>1, <2>3, <2>4 DEF Together
<1>7. CASE AllAre(infos, "PREPARED")
  <2>1. SendQuestion(infos, toClient)
    BY <1>2, <1>7
  <2>2. /\ question' = question + 1
        /\ DOMAIN resultInfos' = DOMAIN infos \cup online
        /\ \A q \in online : resultInfos'[q] = Info("CALCULATING", 0)
        /\ RcStart(question + 1) \in Heard
        /\ \A q \in Players :
             toClient'[q] = IF q \in online THEN Append(toClient[q], RcStart(question + 1))
                                            ELSE toClient[q]
    BY <1>2, <2>1, QuestionDoes
  <2>3. ASSUME NEW h \in PlaysOn, AtRest(h) PROVE WasAsked(h)'
    <3>1. /\ IsAt(h, "ready") /\ OnlyFinals(toClient[h], question, PlaysOn)
          /\ toServer'[h] = << >>
      <4>1. CASE h = p
        BY <1>5, <2>3, <4>1 DEF HasPrepared
      <4>2. CASE h # p
        <5>1. h \in DOMAIN resultInfos => resultInfos[h].state = "PREPARED"
          BY <1>2, <1>7, <4>2 DEF AllAre
        <5>2. IsPrepared(h)
          BY <2>3, <5>1 DEF AtRest, GetsResults, IsReviewing, HasPrepared, IsDone, HasEntry
        <5> QED BY <1>1, <1>3, <4>2, <5>2 DEF IsPrepared
      <4> QED BY <4>1, <4>2
    <3>2. toClient'[h] = Append(toClient[h], RcStart(question + 1))
          /\ toClient[h] \in Seq(Heard)
      BY <1>3, <2>2 DEF StrayType
    <3>3. FinalsThenStart(toClient'[h], question, PlaysOn)
      BY <2>2, <3>1, <3>2, FinalsAppend
    <3>4. HasEntry(h, "CALCULATING")'
      BY <1>3, <2>2 DEF HasEntry, Info
    <3> QED BY <1>1, <1>3, <2>2, <3>1, <3>3, <3>4 DEF WasAsked, IsAt
  <2>4. ASSUME NEW h \in PlaysOn, AtWork(h) PROVE FALSE
    <3>1. h # p
      BY <1>4, <2>4
    <3>2. h \in DOMAIN resultInfos /\ resultInfos[h].state \in {"CALCULATING", "DONE"}
      BY <2>4 DEF AtWork, WasAsked, IsSolving, HasAnswered, IsWaiting, IsDone, HasEntry
    <3> QED BY <1>2, <1>7, <3>1, <3>2 DEF AllAre
  <2> QED BY <1>3, <2>2, <2>3, <2>4 DEF Together, AtWork
<1> QED BY <1>6, <1>7

\* An honest player moves on by itself within its half of the circle.
LEMMA HonestlyKeepsTogether ==
  ASSUME StrayType, Together, NEW p \in Honest, Honestly(p)
  PROVE  Together'
<1>1. p \in Players /\ p \in PlaysOn
  BY HonestlyDoes DEF PlaysOn, Honest
<1>2. /\ p \in online /\ UNCHANGED <<resultInfos, question, gone, crashed, online>>
      /\ \A q \in Players : q # p => /\ client'[q] = client[q]
                                     /\ toServer'[q] = toServer[q]
                                     /\ toClient'[q] = toClient[q]
      /\ \/ /\ toClient[p] # << >> /\ Head(toClient[p]).event = "RC_START"
            /\ toServer'[p] = toServer[p] /\ toClient'[p] = Tail(toClient[p])
            /\ client'[p] = [stage |-> "solving", round |-> Head(toClient[p]).question]
         \/ /\ client[p].stage = "solving"
            /\ client'[p] = [stage |-> "answered", round |-> client[p].round]
            /\ toServer'[p] = Append(toServer[p], RcResult(client[p].round))
            /\ toClient'[p] = toClient[p]
         \/ /\ client[p].stage = "reviewing"
            /\ client'[p] = [stage |-> "ready", round |-> client[p].round]
            /\ toServer'[p] = Append(toServer[p], RcPrepare)
            /\ toClient'[p] = toClient[p]
         \/ /\ client[p].stage = "answered"
            /\ toClient[p] # << >> /\ Head(toClient[p]).event = "RC_FINAL"
            /\ client'[p] = [stage |-> "reviewing", round |-> client[p].round]
            /\ toServer'[p] = toServer[p] /\ toClient'[p] = Tail(toClient[p])
  BY <1>1, HonestlyDoes
<1>3. PlaysOn' = PlaysOn /\ PlaysOn \subseteq Players
  BY <1>2 DEF PlaysOn, Honest
<1>4. \A h \in PlaysOn : h # p => (AtWork(h) => AtWork(h)') /\ (AtRest(h) => AtRest(h)')
  <2>1. \A h \in PlaysOn : h # p => Untouched(h)
    BY <1>2, <1>3 DEF Untouched
  <2> QED BY <1>2, <1>3, <2>1, UntouchedStays
<1>5. AtWork(p) => AtWork(p)'
  <2> SUFFICES ASSUME AtWork(p) PROVE AtWork(p)'
    OBVIOUS
  <2>1. CASE toClient[p] # << >> /\ Head(toClient[p]).event = "RC_START"
             /\ toServer'[p] = toServer[p] /\ toClient'[p] = Tail(toClient[p])
             /\ client'[p] = [stage |-> "solving", round |-> Head(toClient[p]).question]
    <3>1. WasAsked(p) /\ Head(toClient[p]) = RcStart(question) /\ Tail(toClient[p]) = << >>
      BY <1>1, <2>1, WhereHears
    <3>2. Head(toClient[p]).question = question
      BY <3>1 DEF RcStart
    <3>3. IsSolving(p)'
      BY <1>2, <2>1, <3>1, <3>2 DEF WasAsked, IsSolving, HasEntry, IsAt, Quiet
    <3> QED BY <3>3 DEF AtWork
  <2>2. CASE client[p].stage = "solving"
             /\ client'[p] = [stage |-> "answered", round |-> client[p].round]
             /\ toServer'[p] = Append(toServer[p], RcResult(client[p].round))
             /\ toClient'[p] = toClient[p]
    <3>1. IsSolving(p)
      BY <2>2, WhereSpeaks
    <3>2. toServer'[p] = <<RcResult(question)>>
      BY <2>2, <3>1, AppendToEmpty DEF IsSolving, IsAt, Quiet
    <3>3. HasAnswered(p)'
      BY <1>2, <2>2, <3>1, <3>2 DEF HasAnswered, IsSolving, HasEntry, IsAt, Quiet
    <3> QED BY <3>3 DEF AtWork
  <2>3. client[p].stage # "reviewing"
    BY WhereSpeaks
  <2>4. ~(client[p].stage = "answered" /\ toClient[p] # << >>)
    BY <1>1, WhereHears DEF WasAsked
  <2> QED BY <1>2, <2>1, <2>2, <2>3, <2>4
<1>6. AtRest(p) => AtRest(p)'
  <2> SUFFICES ASSUME AtRest(p) PROVE AtRest(p)'
    OBVIOUS
  <2>1. toClient[p] # << >> => Head(toClient[p]).event # "RC_START"
    BY <1>1, WhereHears
  <2>2. client[p].stage # "solving"
    BY WhereSpeaks
  <2>3. CASE client[p].stage = "reviewing"
             /\ client'[p] = [stage |-> "ready", round |-> client[p].round]
             /\ toServer'[p] = Append(toServer[p], RcPrepare)
             /\ toClient'[p] = toClient[p]
    <3>1. IsReviewing(p)
      BY <2>3, WhereSpeaks
    <3>2. toServer'[p] = <<RcPrepare>>
      BY <2>3, <3>1, AppendToEmpty DEF IsReviewing
    <3>3. HasPrepared(p)'
      BY <1>2, <1>3, <2>3, <3>1, <3>2 DEF HasPrepared, IsReviewing, IsDone, HasEntry, IsAt
    <3> QED BY <3>3 DEF AtRest
  <2>4. CASE client[p].stage = "answered"
             /\ toClient[p] # << >> /\ Head(toClient[p]).event = "RC_FINAL"
             /\ client'[p] = [stage |-> "reviewing", round |-> client[p].round]
             /\ toServer'[p] = toServer[p] /\ toClient'[p] = Tail(toClient[p])
    <3>1. GetsResults(p)
      BY <2>4 DEF AtRest, IsReviewing, HasPrepared, IsPrepared, IsAt
    <3>2. OnlyFinals(toClient'[p], question, PlaysOn)
      BY <1>1, <2>4, WhereHears
    <3>3. IsReviewing(p)'
      BY <1>2, <1>3, <2>4, <3>1, <3>2 DEF GetsResults, IsReviewing, IsDone, HasEntry, IsAt
    <3> QED BY <3>3 DEF AtRest
  <2> QED BY <1>2, <2>1, <2>2, <2>3, <2>4
<1> QED BY <1>3, <1>4, <1>5, <1>6 DEF Together

\* Results that are not waited for make no difference.
LEMMA DropsKeepsTogether ==
  ASSUME StrayType, Together, NEW p \in Players, Drops(p)
  PROVE  Together'
<1>1. /\ p \in online /\ toClient[p] # << >>
      /\ p \notin Strays =>
           Head(toClient[p]).event = "RC_FINAL" /\ client[p].stage # "answered"
      /\ toClient'[p] = Tail(toClient[p])
      /\ \A q \in Players : q # p => toClient'[q] = toClient[q]
      /\ UNCHANGED <<resultInfos, question, gone, crashed, online, client, toServer>>
  BY DropsDoes
<1>2. PlaysOn' = PlaysOn /\ PlaysOn \subseteq Players
  BY <1>1 DEF PlaysOn, Honest
<1>3. \A h \in PlaysOn : h # p => (AtWork(h) => AtWork(h)') /\ (AtRest(h) => AtRest(h)')
  <2>1. \A h \in PlaysOn : h # p => Untouched(h)
    BY <1>1, <1>2 DEF Untouched
  <2> QED BY <1>1, <1>2, <2>1, UntouchedStays
<1>4. p \in PlaysOn => Head(toClient[p]).event = "RC_FINAL" /\ client[p].stage # "answered"
  BY <1>1 DEF PlaysOn, Honest
<1>5. p \in PlaysOn /\ AtWork(p) => AtWork(p)'
  <2> SUFFICES ASSUME p \in PlaysOn, AtWork(p) PROVE WasAsked(p)'
    BY DEF AtWork
  <2>1. RcStart(question).event = "RC_START"
    BY DEF RcStart
  <2>2. WasAsked(p) /\ FinalsThenStart(toClient'[p], client[p].round, PlaysOn)
    BY <1>1, <1>4, <2>1, WhereHears
  <2> QED BY <1>1, <1>2, <2>2 DEF WasAsked, HasEntry
<1>6. p \in PlaysOn /\ AtRest(p) => AtRest(p)'
  <2> SUFFICES ASSUME p \in PlaysOn, AtRest(p) PROVE AtRest(p)'
    OBVIOUS
  <2>1. OnlyFinals(toClient'[p], question, PlaysOn)
    BY <1>1, WhereHears
  <2>2. IsReviewing(p) \/ HasPrepared(p) \/ IsPrepared(p)
    BY <1>4 DEF AtRest, GetsResults, IsAt
  <2> QED BY <1>1, <1>2, <2>1, <2>2
          DEF AtRest, IsReviewing, HasPrepared, IsPrepared, IsDone, HasEntry, IsAt
<1> QED BY <1>2, <1>3, <1>5, <1>6 DEF Together

\* What a step leaves alone for everybody who plays keeps them together.
LEMMA UntouchedTogether ==
  ASSUME Together, question' = question, PlaysOn' \subseteq PlaysOn,
         \A h \in PlaysOn' : Untouched(h)
  PROVE  Together'
BY UntouchedStays DEF Together

\* Every step keeps the honest players in one half of the circle.
LEMMA CircleStep ==
  StrayType /\ HonestCircle /\ [StrayNext]_strayVars => HonestCircle'
<1> SUFFICES ASSUME StrayType, HonestCircle, [StrayNext]_strayVars, ~early'
             PROVE  /\ ~started' => /\ question' = 0 /\ DOMAIN resultInfos' = {}
                                    /\ \A p \in PlaysOn' : AtFirst(p)'
                    /\ started' => question' > 0 /\ Together'
  BY DEF HonestCircle
<1>1. CASE StartGame
  <2>1. /\ SendQuestion(resultInfos, toClient) /\ started' = TRUE /\ ~started /\ ~early
        /\ Players \subseteq online
        /\ online' = online /\ client' = client /\ toServer' = toServer
    BY <1>1 DEF StartGame
  <2>2. question = 0 /\ \A p \in PlaysOn : AtFirst(p)
    BY <2>1 DEF HonestCircle
  <2>3. /\ question' = question + 1
        /\ DOMAIN resultInfos' = DOMAIN resultInfos \cup online
        /\ \A q \in online : resultInfos'[q] = Info("CALCULATING", 0)
        /\ RcStart(question + 1) \in Heard
        /\ \A q \in Players :
             toClient'[q] = IF q \in online THEN Append(toClient[q], RcStart(question + 1))
                                            ELSE toClient[q]
    BY <2>1, QuestionDoes DEF StrayType, TypeOK
  <2>4. PlaysOn' = PlaysOn /\ PlaysOn \subseteq Players /\ PlaysOn \subseteq online
    BY <2>1 DEF PlaysOn, Honest
  <2>5. ASSUME NEW h \in PlaysOn PROVE WasAsked(h)'
    <3>1. client[h].stage = "ready" /\ client[h].round = 0
          /\ toServer[h] = << >> /\ toClient[h] = << >>
      BY <2>2 DEF AtFirst, Quiet
    <3>2. toClient'[h] = Append(toClient[h], RcStart(question + 1))
          /\ toClient[h] \in Seq(Heard)
      BY <2>3, <2>4 DEF StrayType
    <3>3. FinalsThenStart(toClient'[h], 0, PlaysOn)
      BY <2>2, <2>3, <3>1, <3>2, FinalsOfNone, FinalsAppend
    <3>4. HasEntry(h, "CALCULATING")'
      BY <2>3, <2>4 DEF HasEntry, Info
    <3> QED BY <2>1, <2>2, <2>3, <2>4, <3>1, <3>3, <3>4 DEF WasAsked
  <2> QED BY <2>1, <2>2, <2>3, <2>4, <2>5 DEF Together, AtWork
<1>2. CASE Crashes \/ UNCHANGED strayVars
  <2>1. /\ UNCHANGED <<resultInfos, question, online, client, toServer, toClient>>
        /\ started' = started /\ early' = early
    BY <1>2, CrashesDoes DEF strayVars, vars
  <2>2. PlaysOn' = PlaysOn /\ \A h \in PlaysOn : Untouched(h)
    BY <2>1 DEF PlaysOn, Honest, Untouched
  <2>3. Together => Together'
    BY <2>1, <2>2, UntouchedTogether
  <2>4. \A h \in PlaysOn : AtFirst(h) => AtFirst(h)'
    BY <2>1, <2>2, UntouchedStays
  <2> QED BY <2>1, <2>2, <2>3, <2>4 DEF HonestCircle
<1>3. ASSUME NEW p \in Players, HandleEvent(p)
      PROVE  started' /\ question' > 0 /\ Together'
  <2>1. ~early /\ started /\ started' = started
    BY <1>3 DEF HandleEvent, StrayType
  <2>2. question > 0 /\ Together /\ question \in Nat
    BY <2>1 DEF HonestCircle, StrayType, TypeOK
  <2>3. CASE HandleResult(p)
    BY <2>1, <2>2, <2>3, ResultDoes, ResultKeepsTogether
  <2>4. CASE HandlePrepare(p)
    BY <2>1, <2>2, <2>4, PrepareKeepsTogether
  <2> QED BY <1>3, <2>3, <2>4 DEF HandleEvent
<1>4. ASSUME NEW p \in Players, Drops(p)
      PROVE  /\ ~started' => /\ question' = 0 /\ DOMAIN resultInfos' = {}
                             /\ \A h \in PlaysOn' : AtFirst(h)'
             /\ started' => question' > 0 /\ Together'
  <2>1. /\ p \in online /\ toClient[p] # << >>
        /\ \A q \in Players : q # p => toClient'[q] = toClient[q]
        /\ UNCHANGED <<resultInfos, question, online, client, toServer, started, early>>
    BY <1>4, DropsDoes
  <2>2. started => question' > 0 /\ Together'
    BY <1>4, <2>1, DropsKeepsTogether DEF HonestCircle
  <2>3. ASSUME ~started, NEW h \in PlaysOn' PROVE AtFirst(h)'
    <3>1. h \in PlaysOn /\ h \in Players
      BY <2>1 DEF PlaysOn, Honest
    <3>2. AtFirst(h)
      BY <2>1, <2>3, <3>1 DEF HonestCircle
    <3>3. h # p
      BY <2>1, <3>2 DEF AtFirst, Quiet
    <3> QED BY <2>1, <3>1, <3>2, <3>3 DEF AtFirst, Quiet
  <2> QED BY <2>1, <2>2, <2>3 DEF HonestCircle
<1>5. ASSUME NEW p \in Players, LeaveGame(p)
      PROVE  /\ ~started' => /\ question' = 0 /\ DOMAIN resultInfos' = {}
                             /\ \A h \in PlaysOn' : AtFirst(h)'
             /\ started' => question' > 0 /\ Together'
  <2>1. /\ online' = online \ {p}
        /\ \A q \in online' : toServer'[q] = toServer[q] /\ toClient'[q] = toClient[q]
        /\ UNCHANGED <<resultInfos, question, client, started, early>>
    BY <1>5, LeaveGameDoes
  <2>2. PlaysOn' \subseteq PlaysOn /\ \A h \in PlaysOn' : Untouched(h)
    BY <2>1 DEF PlaysOn, Honest, Untouched
  <2>3. Together => Together'
    BY <2>1, <2>2, UntouchedTogether
  <2>4. \A h \in PlaysOn' : AtFirst(h) => AtFirst(h)'
    BY <2>1, <2>2, UntouchedStays
  <2> QED BY <2>1, <2>2, <2>3, <2>4 DEF HonestCircle
<1>6. ASSUME NEW p \in Honest, Honestly(p)
      PROVE  started' /\ question' > 0 /\ Together'
  <2>1. /\ p \in online /\ UNCHANGED <<question, started, early>>
        /\ client[p].stage # "ready" \/ toClient[p] # << >>
    <3>1. p \in Players
      BY DEF Honest
    <3> QED BY <1>6, <3>1, HonestlyDoes
  <2>2. p \in PlaysOn
    BY <2>1 DEF PlaysOn
  <2>3. started
    BY <2>1, <2>2 DEF HonestCircle, AtFirst, Quiet
  <2> QED BY <1>6, <2>1, <2>3, HonestlyKeepsTogether DEF HonestCircle
<1>7. ASSUME NEW p \in Strays, NEW msg \in {RcResult(0), RcNoResult, RcPrepare}, StraySends(p, msg)
      PROVE  /\ ~started' => /\ question' = 0 /\ DOMAIN resultInfos' = {}
                             /\ \A h \in PlaysOn' : AtFirst(h)'
             /\ started' => question' > 0 /\ Together'
  <2>1. /\ \A q \in Players : q # p => toServer'[q] = toServer[q]
        /\ UNCHANGED <<resultInfos, question, online, client, toClient, started, early>>
    BY <1>7, StraySendsDoes
  <2>2. PlaysOn' = PlaysOn /\ \A h \in PlaysOn : Untouched(h)
    BY <2>1 DEF PlaysOn, Honest, Untouched
  <2>3. Together => Together'
    BY <2>1, <2>2, UntouchedTogether
  <2>4. \A h \in PlaysOn : AtFirst(h) => AtFirst(h)'
    BY <2>1, <2>2, UntouchedStays
  <2> QED BY <2>1, <2>2, <2>3, <2>4 DEF HonestCircle
<1> QED BY <1>1, <1>2, <1>3, <1>4, <1>5, <1>6, <1>7 DEF StrayNext, Crashes

\* Nobody was asked at first.
LEMMA CircleInit == StrayInit => HonestCircle
<1> SUFFICES ASSUME StrayInit PROVE HonestCircle
  OBVIOUS
<1>1. /\ resultInfos = << >> /\ question = 0 /\ started = FALSE
      /\ client = [p \in Players |-> [stage |-> "ready", round |-> 0]]
      /\ toServer = [p \in Players |-> << >>] /\ toClient = [p \in Players |-> << >>]
  BY DEF StrayInit, Init
<1>2. DOMAIN resultInfos = {}
  BY <1>1
<1>3. \A p \in PlaysOn : AtFirst(p)
  BY <1>1 DEF PlaysOn, Honest, AtFirst, Quiet
<1> QED BY <1>1, <1>2, <1>3 DEF HonestCircle

\* Players in one half of the circle are in step.
LEMMA CircleImpliesInStep == StrayType /\ HonestCircle => HonestInStep
<1> SUFFICES ASSUME StrayType, HonestCircle, ~early, NEW p \in PlaysOn, NEW q \in PlaysOn
             PROVE  /\ client[p].stage \in {"solving", "answered"} =>
                         \/ client[q].round >= client[p].round
                         \/ client[q] = [stage |-> "ready", round |-> client[p].round - 1]
                    /\ client[p].stage \in {"reviewing", "ready"} =>
                         /\ client[q].round >= client[p].round
                         /\ client[q] # [stage |-> "solving", round |-> client[p].round]
  BY DEF HonestInStep
<1>1. client[p] \in ClientType /\ client[q] \in ClientType /\ question \in Nat
  BY DEF StrayType, TypeOK, PlaysOn, Honest
<1>2. client[p].round \in Nat /\ client[q].round \in Nat
  BY <1>1 DEF ClientType
<1>3. client[q] = [stage |-> client[q].stage, round |-> client[q].round]
  BY <1>1 DEF ClientType
<1>4. CASE ~started
  <2>1. client[p].stage = "ready" /\ client[p].round = 0 /\ client[q].stage = "ready"
    BY <1>4 DEF HonestCircle, AtFirst
  <2> QED BY <1>2, <2>1
<1>5. CASE started /\ \A h \in PlaysOn : AtWork(h)
  <2>1. \A h \in PlaysOn :
          \/ client[h].stage = "ready" /\ client[h].round + 1 = question
          \/ client[h].stage \in {"solving", "answered"} /\ client[h].round = question
    BY <1>5 DEF AtWork, WasAsked, IsSolving, HasAnswered, IsWaiting, IsAt
  <2>2. CASE client[p].stage = "ready" /\ client[p].round + 1 = question
    <3>1. client[q].round >= client[p].round
      BY <1>1, <1>2, <2>1, <2>2
    <3>2. client[q].stage = "solving" => client[q].round # client[p].round
      BY <1>1, <1>2, <2>1, <2>2
    <3> QED BY <2>2, <3>1, <3>2
  <2>3. CASE client[p].stage \in {"solving", "answered"} /\ client[p].round = question
    <3>1. \/ client[q].round >= client[p].round
          \/ client[q].stage = "ready" /\ client[q].round = client[p].round - 1
      BY <1>1, <1>2, <2>1, <2>3
    <3> QED BY <1>3, <2>3, <3>1
  <2> QED BY <2>1, <2>2, <2>3
<1>6. CASE started /\ \A h \in PlaysOn : AtRest(h)
  <2>1. \A h \in PlaysOn : client[h].stage # "solving" /\ client[h].round = question
    BY <1>6 DEF AtRest, GetsResults, IsReviewing, HasPrepared, IsPrepared, IsAt
  <2> QED BY <1>1, <2>1
<1> QED BY <1>4, <1>5, <1>6 DEF HonestCircle, Together

\* The results in the queues of the circle are true and complete.
LEMMA CircleImpliesTrue == StrayType /\ HonestCircle => FinalsAreTrue
<1> SUFFICES ASSUME StrayType, HonestCircle, ~early, NEW p \in PlaysOn,
                    NEW i \in DOMAIN toClient[p], toClient[p][i].event = "RC_FINAL"
             PROVE  /\ client[p].round = toClient[p][i].right
                    /\ client[p].stage # "solving"
                    /\ PlaysOn \subseteq DOMAIN toClient[p][i].results
                    /\ \A q \in DOMAIN toClient[p][i].results \cap Honest :
                         toClient[p][i].results[q] = toClient[p][i].right
  BY DEF FinalsAreTrue
<1>1. toClient[p] \in Seq(Heard)
  BY DEF StrayType, PlaysOn, Honest
<1>2. i \in 1..Len(toClient[p]) /\ Len(toClient[p]) \in Nat /\ toClient[p] # << >>
  BY <1>1
<1>3. started /\ Together
  BY <1>2 DEF HonestCircle, AtFirst, Quiet, StrayType
<1>4. CASE AtWork(p)
  <2>1. WasAsked(p)
    BY <1>2, <1>4 DEF AtWork, IsSolving, HasAnswered, IsWaiting, Quiet
  <2>2. FinalsThenStart(toClient[p], client[p].round, PlaysOn) /\ client[p].stage = "ready"
    BY <2>1 DEF WasAsked
  <2>3. i # Len(toClient[p])
    <3>1. RcStart(client[p].round + 1).event # "RC_FINAL"
      BY DEF RcStart
    <3> QED BY <2>2, <3>1 DEF FinalsThenStart
  <2>4. TrueFinal(toClient[p][i], client[p].round, PlaysOn)
    BY <1>2, <2>2, <2>3 DEF FinalsThenStart
  <2> QED BY <2>2, <2>4 DEF TrueFinal
<1>5. CASE AtRest(p)
  <2>1. /\ OnlyFinals(toClient[p], question, PlaysOn)
        /\ client[p].round = question /\ client[p].stage # "solving"
    BY <1>5 DEF AtRest, GetsResults, IsReviewing, HasPrepared, IsPrepared, IsAt
  <2>2. TrueFinal(toClient[p][i], question, PlaysOn)
    BY <1>2, <2>1 DEF OnlyFinals
  <2> QED BY <2>1, <2>2 DEF TrueFinal
<1> QED BY <1>3, <1>4, <1>5 DEF Together

\* As long as nothing came before start(), strays do not get the honest
\* players out of step.
THEOREM StrayHonestInStep == StraySpec => []HonestInStep
<1>1. StrayInit => StrayType /\ HonestCircle
  BY StrayTypeInit, CircleInit
<1>2. StrayType /\ HonestCircle /\ [StrayNext]_strayVars => (StrayType /\ HonestCircle)'
  BY StrayTypeStep, CircleStep
<1> QED BY <1>1, <1>2, CircleImpliesInStep, PTL DEF StraySpec

\* Nor do they get wrong results sent to them, or those of another question.
THEOREM StrayFinalsAreTrue == StraySpec => []FinalsAreTrue
<1>1. StrayInit => StrayType /\ HonestCircle
  BY StrayTypeInit, CircleInit
<1>2. StrayType /\ HonestCircle /\ [StrayNext]_strayVars => (StrayType /\ HonestCircle)'
  BY StrayTypeStep, CircleStep
<1> QED BY <1>1, <1>2, CircleImpliesTrue, PTL DEF StraySpec

---------------------------------------------------------------------------
(* Where the honest players stand after a step.                            *)

\* Who was not asked yet stands like somebody who has prepared.
LEMMA NotAskedStands ==
  ASSUME NEW heard, AllFinals(heard)
  PROVE  Stands("usual", "PREPARED", "ready", << >>, heard)
<1>1. Fits("ready", << >>, heard, "none", "none")
  BY DEF Fits, SaidIs, Owes
<1>2. Can("usual", "PREPARED", "none", "none")
  BY DEF Can, Usual
<1>3. "none" \in Words
  BY DEF Words
<1> QED BY <1>1, <1>2, <1>3 DEF Stands

\* A player no prepare comes from is not prepared.
LEMMA BarrenEntry ==
  ASSUME NEW h, StandsAs(h, "barren")
  PROVE  resultInfos[h].state # "PREPARED"
BY DEF StandsAs, Stands, Can, Barren

\* Who is not touched stands as before.
LEMMA UntouchedStands ==
  ASSUME NEW h, NEW kind, Untouched(h), h \in DOMAIN resultInfos
  PROVE  StandsAs(h, kind) => StandsAs(h, kind)'
BY DEF Untouched, StandsAs

\* What an honest player does itself leaves it standing as before.
LEMMA HonestlyStands ==
  ASSUME StrayType, NEW p \in Players, Honestly(p), NEW kind \in Kinds,
         NEW h \in Players, h \in DOMAIN resultInfos, StandsAs(h, kind)
  PROVE  StandsAs(h, kind)'
<1>1. resultInfos' = resultInfos
  BY HonestlyDoes
<1>2. CASE h # p
  <2>1. Untouched(h)
    BY <1>1, <1>2, HonestlyDoes DEF Untouched
  <2> QED BY <2>1, UntouchedStands
<1>3. CASE h = p
  <2> DEFINE e == resultInfos[p].state
  <2>1. /\ toServer[p] \in Seq(Said) /\ toClient[p] \in Seq(Heard)
        /\ client[p].round \in Nat
    BY DEF StrayType, TypeOK, ClientType
  <2>2. Stands(kind, e, client[p].stage, toServer[p], toClient[p])
    BY <1>3 DEF StandsAs
  <2>3. resultInfos'[p].state = e
    BY <1>1
  <2> HIDE DEF e
  <2>4. SUFFICES Stands(kind, e, client'[p].stage, toServer'[p], toClient'[p])
    BY <1>3, <2>3 DEF StandsAs
  <2>5. CASE toClient[p] # << >> /\ Head(toClient[p]).event = "RC_START"
             /\ toServer'[p] = toServer[p] /\ toClient'[p] = Tail(toClient[p])
             /\ client'[p] = [stage |-> "solving", round |-> Head(toClient[p]).question]
    <3>1. Stands(kind, e, "solving", toServer[p], Tail(toClient[p]))
      BY <2>1, <2>2, <2>5, StandsAsked
    <3> QED BY <2>5, <3>1
  <2>6. CASE client[p].stage = "solving"
             /\ client'[p] = [stage |-> "answered", round |-> client[p].round]
             /\ toServer'[p] = Append(toServer[p], RcResult(client[p].round))
             /\ toClient'[p] = toClient[p]
    <3>1. /\ RcResult(client[p].round) \in Said
          /\ RcResult(client[p].round).event = "RC_RESULT"
      BY <2>1, MessageTypes DEF RcResult
    <3>2. Stands(kind, e, "solving", toServer[p], toClient[p])
      BY <2>2, <2>6
    <3>3. Stands(kind, e, "answered", Append(toServer[p], RcResult(client[p].round)), toClient[p])
      BY <2>1, <3>1, <3>2, StandsAnswers
    <3> QED BY <2>6, <3>3
  <2>7. CASE client[p].stage = "reviewing"
             /\ client'[p] = [stage |-> "ready", round |-> client[p].round]
             /\ toServer'[p] = Append(toServer[p], RcPrepare)
             /\ toClient'[p] = toClient[p]
    <3>1. RcPrepare \in Said /\ RcPrepare.event = "RC_PREPARE"
      BY MessageTypes DEF RcPrepare
    <3>2. Stands(kind, e, "reviewing", toServer[p], toClient[p])
      BY <2>2, <2>7
    <3>3. Stands(kind, e, "ready", Append(toServer[p], RcPrepare), toClient[p])
      BY <2>1, <3>1, <3>2, StandsPrepares
    <3> QED BY <2>7, <3>3
  <2>8. CASE client[p].stage = "answered"
             /\ toClient[p] # << >> /\ Head(toClient[p]).event = "RC_FINAL"
             /\ client'[p] = [stage |-> "reviewing", round |-> client[p].round]
             /\ toServer'[p] = toServer[p] /\ toClient'[p] = Tail(toClient[p])
    <3>1. Stands(kind, e, "reviewing", toServer[p], Tail(toClient[p]))
      BY <2>1, <2>2, <2>8, StandsResults
    <3> QED BY <2>8, <3>1
  <2> QED BY <2>5, <2>6, <2>7, <2>8, HonestlyDoes
<1> QED BY <1>2, <1>3

\* A message that is dropped was none that anything is owed for.
LEMMA DropsStands ==
  ASSUME StrayType, NEW p \in Players, Drops(p), NEW kind \in Kinds,
         NEW h \in Honest, h \in DOMAIN resultInfos, StandsAs(h, kind)
  PROVE  StandsAs(h, kind)'
<1>1. /\ resultInfos' = resultInfos /\ client' = client /\ toServer' = toServer
      /\ toClient[p] # << >> /\ toClient'[p] = Tail(toClient[p])
      /\ \A q \in Players : q # p => toClient'[q] = toClient[q]
      /\ p \notin Strays =>
           Head(toClient[p]).event = "RC_FINAL" /\ client[p].stage # "answered"
      /\ h \in Players /\ h \notin Strays
  BY DropsDoes DEF Honest
<1>2. CASE h # p
  <2>1. Untouched(h)
    BY <1>1, <1>2 DEF Untouched
  <2> QED BY <2>1, UntouchedStands
<1>3. CASE h = p
  <2>1. toClient[h] \in Seq(Heard) /\ toClient[h] # << >>
        /\ Head(toClient[h]).event = "RC_FINAL" /\ client[h].stage # "answered"
    BY <1>1, <1>3 DEF StrayType
  <2>2. Stands(kind, resultInfos[h].state, client[h].stage, toServer[h], toClient[h])
    BY DEF StandsAs
  <2>3. Stands(kind, resultInfos[h].state, client[h].stage, toServer[h], Tail(toClient[h]))
    BY <2>1, <2>2, StandsResults
  <2> QED BY <1>1, <1>3, <2>3 DEF StandsAs
<1> QED BY <1>2, <1>3

\* handleResult(): results are only sent when no entry is anything but done.
LEMMA ResultStands ==
  ASSUME StrayType, NEW p \in Players, HandleResult(p), NEW kind \in Kinds,
         NEW h \in PlaysOn, h \in DOMAIN resultInfos, StandsAs(h, kind),
         kind # "barren" \/ ~AllAre(resultInfos', "DONE")
  PROVE  StandsAs(h, kind)'
<1>1. /\ toServer[p] # << >> /\ Head(toServer[p]).event = "RC_RESULT"
      /\ toServer'[p] = Tail(toServer[p])
      /\ \A q \in Players : q # p => toServer'[q] = toServer[q]
      /\ online' = online /\ client' = client
      /\ DOMAIN resultInfos' = DOMAIN resultInfos \cup {p}
      /\ resultInfos'[p] = Info("DONE", Head(toServer[p]).question)
      /\ \A q \in DOMAIN resultInfos : q # p => resultInfos'[q] = resultInfos[q]
      /\ \/ ~AllAre(resultInfos', "DONE") /\ toClient' = toClient
         \/ /\ AllAre(resultInfos', "DONE")
            /\ FinalOf(resultInfos') \in Heard
            /\ toClient' = Broadcast(toClient, FinalOf(resultInfos'))
  BY ResultDoes
<1>2. /\ h \in Players /\ h \in online
      /\ toServer[h] \in Seq(Said) /\ toClient[h] \in Seq(Heard)
  BY DEF PlaysOn, Honest, StrayType
<1> DEFINE e1 == resultInfos'[h].state
<1>3. Stands(kind, e1, client[h].stage, toServer'[h], toClient[h])
  <2>1. Stands(kind, resultInfos[h].state, client[h].stage, toServer[h], toClient[h])
    BY DEF StandsAs
  <2>2. CASE h = p
    <3>1. Stands(kind, "DONE", client[h].stage, Tail(toServer[h]), toClient[h])
      BY <1>1, <1>2, <2>1, <2>2, StandsResultHandled
    <3> QED BY <1>1, <2>2, <3>1 DEF Info
  <2>3. CASE h # p
    BY <1>1, <1>2, <2>1, <2>3
  <2> QED BY <2>2, <2>3
<1>4. CASE ~AllAre(resultInfos', "DONE")
  BY <1>1, <1>3, <1>4 DEF StandsAs
<1>5. CASE AllAre(resultInfos', "DONE")
  <2> DEFINE m == FinalOf(resultInfos')
  <2>1. m \in Heard /\ toClient' = Broadcast(toClient, m) /\ m.event = "RC_FINAL"
    BY <1>1, <1>5 DEF FinalOf, RcFinal
  <2> HIDE DEF m
  <2>2. toClient'[h] = Append(toClient[h], m)
    BY <1>2, <2>1, BroadcastOf DEF StrayType
  <2>3. e1 = "DONE" /\ kind \in {"usual", "possible"}
    BY <1>1, <1>5 DEF AllAre, Kinds
  <2> HIDE DEF e1
  <2>4. Stands(kind, "DONE", client[h].stage, toServer'[h], toClient[h])
    BY <1>3, <2>3
  <2>5. Stands(kind, "DONE", client[h].stage, toServer'[h], Append(toClient[h], m))
    BY <1>2, <2>1, <2>3, <2>4, StandsFinal
  <2> QED BY <1>1, <2>2, <2>3, <2>5 DEF StandsAs, e1
<1> QED BY <1>4, <1>5

\* handlePrepare(): the next question leaves no prepare to come.
LEMMA PrepareStands ==
  ASSUME StrayType, NEW p \in Players, HandlePrepare(p), NEW kind \in Kinds,
         NEW h \in PlaysOn, h \in DOMAIN resultInfos, StandsAs(h, kind)
  PROVE  /\ question' = question => StandsAs(h, kind)'
         /\ question' # question =>
              kind # "barren" /\ StandsAs(h, kind)' /\ StandsAs(h, "barren")'
<1>1. /\ toServer[p] # << >> /\ Head(toServer[p]).event = "RC_PREPARE"
      /\ toServer'[p] = Tail(toServer[p])
      /\ \A q \in Players : q # p => toServer'[q] = toServer[q]
      /\ online' = online /\ client' = client
  BY PrepareDoes
<1>2. PICK infos :
        /\ DOMAIN infos = DOMAIN resultInfos \cup {p}
        /\ DOMAIN infos \subseteq Players
        /\ infos \in [DOMAIN infos -> InfoType]
        /\ infos[p].state = "PREPARED"
        /\ \A q \in DOMAIN resultInfos : q # p => infos[q] = resultInfos[q]
        /\ \/ /\ ~AllAre(infos, "PREPARED")
              /\ resultInfos' = infos
              /\ question' = question /\ toClient' = toClient
           \/ AllAre(infos, "PREPARED") /\ SendQuestion(infos, toClient)
  BY PrepareDoes
<1>3. /\ h \in Players /\ h \in online /\ question \in Nat
      /\ toServer[h] \in Seq(Said) /\ toClient[h] \in Seq(Heard)
  BY DEF PlaysOn, Honest, StrayType, TypeOK
<1>4. /\ Stands(kind, infos[h].state, client[h].stage, toServer'[h], toClient[h])
      /\ h = p => kind # "barren"
  <2>1. Stands(kind, resultInfos[h].state, client[h].stage, toServer[h], toClient[h])
    BY DEF StandsAs
  <2>2. CASE h = p
    <3>1. kind # "barren"
          /\ Stands(kind, "PREPARED", client[h].stage, Tail(toServer[h]), toClient[h])
      BY <1>1, <1>3, <2>1, <2>2, StandsPrepareHandled
    <3> QED BY <1>1, <1>2, <2>2, <3>1
  <2>3. CASE h # p
    BY <1>1, <1>2, <1>3, <2>1, <2>3
  <2> QED BY <2>2, <2>3
<1>5. CASE ~AllAre(infos, "PREPARED")
  BY <1>1, <1>2, <1>4, <1>5 DEF StandsAs
<1>6. CASE AllAre(infos, "PREPARED")
  <2>1. SendQuestion(infos, toClient)
    BY <1>2, <1>6
  <2>2. /\ question' = question + 1
        /\ resultInfos'[h] = Info("CALCULATING", 0)
        /\ RcStart(question + 1) \in Heard
        /\ toClient'[h] = Append(toClient[h], RcStart(question + 1))
    BY <1>2, <1>3, <2>1, QuestionDoes
  <2>3. infos[h].state = "PREPARED"
    BY <1>2, <1>6 DEF AllAre
  <2>4. kind # "barren"
    <3>1. h # p /\ kind = "barren" => resultInfos[h].state # "PREPARED"
      BY BarrenEntry
    <3> QED BY <1>2, <1>4, <2>3, <3>1
  <2> DEFINE m == RcStart(question + 1)
  <2>5. m.event = "RC_START" /\ m \in Heard /\ kind \in {"usual", "possible"}
    BY <2>2, <2>4 DEF RcStart, Kinds
  <2>6. Stands(kind, "PREPARED", client[h].stage, toServer'[h], toClient[h])
    BY <1>4, <2>3
  <2> HIDE DEF m
  <2>7. /\ Stands("barren", "CALCULATING", client[h].stage, toServer'[h], Append(toClient[h], m))
        /\ Stands(kind, "CALCULATING", client[h].stage, toServer'[h], Append(toClient[h], m))
    BY <1>3, <2>5, <2>6, StandsStart
  <2>8. resultInfos'[h].state = "CALCULATING" /\ toClient'[h] = Append(toClient[h], m)
        /\ client'[h] = client[h]
    BY <1>1, <2>2 DEF Info, m
  <2> QED BY <1>3, <2>2, <2>4, <2>7, <2>8 DEF StandsAs
<1> QED BY <1>5, <1>6

\* How an honest player stands at question number n.
StandsAt(h, n) == (n = 0 => NotAsked(h)) /\ (n > 0 => InPlay(h))

\* The same, asked already or not.
LEMMA UntouchedStandsAt ==
  ASSUME NEW h, Untouched(h), question' = question, started' = started,
         DOMAIN resultInfos' = DOMAIN resultInfos, StandsAt(h, question)
  PROVE  StandsAt(h, question)'
<1>1. NotAsked(h) => NotAsked(h)'
  BY DEF NotAsked, Untouched
<1>2. InPlay(h) => InPlay(h)'
  <2> SUFFICES ASSUME InPlay(h) PROVE InPlay(h)'
    OBVIOUS
  <2>1. PICK kind : kind = IF started THEN "possible" ELSE "usual"
    OBVIOUS
  <2>2. h \in DOMAIN resultInfos /\ StandsAs(h, kind)
    BY <2>1 DEF InPlay
  <2>3. StandsAs(h, kind)'
    BY <2>2, UntouchedStands
  <2> QED BY <2>1, <2>2, <2>3 DEF InPlay
<1> QED BY <1>1, <1>2 DEF StandsAt

\* Every step leaves the honest players standing within their words.
LEMMA StandStep ==
  StrayType /\ HonestStand /\ [StrayNext]_strayVars => HonestStand'
<1> SUFFICES ASSUME StrayType, HonestStand, [StrayNext]_strayVars, NEW h \in PlaysOn'
             PROVE  StandsAt(h, question)'
  BY DEF HonestStand, StandsAt
<1>1. PICK kind \in Kinds : kind = IF started THEN "possible" ELSE "usual"
  BY DEF Kinds
<1>2. online' \subseteq online
  <2>1. \A p \in Players : Drops(p) => online' = online
    BY DropsDoes
  <2>2. \A p \in Players : LeaveGame(p) => online' \subseteq online
    BY LeaveGameDoes
  <2>3. \A p \in Honest : Honestly(p) => online' = online
    BY HonestlyDoes DEF Honest
  <2>4. \A p \in Strays, msg \in {RcResult(0), RcNoResult, RcPrepare} : StraySends(p, msg) => online' = online
    BY StraySendsDoes
  <2>5. \A p \in Players : HandleEvent(p) => online' = online
    BY ResultDoes, PrepareDoes DEF HandleEvent
  <2>6. StartGame \/ Crashes \/ UNCHANGED strayVars => online' = online
    BY CrashesDoes DEF StartGame, strayVars, vars
  <2> QED BY <2>1, <2>2, <2>3, <2>4, <2>5, <2>6 DEF StrayNext, Crashes
<1>3. h \in PlaysOn /\ h \in Players /\ h \in Honest /\ h \in online /\ question \in Nat
  BY <1>2 DEF PlaysOn, Honest, StrayType, TypeOK
<1>4. StandsAt(h, question)
  BY <1>3 DEF HonestStand, StandsAt
<1>5. question = 0 => NotAsked(h)
  BY <1>4 DEF StandsAt
<1>6. question > 0 => h \in DOMAIN resultInfos /\ StandsAs(h, kind)
  BY <1>1, <1>4 DEF StandsAt, InPlay
<1>7. CASE StartGame
  <2>1. /\ SendQuestion(resultInfos, toClient) /\ started' = TRUE /\ ~started
        /\ online' = online /\ client' = client /\ toServer' = toServer
    BY <1>7 DEF StartGame
  <2> DEFINE m == RcStart(question + 1)
  <2>2. /\ question' = question + 1
        /\ DOMAIN resultInfos' = DOMAIN resultInfos \cup online
        /\ resultInfos'[h] = Info("CALCULATING", 0)
        /\ m \in Heard
        /\ toClient'[h] = Append(toClient[h], m)
    BY <1>3, <2>1, QuestionDoes DEF StrayType, TypeOK
  <2>3. m.event = "RC_START" /\ toClient[h] \in Seq(Heard)
    BY <1>3 DEF StrayType, RcStart
  <2> HIDE DEF m
  <2>4. PICK e : Stands("usual", e, client[h].stage, toServer[h], toClient[h])
    <3>1. CASE question = 0
      <4>1. client[h].stage = "ready" /\ toServer[h] = << >> /\ AllFinals(toClient[h])
        BY <1>5, <3>1 DEF NotAsked
      <4> QED BY <4>1, NotAskedStands
    <3>2. CASE question > 0
      BY <1>1, <1>6, <2>1, <3>2 DEF StandsAs
    <3> QED BY <1>3, <3>1, <3>2
  <2>5. Stands("possible", "CALCULATING", client[h].stage, toServer[h], toClient'[h])
    BY <2>2, <2>3, <2>4, StandsStart
  <2>6. InPlay(h)'
    BY <1>3, <2>1, <2>2, <2>5 DEF InPlay, StandsAs, Info
  <2> QED BY <1>3, <2>2, <2>6 DEF StandsAt
<1>8. CASE Crashes \/ UNCHANGED strayVars
  <2>1. /\ UNCHANGED <<resultInfos, question, online, client, toServer, toClient>>
        /\ started' = started
    BY <1>8, CrashesDoes DEF strayVars, vars
  <2> QED BY <1>4, <2>1, UntouchedStandsAt DEF Untouched
<1>9. ASSUME NEW p \in Players, HandleResult(p), started' = started
      PROVE  StandsAt(h, question)'
  <2>1. /\ toServer[p] # << >> /\ question' = question /\ client' = client
        /\ \A q \in Players : q # p => toServer'[q] = toServer[q]
        /\ DOMAIN resultInfos' = DOMAIN resultInfos \cup {p}
        /\ \/ ~AllAre(resultInfos', "DONE") /\ toClient' = toClient
           \/ /\ AllAre(resultInfos', "DONE")
              /\ FinalOf(resultInfos') \in Heard
              /\ toClient' = Broadcast(toClient, FinalOf(resultInfos'))
    BY <1>9, ResultDoes
  <2>2. CASE question > 0
    <3>1. StandsAs(h, kind)'
      BY <1>1, <1>3, <1>6, <1>9, <2>2, ResultStands
    <3> QED BY <1>1, <1>3, <1>6, <1>9, <2>1, <2>2, <3>1 DEF StandsAt, InPlay
  <2>3. CASE question = 0
    <3>1. /\ h \notin DOMAIN resultInfos /\ ~started
          /\ client[h].stage = "ready" /\ toServer[h] = << >> /\ AllFinals(toClient[h])
      BY <1>5, <2>3 DEF NotAsked
    <3>2. h # p
      BY <2>1, <3>1
    <3>3. AllFinals(toClient'[h])
      <4>1. CASE toClient' = toClient
        BY <3>1, <4>1
      <4>2. CASE FinalOf(resultInfos') \in Heard
                 /\ toClient' = Broadcast(toClient, FinalOf(resultInfos'))
        <5> DEFINE m == FinalOf(resultInfos')
        <5>1. m \in Heard /\ toClient' = Broadcast(toClient, m) /\ m.event = "RC_FINAL"
          BY <4>2 DEF FinalOf, RcFinal
        <5> HIDE DEF m
        <5>2. toClient'[h] = Append(toClient[h], m) /\ toClient[h] \in Seq(Heard)
          BY <1>3, <5>1, BroadcastOf DEF StrayType
        <5> QED BY <3>1, <5>1, <5>2, FormsAppend
      <4> QED BY <2>1, <4>1, <4>2
    <3>4. NotAsked(h)'
      BY <1>3, <1>9, <2>1, <3>1, <3>2, <3>3 DEF NotAsked
    <3> QED BY <2>1, <2>3, <3>4 DEF StandsAt
  <2> QED BY <1>3, <2>2, <2>3
<1>10. ASSUME NEW p \in Players, HandlePrepare(p), started' = started
       PROVE  StandsAt(h, question)'
  <2>1. /\ toServer[p] # << >> /\ client' = client /\ online' = online
        /\ \A q \in Players : q # p => toServer'[q] = toServer[q]
    BY <1>10, PrepareDoes
  <2>2. PICK infos :
          /\ DOMAIN infos = DOMAIN resultInfos \cup {p}
          /\ DOMAIN infos \subseteq Players
          /\ infos \in [DOMAIN infos -> InfoType]
          /\ \/ resultInfos' = infos /\ question' = question /\ toClient' = toClient
             \/ SendQuestion(infos, toClient)
    BY <1>10, PrepareDoes
  <2>3. SendQuestion(infos, toClient) =>
          /\ question' = question + 1
          /\ DOMAIN resultInfos' = DOMAIN infos \cup online
          /\ resultInfos'[h] = Info("CALCULATING", 0)
          /\ RcStart(question + 1) \in Heard
          /\ toClient'[h] = Append(toClient[h], RcStart(question + 1))
    BY <1>3, <2>2, QuestionDoes
  <2>4. CASE question > 0
    <3>1. StandsAs(h, kind)'
      BY <1>3, <1>6, <1>10, <2>4, PrepareStands
    <3>2. h \in DOMAIN resultInfos'
      BY <1>6, <2>2, <2>3, <2>4
    <3>3. question' # 0
      BY <1>3, <2>2, <2>3, <2>4
    <3> QED BY <1>1, <1>10, <3>1, <3>2, <3>3 DEF StandsAt, InPlay
  <2>5. CASE question = 0
    <3>1. /\ h \notin DOMAIN resultInfos /\ ~started
          /\ client[h].stage = "ready" /\ toServer[h] = << >> /\ AllFinals(toClient[h])
      BY <1>5, <2>5 DEF NotAsked
    <3>2. h # p /\ toServer'[h] = << >> /\ client'[h].stage = "ready"
      BY <1>3, <2>1, <3>1
    <3>3. CASE resultInfos' = infos /\ question' = question /\ toClient' = toClient
      BY <1>10, <2>2, <2>5, <3>1, <3>2, <3>3 DEF StandsAt, NotAsked
    <3>4. CASE SendQuestion(infos, toClient)
      <4> DEFINE m == RcStart(question + 1)
      <4>1. /\ m \in Heard /\ m.event = "RC_START"
            /\ toClient'[h] = Append(toClient[h], m)
        BY <2>3, <3>4 DEF RcStart
      <4> HIDE DEF m
      <4>2. Stands("usual", "PREPARED", "ready", << >>, toClient[h])
        BY <3>1, NotAskedStands
      <4>3. Stands("usual", "CALCULATING", "ready", << >>, toClient'[h])
        <5>1. toClient[h] \in Seq(Heard)
          BY <1>3 DEF StrayType
        <5> QED BY <4>1, <4>2, <5>1, StandsStart
      <4>4. StandsAs(h, "usual")'
        BY <2>3, <3>2, <3>4, <4>3 DEF StandsAs, Info
      <4>5. h \in DOMAIN resultInfos' /\ question' # 0
        BY <1>3, <2>3, <3>4
      <4> QED BY <1>10, <3>1, <4>4, <4>5 DEF StandsAt, InPlay
    <3> QED BY <2>2, <3>3, <3>4
  <2> QED BY <1>3, <2>4, <2>5
<1>11. ASSUME NEW p \in Players, HandleEvent(p) PROVE StandsAt(h, question)'
  BY <1>9, <1>10, <1>11 DEF HandleEvent
<1>12. ASSUME NEW p \in Players, Drops(p) PROVE StandsAt(h, question)'
  <2>1. /\ resultInfos' = resultInfos /\ question' = question /\ started' = started
        /\ client' = client /\ toServer' = toServer
        /\ toClient[p] # << >> /\ toClient'[p] = Tail(toClient[p])
        /\ \A q \in Players : q # p => toClient'[q] = toClient[q]
    BY <1>12, DropsDoes
  <2>2. CASE question > 0
    <3>1. StandsAs(h, kind)'
      BY <1>3, <1>6, <1>12, <2>2, DropsStands
    <3> QED BY <1>1, <1>6, <2>1, <2>2, <3>1 DEF StandsAt, InPlay
  <2>3. CASE question = 0
    <3>1. AllFinals(toClient'[h])
      <4>1. AllFinals(toClient[h])
        BY <1>5, <2>3 DEF NotAsked
      <4>2. CASE h = p
        <5>1. toClient[h] \in Seq(Heard)
          BY <1>3 DEF StrayType
        <5> QED BY <2>1, <4>1, <4>2, <5>1, FormsTail
      <4> QED BY <1>3, <2>1, <4>1, <4>2
    <3> QED BY <1>5, <2>1, <2>3, <3>1 DEF StandsAt, NotAsked
  <2> QED BY <1>3, <2>2, <2>3
<1>13. ASSUME NEW p \in Players, LeaveGame(p) PROVE StandsAt(h, question)'
  <2>1. h \in online'
    BY DEF PlaysOn
  <2>2. Untouched(h) /\ UNCHANGED <<resultInfos, question, started>>
    BY <1>13, <2>1, LeaveGameDoes DEF Untouched
  <2> QED BY <1>4, <2>2, UntouchedStandsAt
<1>14. ASSUME NEW p \in Honest, Honestly(p) PROVE StandsAt(h, question)'
  <2>1. p \in Players
    BY DEF Honest
  <2>2. UNCHANGED <<resultInfos, question, started>>
    BY <1>14, <2>1, HonestlyDoes
  <2>3. CASE question > 0
    <3>1. StandsAs(h, kind)'
      BY <1>3, <1>6, <1>14, <2>1, <2>3, HonestlyStands
    <3> QED BY <1>1, <1>6, <2>2, <2>3, <3>1 DEF StandsAt, InPlay
  <2>4. CASE question = 0
    <3>1. NotAsked(p)
      <4>1. p \in PlaysOn
        BY <1>14, <2>1, HonestlyDoes DEF PlaysOn
      <4> QED BY <2>4, <4>1 DEF HonestStand
    <3>2. toClient[p] # << >> => Head(toClient[p]).event = "RC_FINAL"
      <4>1. toClient[p] \in Seq(Heard)
        BY <2>1 DEF StrayType
      <4> QED BY <3>1, <4>1, FormsTail DEF NotAsked
    <3>3. client[p].stage = "ready"
      BY <3>1 DEF NotAsked
    <3>4. FALSE
      BY <1>14, <2>1, <3>2, <3>3, HonestlyDoes
    <3> QED BY <3>4
  <2> QED BY <1>3, <2>3, <2>4
<1>15. ASSUME NEW p \in Strays, NEW msg \in {RcResult(0), RcNoResult, RcPrepare}, StraySends(p, msg)
       PROVE  StandsAt(h, question)'
  <2>1. Untouched(h) /\ UNCHANGED <<resultInfos, question, started>>
    BY <1>3, <1>15, StraySendsDoes DEF Untouched, Honest
  <2> QED BY <1>4, <2>1, UntouchedStandsAt
<1> QED BY <1>7, <1>8, <1>11, <1>12, <1>13, <1>14, <1>15 DEF StrayNext, Crashes

---------------------------------------------------------------------------
(* The game that somebody has left.                                        *)

\* Results that are not later than n are not later than anything after n.
LEMMA RightsGrow ==
  ASSUME StrayType, NEW n \in Nat, NEW k \in Nat, n <= k
  PROVE  RightsBelow(n) => RightsBelow(k)
<1>1. \A q \in online : toClient[q] \in Seq(Heard)
  BY DEF StrayType, TypeOK
<1>2. \A q \in online : \A i \in 1..Len(toClient[q]) :
        toClient[q][i].event = "RC_FINAL" => toClient[q][i].right \in Nat
  <2> TAKE q \in online
  <2> TAKE i \in 1..Len(toClient[q])
  <2>1. toClient[q][i] \in Heard
    BY <1>1
  <2> QED BY <2>1, MessageTypes
<1> QED BY <1>2 DEF RightsBelow

\* Queues that lose their head, or a whole player, have no other results.
LEMMA RightsOfTails ==
  ASSUME StrayType, NEW n, online' \subseteq online, RightsBelow(n),
         \A q \in online' : \/ toClient'[q] = toClient[q]
                            \/ toClient[q] # << >> /\ toClient'[q] = Tail(toClient[q])
  PROVE  RightsBelow(n)'
<1> SUFFICES ASSUME NEW q \in online', NEW i \in 1..Len(toClient'[q]),
                    toClient'[q][i].event = "RC_FINAL"
             PROVE  toClient'[q][i].right <= n
  BY DEF RightsBelow
<1>1. \A j \in 1..Len(toClient[q]) :
        toClient[q][j].event = "RC_FINAL" => toClient[q][j].right <= n
  BY DEF RightsBelow
<1>2. CASE toClient'[q] = toClient[q]
  BY <1>1, <1>2
<1>3. CASE toClient[q] # << >> /\ toClient'[q] = Tail(toClient[q])
  <2> DEFINE queue == toClient[q]
  <2>1. queue \in Seq(Heard) /\ queue # << >>
    BY <1>3 DEF StrayType, TypeOK
  <2> HIDE DEF queue
  <2>2. /\ Len(queue) \in Nat \ {0} /\ Len(Tail(queue)) = Len(queue) - 1
        /\ \A j \in 1..(Len(queue) - 1) : Tail(queue)[j] = queue[j + 1]
    BY <2>1, TailOf
  <2>3. i \in 1..(Len(queue) - 1)
    BY <1>3, <2>2 DEF queue
  <2>4. toClient'[q][i] = queue[i + 1] /\ i + 1 \in 1..Len(queue)
    <3>1. toClient'[q][i] = Tail(queue)[i]
      BY <1>3 DEF queue
    <3> QED BY <2>2, <2>3, <3>1
  <2> QED BY <1>1, <2>4 DEF queue
<1> QED BY <1>2, <1>3

\* Queues that get a message more have its result, if it has one.
LEMMA RightsOfMore ==
  ASSUME StrayType, NEW n, online' = online, RightsBelow(n), NEW m \in Heard,
         m.event = "RC_FINAL" => m.right <= n,
         \A q \in online : toClient'[q] = Append(toClient[q], m)
  PROVE  RightsBelow(n)'
<1> SUFFICES ASSUME NEW q \in online, NEW i \in 1..Len(toClient'[q]),
                    toClient'[q][i].event = "RC_FINAL"
             PROVE  toClient'[q][i].right <= n
  BY DEF RightsBelow
<1> DEFINE queue == toClient[q]
<1>1. \A j \in 1..Len(queue) : queue[j].event = "RC_FINAL" => queue[j].right <= n
  BY DEF RightsBelow
<1>2. queue \in Seq(Heard) /\ toClient'[q] = Append(queue, m)
  BY DEF StrayType, TypeOK
<1> HIDE DEF queue
<1> DEFINE more == Append(queue, m)
<1>3. /\ Len(queue) \in Nat /\ Len(more) = Len(queue) + 1
      /\ more[Len(queue) + 1] = m
      /\ \A j \in 1..Len(queue) : more[j] = queue[j]
  BY <1>2, AppendOf
<1>4. toClient'[q] = more
  BY <1>2
<1> HIDE DEF more
<1>5. i \in 1..Len(more) /\ more[i].event = "RC_FINAL"
  BY <1>4
<1>6. more[i].right <= n
  <2>1. CASE i = Len(queue) + 1
    BY <1>3, <1>5, <2>1
  <2>2. CASE i # Len(queue) + 1
    <3>1. i \in 1..Len(queue)
      BY <1>3, <1>5, <2>2
    <3> QED BY <1>1, <1>3, <1>5, <3>1
  <2> QED BY <2>1, <2>2
<1> QED BY <1>4, <1>6

\* A step that asks nobody and sends no later results leaves an ended game so.
LEMMA EndedStays ==
  ASSUME StrayType, HonestStand, NEW p \in DOMAIN leftAt, NEW n, n = leftAt[p],
         Ended(p), question' = question,
         leftAt'[p] = n, resultInfos'[p] = resultInfos[p],
         RightsBelow(n)', PlaysOn' \subseteq PlaysOn,
         question = n + 1 =>
           \A h \in PlaysOn' : h \in DOMAIN resultInfos /\ StandsAs(h, "barren")
                                => StandsAs(h, "barren")'
  PROVE  Ended(p)'
<1>1. question \in Nat /\ n \in Nat
  BY DEF StrayType, TypeOK
<1>2. question = n + 1 => \A h \in PlaysOn' : StandsAs(h, "barren")'
  <2> SUFFICES ASSUME question = n + 1, NEW h \in PlaysOn' PROVE StandsAs(h, "barren")'
    OBVIOUS
  <2>1. h \in PlaysOn /\ StandsAs(h, "barren")
    BY DEF Ended
  <2>2. h \in DOMAIN resultInfos
    BY <1>1, <2>1 DEF HonestStand, InPlay
  <2> QED BY <2>1, <2>2
<1>3. RightsBelow(leftAt[p])'
  OBVIOUS
<1> QED BY <1>1, <1>2, <1>3 DEF Ended

\* Nothing is handled, and nobody leaves.
LEMMA QuietKeepsLeavers ==
  ASSUME StrayType, HonestStand, LeaverInv,
         UNCHANGED <<resultInfos, question, online, leftAt>>,
         \A q \in online : \/ toClient'[q] = toClient[q]
                           \/ toClient[q] # << >> /\ toClient'[q] = Tail(toClient[q]),
         \A h \in PlaysOn : h \in DOMAIN resultInfos /\ StandsAs(h, "barren")
                             => StandsAs(h, "barren")'
  PROVE  LeaverInv'
<1>1. PlaysOn' = PlaysOn
  BY DEF PlaysOn, Honest
<1>2. ASSUME NEW n, RightsBelow(n) PROVE RightsBelow(n)'
  BY <1>2, RightsOfTails
<1>3. RightsBelow(question)'
  <2>1. PICK n : n = question
    OBVIOUS
  <2>2. RightsBelow(n)'
    BY <1>2, <2>1 DEF LeaverInv
  <2> QED BY <2>1, <2>2
<1>4. ASSUME PlaysOn # {}, NEW p \in DOMAIN leftAt \cap DOMAIN resultInfos PROVE Ended(p)'
  <2>1. PICK n : n = leftAt[p]
    OBVIOUS
  <2>2. Ended(p)
    BY <1>4 DEF LeaverInv
  <2>3. RightsBelow(n)'
    BY <1>2, <2>1, <2>2 DEF Ended
  <2> QED BY <1>1, <2>1, <2>2, <2>3, EndedStays
<1> QED BY <1>1, <1>3, <1>4 DEF LeaverInv

\* handleResult() after somebody left: an entry that is not done holds the results back.
LEMMA ResultKeepsLeavers ==
  ASSUME StrayType, HonestStand, LeaverInv, NEW p \in Players, HandleResult(p),
         leftAt' = leftAt
  PROVE  LeaverInv'
<1>1. /\ p \in online /\ online' = online /\ question' = question
      /\ DOMAIN resultInfos' = DOMAIN resultInfos \cup {p}
      /\ \A q \in DOMAIN resultInfos : q # p => resultInfos'[q] = resultInfos[q]
      /\ \/ ~AllAre(resultInfos', "DONE") /\ toClient' = toClient
         \/ /\ AllAre(resultInfos', "DONE")
            /\ FinalOf(resultInfos') \in Heard
            /\ toClient' = Broadcast(toClient, FinalOf(resultInfos'))
  BY ResultDoes
<1>2. PlaysOn' = PlaysOn /\ online \subseteq Players /\ question \in Nat
  BY <1>1 DEF PlaysOn, Honest, StrayType, TypeOK
<1>3. ASSUME NEW n, RightsBelow(n), AllAre(resultInfos', "DONE") => question <= n
      PROVE  RightsBelow(n)'
  <2>1. CASE ~AllAre(resultInfos', "DONE")
    BY <1>1, <1>3, <2>1, RightsOfTails
  <2>2. CASE AllAre(resultInfos', "DONE")
    <3> DEFINE m == FinalOf(resultInfos')
    <3>1. m \in Heard /\ toClient' = Broadcast(toClient, m) /\ m.right = question
      BY <1>1, <2>2 DEF FinalOf, RcFinal
    <3> HIDE DEF m
    <3>2. \A q \in online : toClient'[q] = Append(toClient[q], m)
      BY <1>2, <3>1, BroadcastOf DEF StrayType
    <3> QED BY <1>1, <1>3, <2>2, <3>1, <3>2, RightsOfMore
  <2> QED BY <2>1, <2>2
<1>4. RightsBelow(question)'
  <2>1. PICK n : n = question
    OBVIOUS
  <2>2. RightsBelow(n)'
    BY <1>2, <1>3, <2>1 DEF LeaverInv
  <2> QED BY <1>1, <2>1, <2>2
<1>5. ASSUME PlaysOn # {}, NEW q \in DOMAIN leftAt \cap DOMAIN resultInfos' PROVE Ended(q)'
  <2>1. q \notin online /\ q # p
    BY <1>1 DEF LeaverInv
  <2>2. q \in DOMAIN resultInfos /\ resultInfos'[q] = resultInfos[q]
    BY <1>1, <2>1
  <2>3. Ended(q)
    BY <1>5, <2>2 DEF LeaverInv
  <2>4. PICK n : n = leftAt[q]
    OBVIOUS
  <2>5. AllAre(resultInfos', "DONE") => question <= n
    <3>1. AllAre(resultInfos', "DONE") => resultInfos[q].state = "DONE"
      BY <1>5, <2>2 DEF AllAre
    <3> QED BY <2>3, <2>4, <3>1 DEF Ended
  <2>6. RightsBelow(n)'
    BY <1>3, <2>3, <2>4, <2>5 DEF Ended
  <2>7. ASSUME question = n + 1, NEW h \in PlaysOn, h \in DOMAIN resultInfos,
               StandsAs(h, "barren")
        PROVE  StandsAs(h, "barren")'
    <3>1. n \in Nat
      BY <2>4 DEF StrayType
    <3>2. ~AllAre(resultInfos', "DONE")
      BY <1>2, <2>5, <2>7, <3>1
    <3>3. "barren" \in Kinds
      BY DEF Kinds
    <3> QED BY <2>7, <3>2, <3>3, ResultStands
  <2> QED BY <1>1, <1>2, <2>2, <2>3, <2>4, <2>6, <2>7, EndedStays
<1> QED BY <1>1, <1>2, <1>4, <1>5 DEF LeaverInv

\* A question asked after p left is the first one, and finds everybody with
\* nothing to prepare for.
LEMMA PrepareKeepsLeavers ==
  ASSUME StrayType, HonestStand, LeaverInv, NEW p \in Players, HandlePrepare(p),
         leftAt' = leftAt, started' = started, HonestStand'
  PROVE  LeaverInv'
<1>1. p \in online /\ online' = online
  BY PrepareDoes
<1>2. PICK infos :
        /\ DOMAIN infos = DOMAIN resultInfos \cup {p}
        /\ DOMAIN infos \subseteq Players
        /\ infos \in [DOMAIN infos -> InfoType]
        /\ infos[p].state = "PREPARED"
        /\ \A q \in DOMAIN resultInfos : q # p => infos[q] = resultInfos[q]
        /\ \/ /\ ~AllAre(infos, "PREPARED")
              /\ resultInfos' = infos
              /\ question' = question /\ toClient' = toClient
           \/ AllAre(infos, "PREPARED") /\ SendQuestion(infos, toClient)
  BY PrepareDoes
<1>3. PlaysOn' = PlaysOn /\ online \subseteq Players /\ question \in Nat
      /\ "barren" \in Kinds
  BY <1>1 DEF PlaysOn, Honest, StrayType, TypeOK, Kinds
<1>4. CASE resultInfos' = infos /\ question' = question /\ toClient' = toClient
  <2>1. ASSUME NEW n, RightsBelow(n) PROVE RightsBelow(n)'
    BY <1>1, <1>4, <2>1, RightsOfTails
  <2>2. RightsBelow(question)'
    <3>1. PICK n : n = question
      OBVIOUS
    <3>2. RightsBelow(n)'
      BY <2>1, <3>1 DEF LeaverInv
    <3> QED BY <1>4, <3>1, <3>2
  <2>3. ASSUME PlaysOn # {}, NEW q \in DOMAIN leftAt \cap DOMAIN resultInfos' PROVE Ended(q)'
    <3>1. q \notin online /\ q # p
      BY <1>1 DEF LeaverInv
    <3>2. q \in DOMAIN resultInfos /\ resultInfos'[q] = resultInfos[q]
      BY <1>2, <1>4, <3>1
    <3>3. PICK n : n = leftAt[q]
      OBVIOUS
    <3>4. Ended(q)
      BY <2>3, <3>2 DEF LeaverInv
    <3>5. RightsBelow(n)'
      BY <2>1, <3>3, <3>4 DEF Ended
    <3>6. ASSUME NEW h \in PlaysOn, h \in DOMAIN resultInfos, StandsAs(h, "barren")
          PROVE  StandsAs(h, "barren")'
      BY <1>3, <1>4, <3>6, PrepareStands
    <3> QED BY <1>3, <1>4, <3>2, <3>3, <3>4, <3>5, <3>6, EndedStays
  <2> QED BY <1>1, <1>3, <2>2, <2>3 DEF LeaverInv
<1>5. CASE AllAre(infos, "PREPARED") /\ SendQuestion(infos, toClient)
  <2> DEFINE m == RcStart(question + 1)
  <2>1. /\ question' = question + 1 /\ question' # question
        /\ DOMAIN resultInfos' = DOMAIN infos \cup online
        /\ \A q \in online : resultInfos'[q] = Info("CALCULATING", 0)
        /\ \A q \in DOMAIN infos : q \notin online => resultInfos'[q] = infos[q]
        /\ m \in Heard
        /\ \A q \in online : toClient'[q] = Append(toClient[q], m)
    <3>1. /\ question' = question + 1
          /\ DOMAIN resultInfos' = DOMAIN infos \cup online
          /\ \A q \in online : resultInfos'[q] = Info("CALCULATING", 0)
          /\ \A q \in DOMAIN infos : q \notin online => resultInfos'[q] = infos[q]
          /\ m \in Heard
          /\ \A q \in Players :
               toClient'[q] = IF q \in online THEN Append(toClient[q], m) ELSE toClient[q]
      BY <1>2, <1>5, QuestionDoes
    <3> HIDE DEF m
    <3>2. question' # question
      BY <1>3, <3>1
    <3>3. \A q \in online : toClient'[q] = Append(toClient[q], m)
      BY <1>3, <3>1
    <3> QED BY <3>1, <3>2, <3>3
  <2>2. m.event # "RC_FINAL"
    BY DEF RcStart
  <2> HIDE DEF m
  <2>3. ASSUME NEW n, RightsBelow(n) PROVE RightsBelow(n)'
    BY <1>1, <2>1, <2>2, <2>3, RightsOfMore
  <2>4. RightsBelow(question)'
    <3>1. PICK n : n = question + 1
      OBVIOUS
    <3>2. RightsBelow(n)
      BY <1>3, <3>1, RightsGrow DEF LeaverInv
    <3>3. RightsBelow(n)'
      BY <2>3, <3>2
    <3> QED BY <2>1, <3>1, <3>3
  <2>5. ASSUME NEW h \in PlaysOn PROVE StandsAs(h, "barren")'
    <3>1. resultInfos'[h].state = "CALCULATING"
      BY <2>1 DEF PlaysOn, Info
    <3>2. CASE question > 0
      <4>1. PICK kind \in Kinds : kind = IF started THEN "possible" ELSE "usual"
        BY DEF Kinds
      <4>2. h \in DOMAIN resultInfos /\ StandsAs(h, kind)
        BY <3>2, <4>1 DEF HonestStand, InPlay
      <4> QED BY <2>1, <4>2, PrepareStands
    <3>3. CASE question = 0
      <4>1. ~started'
        BY <3>3 DEF HonestStand, NotAsked
      <4>2. InPlay(h)'
        BY <1>3, <2>1, <3>3 DEF HonestStand
      <4>3. StandsAs(h, "usual")'
        BY <4>1, <4>2 DEF InPlay
      <4> QED BY <3>1, <4>3 DEF StandsAs, Stands, Can, Usual, Barren
    <3> QED BY <1>3, <3>2, <3>3
  <2>6. ASSUME PlaysOn # {}, NEW q \in DOMAIN leftAt \cap DOMAIN resultInfos' PROVE Ended(q)'
    <3>1. q \notin online /\ q # p
      BY <1>1 DEF LeaverInv
    <3>2. q \in DOMAIN resultInfos /\ resultInfos'[q].state = "PREPARED"
      BY <1>2, <1>5, <2>1, <3>1 DEF AllAre
    <3>3. PICK n \in Nat : n = leftAt[q]
      BY DEF StrayType
    <3>4. Ended(q)
      BY <2>6, <3>2 DEF LeaverInv
    <3>5. RightsBelow(n)'
      BY <2>3, <3>3, <3>4 DEF Ended
    <3>6. question <= n
      <4>1. SUFFICES ASSUME question = n + 1 PROVE FALSE
        BY <1>3, <3>3, <3>4 DEF Ended
      <4>2. PICK h : h \in PlaysOn
        BY <2>6
      <4>3. StandsAs(h, "barren")
        BY <3>3, <3>4, <4>1, <4>2 DEF Ended
      <4>4. h \in DOMAIN resultInfos
        BY <3>3, <4>1, <4>2 DEF HonestStand, InPlay
      <4> QED BY <1>3, <2>1, <4>2, <4>3, <4>4, PrepareStands
    <3>7. RightsBelow(leftAt[q])'
      BY <3>3, <3>5
    <3> QED BY <1>3, <2>1, <2>5, <3>2, <3>3, <3>6, <3>7 DEF Ended
  <2> QED BY <1>1, <1>3, <2>4, <2>6 DEF LeaverInv
<1> QED BY <1>2, <1>4, <1>5

\* Who leaves is gone, and from now on the game cannot go past the next question.
LEMMA LeaveKeepsLeavers ==
  ASSUME StrayType, HonestStand, LeaverInv, NEW p \in Players, LeaveGame(p)
  PROVE  LeaverInv'
<1>1. /\ p \in online /\ online' = online \ {p}
      /\ \A q \in online' : toServer'[q] = toServer[q] /\ toClient'[q] = toClient[q]
      /\ UNCHANGED <<resultInfos, question, client, started>>
      /\ DOMAIN leftAt' = DOMAIN leftAt \cup {p}
      /\ leftAt'[p] = question
      /\ \A q \in DOMAIN leftAt : q # p => leftAt'[q] = leftAt[q]
  BY LeaveGameDoes
<1>2. /\ online' \subseteq online /\ PlaysOn' \subseteq PlaysOn
      /\ PlaysOn' \subseteq online' /\ question \in Nat
  BY <1>1 DEF PlaysOn, Honest, StrayType, TypeOK
<1>3. ASSUME NEW n, RightsBelow(n) PROVE RightsBelow(n)'
  BY <1>1, <1>2, <1>3, RightsOfTails
<1>4. PICK k : k = question
  OBVIOUS
<1>5. RightsBelow(k)'
  BY <1>3, <1>4 DEF LeaverInv
<1>6. RightsBelow(question)'
  BY <1>1, <1>4, <1>5
<1>7. ASSUME PlaysOn' # {}, NEW q \in DOMAIN leftAt' \cap DOMAIN resultInfos' PROVE Ended(q)'
  <2>1. CASE q = p
    <3>1. leftAt'[q] = k /\ question' = k /\ k \in Nat
      BY <1>1, <1>2, <1>4, <2>1
    <3>2. RightsBelow(leftAt[q])'
      BY <1>5, <3>1
    <3> QED BY <3>1, <3>2 DEF Ended
  <2>2. CASE q # p
    <3>1. q \in DOMAIN leftAt /\ q \in DOMAIN resultInfos /\ resultInfos'[q] = resultInfos[q]
      BY <1>1, <1>7, <2>2
    <3>2. PICK n : n = leftAt[q]
      OBVIOUS
    <3>3. Ended(q)
      BY <1>2, <1>7, <3>1 DEF LeaverInv
    <3>4. RightsBelow(n)'
      BY <1>3, <3>2, <3>3 DEF Ended
    <3>5. ASSUME NEW h \in PlaysOn', h \in DOMAIN resultInfos, StandsAs(h, "barren")
          PROVE  StandsAs(h, "barren")'
      <4>1. Untouched(h)
        BY <1>1, <1>2, <3>5 DEF Untouched
      <4> QED BY <3>5, <4>1, UntouchedStands
    <3>6. leftAt'[q] = n /\ question' = question
      BY <1>1, <2>2, <3>1, <3>2
    <3> QED BY <1>2, <3>1, <3>2, <3>3, <3>4, <3>5, <3>6, EndedStays
  <2> QED BY <2>1, <2>2
<1>8. DOMAIN leftAt' \cap online' = {}
  BY <1>1 DEF LeaverInv
<1> QED BY <1>6, <1>7, <1>8 DEF LeaverInv

\* Every step keeps the game of those who left at its end.
LEMMA LeaverStep ==
  StrayType /\ HonestStand /\ LeaverInv /\ [StrayNext]_strayVars => LeaverInv'
<1> SUFFICES ASSUME StrayType, HonestStand, LeaverInv, [StrayNext]_strayVars
             PROVE  LeaverInv'
  OBVIOUS
<1>1. /\ \A q \in online : q \in Players
      /\ \A h \in PlaysOn : h \in Players /\ h \in Honest
      /\ "barren" \in Kinds
  BY DEF StrayType, TypeOK, PlaysOn, Honest, Kinds
<1>2. CASE StartGame
  <2>1. /\ SendQuestion(resultInfos, toClient) /\ Players \subseteq online
        /\ online' = online /\ leftAt' = leftAt
    BY <1>2 DEF StartGame
  <2>2. DOMAIN leftAt = {}
    BY <2>1 DEF LeaverInv, StrayType
  <2> DEFINE m == RcStart(question + 1)
  <2>3. /\ question' = question + 1 /\ m \in Heard
        /\ \A q \in Players :
             toClient'[q] = IF q \in online THEN Append(toClient[q], m) ELSE toClient[q]
    BY <2>1, QuestionDoes DEF StrayType, TypeOK
  <2>4. m.event # "RC_FINAL"
    BY DEF RcStart
  <2> HIDE DEF m
  <2>5. \A q \in online : toClient'[q] = Append(toClient[q], m)
    BY <1>1, <2>3
  <2>6. PICK n : n = question + 1
    OBVIOUS
  <2>7. RightsBelow(n)
    BY <2>6, RightsGrow DEF LeaverInv, StrayType, TypeOK
  <2>8. RightsBelow(n)'
    BY <2>1, <2>3, <2>4, <2>5, <2>7, RightsOfMore
  <2>9. RightsBelow(question)'
    BY <2>3, <2>6, <2>8
  <2> QED BY <2>1, <2>2, <2>9 DEF LeaverInv
<1>3. CASE Crashes \/ UNCHANGED strayVars
  <2>1. UNCHANGED <<resultInfos, question, online, client, toServer, toClient, leftAt>>
    BY <1>3, CrashesDoes DEF strayVars, vars
  <2>2. \A h \in PlaysOn : h \in DOMAIN resultInfos /\ StandsAs(h, "barren")
                             => StandsAs(h, "barren")'
    BY <2>1, UntouchedStands DEF Untouched
  <2> QED BY <2>1, <2>2, QuietKeepsLeavers
<1>4. ASSUME NEW p \in Players, HandleEvent(p) PROVE LeaverInv'
  <2>1. leftAt' = leftAt /\ started' = started
    BY <1>4 DEF HandleEvent
  <2>2. CASE HandleResult(p)
    BY <2>1, <2>2, ResultKeepsLeavers
  <2>3. CASE HandlePrepare(p)
    BY <2>1, <2>3, PrepareKeepsLeavers, StandStep
  <2> QED BY <1>4, <2>2, <2>3 DEF HandleEvent
<1>5. ASSUME NEW p \in Players, Drops(p) PROVE LeaverInv'
  <2>1. /\ UNCHANGED <<resultInfos, question, online, leftAt>>
        /\ toClient[p] # << >> /\ toClient'[p] = Tail(toClient[p])
        /\ \A q \in Players : q # p => toClient'[q] = toClient[q]
    BY <1>5, DropsDoes
  <2>2. \A q \in online : \/ toClient'[q] = toClient[q]
                          \/ toClient[q] # << >> /\ toClient'[q] = Tail(toClient[q])
    BY <1>1, <2>1
  <2>3. ASSUME NEW h \in PlaysOn, h \in DOMAIN resultInfos, StandsAs(h, "barren")
        PROVE  StandsAs(h, "barren")'
    BY <1>1, <1>5, <2>3, DropsStands
  <2> QED BY <2>1, <2>2, <2>3, QuietKeepsLeavers
<1>6. ASSUME NEW p \in Players, LeaveGame(p) PROVE LeaverInv'
  BY <1>6, LeaveKeepsLeavers
<1>7. ASSUME NEW p \in Honest, Honestly(p) PROVE LeaverInv'
  <2>1. p \in Players
    BY DEF Honest
  <2>2. /\ UNCHANGED <<resultInfos, question, online, leftAt>>
        /\ \A q \in Players : q # p => toClient'[q] = toClient[q]
        /\ \/ toClient'[p] = toClient[p]
           \/ toClient[p] # << >> /\ toClient'[p] = Tail(toClient[p])
    BY <1>7, <2>1, HonestlyDoes
  <2>3. \A q \in online : \/ toClient'[q] = toClient[q]
                          \/ toClient[q] # << >> /\ toClient'[q] = Tail(toClient[q])
    BY <1>1, <2>2
  <2>4. ASSUME NEW h \in PlaysOn, h \in DOMAIN resultInfos, StandsAs(h, "barren")
        PROVE  StandsAs(h, "barren")'
    BY <1>1, <1>7, <2>1, <2>4, HonestlyStands
  <2> QED BY <2>2, <2>3, <2>4, QuietKeepsLeavers
<1>8. ASSUME NEW p \in Strays, NEW msg \in {RcResult(0), RcNoResult, RcPrepare}, StraySends(p, msg)
      PROVE  LeaverInv'
  <2>1. /\ UNCHANGED <<resultInfos, question, online, client, toClient, leftAt>>
        /\ \A q \in Players : q # p => toServer'[q] = toServer[q]
    BY <1>8, StraySendsDoes
  <2>2. ASSUME NEW h \in PlaysOn, h \in DOMAIN resultInfos, StandsAs(h, "barren")
        PROVE  StandsAs(h, "barren")'
    <3>1. Untouched(h)
      BY <1>1, <2>1 DEF Untouched, Honest
    <3> QED BY <2>2, <3>1, UntouchedStands
  <2> QED BY <2>1, <2>2, QuietKeepsLeavers
<1> QED BY <1>2, <1>3, <1>4, <1>5, <1>6, <1>7, <1>8 DEF StrayNext, Crashes

\* Nobody was asked and nobody left at first.
LEMMA LeaverInit == StrayInit => HonestStand /\ LeaverInv
<1> SUFFICES ASSUME StrayInit PROVE HonestStand /\ LeaverInv
  OBVIOUS
<1>1. /\ resultInfos = << >> /\ question = 0 /\ started = FALSE /\ online = Players
      /\ client = [p \in Players |-> [stage |-> "ready", round |-> 0]]
      /\ toServer = [p \in Players |-> << >>] /\ toClient = [p \in Players |-> << >>]
      /\ leftAt = << >>
  BY DEF StrayInit, Init
<1>2. DOMAIN resultInfos = {} /\ DOMAIN leftAt = {}
  BY <1>1
<1>3. Len(<< >>) = 0
  OBVIOUS
<1>4. AllFinals(<< >>)
  BY DEF AllFinals
<1>5. ASSUME NEW p \in PlaysOn PROVE NotAsked(p)
  <2>1. p \in Players
    BY <1>1 DEF PlaysOn
  <2>2. client[p].stage = "ready" /\ toServer[p] = << >> /\ toClient[p] = << >>
    BY <1>1, <2>1
  <2> QED BY <1>1, <1>2, <1>4, <2>2 DEF NotAsked
<1>6. RightsBelow(question)
  BY <1>1, <1>3 DEF RightsBelow
<1> QED BY <1>1, <1>2, <1>5, <1>6 DEF HonestStand, LeaverInv

\* What LeaversEndTheGame says is part of the invariant.
LEMMA LeaverImpliesEnds == StrayType /\ LeaverInv => LeaversEndTheGame
<1> SUFFICES ASSUME StrayType, LeaverInv, PlaysOn # {},
                    NEW p \in DOMAIN leftAt \cap DOMAIN resultInfos
             PROVE  /\ question <= leftAt[p] + 1
                    /\ \A q \in online : \A i \in DOMAIN toClient[q] :
                         toClient[q][i].event = "RC_FINAL" => toClient[q][i].right <= leftAt[p]
  BY DEF LeaversEndTheGame
<1>1. Ended(p)
  BY DEF LeaverInv
<1>2. \A q \in online : DOMAIN toClient[q] = 1..Len(toClient[q])
  BY DEF StrayType, TypeOK
<1> QED BY <1>1, <1>2 DEF Ended, RightsBelow

\* Whatever the strays do and whenever, the game ends with the round that
\* somebody left in: it is gone then, or has an entry that waits for ever.
THEOREM StrayLeaversEndTheGame == StraySpec => []LeaversEndTheGame
<1> DEFINE Inv == StrayType /\ HonestStand /\ LeaverInv
<1>1. StrayInit => Inv
  BY StrayTypeInit, LeaverInit
<1>2. Inv /\ [StrayNext]_strayVars => Inv'
  BY StrayTypeStep, StandStep, LeaverStep
<1>3. Inv => LeaversEndTheGame
  BY LeaverImpliesEnds
<1> QED BY <1>1, <1>2, <1>3, PTL DEF StraySpec
=============================================================================
