---------------------------- MODULE LobbyProofs ----------------------------
(***************************************************************************)
(* Proofs about Lobby: for every set of handles and names, any number of   *)
(* games, with or without the managers, with statements of the database    *)
(* that fail and a process that ends at any time.                          *)
(*                                                                         *)
(* AtMostTwoPerGame is not inductive: a new game must not have players yet *)
(* (TypeOK bounds the ids in use by created), and a count is hard to carry *)
(* through a step.  The invariant says instead that each game has a pair   *)
(* of sockets that covers its players.                                     *)
(***************************************************************************)
EXTENDS Lobby, FiniteSetTheorems, TLAPS

\* Each game has a pair of sockets that covers its players.
GamesArePairs ==
  \A g \in 1..created :
    \E a, b \in Sockets : \A s \in DOMAIN players :
      players[s].game = g => s \in {a, b}

LobbyInv ==
  /\ TypeOK
  /\ PlayersHaveSessions
  /\ GameMeansCommunicating
  /\ GamesArePairs
  /\ PlayersAreRegistered

PlayerType(n) ==
  [name : Names, state : {"AVAILABLE", "COMMUNICATING"}, game : 0..n]

\* The rows and the history have their types after a step, and no row is
\* lost.
DatabaseGrows ==
  /\ accounts' \subseteq Names /\ promised' \subseteq Names
  /\ unstored' \subseteq Names
  /\ accounts \subseteq accounts'
  /\ request'.from \in Sockets \cup {0}

---------------------------------------------------------------------------
\* A process that ends keeps nothing that could contradict the invariant.
LEMMA EndsKeepsInv ==
  ASSUME LobbyInv, Ends, DatabaseGrows
  PROVE  LobbyInv'
<1>1. TypeOK'
  <2>1. /\ running' \in BOOLEAN /\ accepted' \subseteq Sockets
        /\ sessions' \subseteq accepted' /\ created' = 0
    BY DEF Ends
  <2>4. /\ accounts' \subseteq Names /\ promised' \subseteq Names
        /\ unstored' \subseteq Names /\ request'.from \in Sockets \cup {0}
    BY DEF DatabaseGrows
  <2>5. created' \in 0..MaxGames
    BY <2>1, LobbyAssumption
  <2>2. players' = <<>> /\ DOMAIN players' = {}
    BY DEF Ends
  <2>3. players' \in [DOMAIN players' -> PlayerType(created')]
    BY <2>2
  <2> QED BY <2>1, <2>3, <2>4, <2>5 DEF TypeOK, PlayerType
<1>2. PlayersHaveSessions' /\ GameMeansCommunicating'
  BY DEF Ends, PlayersHaveSessions, GameMeansCommunicating
<1>3. GamesArePairs'
  BY DEF Ends, GamesArePairs
<1>4. PlayersAreRegistered'
  BY DEF Ends, PlayersAreRegistered
<1> QED BY <1>1, <1>2, <1>3, <1>4 DEF LobbyInv

\* A step that puts nobody into a game: the players after it have sessions
\* and accounts, and each is in no game or in the one it was in.
LEMMA NoNewGameKeepsInv ==
  ASSUME LobbyInv, DatabaseGrows,
         running' \in BOOLEAN, created' = created,
         accepted' \subseteq Sockets, sessions' \subseteq accepted',
         DOMAIN players' \subseteq sessions',
         players' \in [DOMAIN players' -> PlayerType(created)],
         PlayersAreRegistered',
         \A s \in DOMAIN players' :
           \/ players'[s].game = NoGame
           \/ /\ s \in DOMAIN players
              /\ players'[s].game = players[s].game
              /\ players'[s].state = players[s].state
           \/ /\ s \in DOMAIN players
              /\ players'[s].game = players[s].game
              /\ players'[s].state = "COMMUNICATING"
  PROVE  LobbyInv'
<1>1. TypeOK'
  BY DEF LobbyInv, TypeOK, DatabaseGrows, PlayerType
<1>2. PlayersHaveSessions'
  BY DEF PlayersHaveSessions
<1>3. GameMeansCommunicating'
  BY DEF LobbyInv, GameMeansCommunicating
<1>4. GamesArePairs'
  <2> SUFFICES ASSUME NEW g \in 1..created
               PROVE  \E a, b \in Sockets : \A s \in DOMAIN players' :
                        players'[s].game = g => s \in {a, b}
    BY DEF GamesArePairs
  <2>1. PICK a \in Sockets, b \in Sockets :
          \A s \in DOMAIN players : players[s].game = g => s \in {a, b}
    BY DEF LobbyInv, GamesArePairs
  <2>2. \A s \in DOMAIN players' : players'[s].game = g => s \in {a, b}
    BY <2>1 DEF NoGame
  <2> QED BY <2>2
<1> QED BY <1>1, <1>2, <1>3, <1>4 DEF LobbyInv

\* A player who is created has a session and no game, and an account unless
\* the INSERT failed.
LEMMA NewPlayerKeepsInv ==
  ASSUME LobbyInv, DatabaseGrows,
         NEW s \in sessions, NEW name \in Names,
         name \in accounts' \cup unstored', unstored \subseteq unstored',
         players' = WithPlayer(s, NewPlayer(name, "AVAILABLE")),
         UNCHANGED <<running, accepted, sessions, created>>
  PROVE  LobbyInv'
<1> DEFINE new == NewPlayer(name, "AVAILABLE")
<1>1. new \in PlayerType(created) /\ new.game = NoGame /\ new.name = name
  BY DEF LobbyInv, TypeOK, NewPlayer, PlayerType, NoGame
<1> HIDE DEF new
<1>2. /\ DOMAIN players' = DOMAIN players \cup {s}
      /\ \A t \in DOMAIN players' :
           players'[t] = IF t = s THEN new ELSE players[t]
  BY DEF WithPlayer, new
<1>3. \A t \in DOMAIN players : players[t] \in PlayerType(created)
  BY DEF LobbyInv, TypeOK, PlayerType
<1>4. players' \in [DOMAIN players' -> PlayerType(created)]
  BY <1>1, <1>3 DEF WithPlayer, new
<1>5. DOMAIN players' \subseteq sessions'
  BY <1>2 DEF LobbyInv, PlayersHaveSessions
<1>6. PlayersAreRegistered'
  BY <1>1, <1>2 DEF LobbyInv, PlayersAreRegistered, DatabaseGrows
<1>7. \A t \in DOMAIN players' :
        \/ players'[t].game = NoGame
        \/ /\ t \in DOMAIN players
           /\ players'[t].game = players[t].game
           /\ players'[t].state = players[t].state
  BY <1>1, <1>2
<1>8. /\ running' \in BOOLEAN /\ accepted' \subseteq Sockets
      /\ sessions' \subseteq accepted'
  BY DEF LobbyInv, TypeOK
<1> QED BY <1>4, <1>5, <1>6, <1>7, <1>8, NoNewGameKeepsInv

\* The players stay as they are.
LEMMA SamePlayersKeepInv ==
  ASSUME LobbyInv, DatabaseGrows, running' \in BOOLEAN,
         accepted' \subseteq Sockets, sessions \subseteq sessions',
         sessions' \subseteq accepted',
         UNCHANGED <<players, created, unstored>>
  PROVE  LobbyInv'
<1>1. DOMAIN players' \subseteq sessions'
  BY DEF LobbyInv, PlayersHaveSessions
<1>2. players' \in [DOMAIN players' -> PlayerType(created)]
  BY DEF LobbyInv, TypeOK, PlayerType
<1>3. PlayersAreRegistered'
  BY DEF LobbyInv, PlayersAreRegistered, DatabaseGrows
<1> QED BY <1>1, <1>2, <1>3, NoNewGameKeepsInv

---------------------------------------------------------------------------
\* A handled request comes from one of the sockets.
LEMMA HandlesFromSocket ==
  ASSUME LobbyInv, NEW s, NEW event, NEW arg, Handles(s, event, arg)
  PROVE  /\ s \in sessions /\ s \in Sockets
         /\ request'.from \in Sockets \cup {0}
BY DEF Handles, LobbyInv, TypeOK

\* A step that handles a request and leaves the database alone.
LEMMA HandlesGrows ==
  ASSUME LobbyInv, NEW s, NEW event, NEW arg, Handles(s, event, arg),
         UNCHANGED database, unstored' \subseteq Names
  PROVE  DatabaseGrows
BY HandlesFromSocket DEF DatabaseGrows, database, LobbyInv, TypeOK

\* A handler that only sends messages.
LEMMA SendsKeepsInv ==
  ASSUME LobbyInv, DatabaseGrows, NEW messages, Sends(messages),
         UNCHANGED players
  PROVE  LobbyInv'
BY SamePlayersKeepInv DEF Sends, LobbyInv, TypeOK

---------------------------------------------------------------------------
(* One lemma per action that does more than send or crash.                 *)

\* A new session is on an accepted handle and belongs to no player.
LEMMA AcceptKeepsInv ==
  ASSUME LobbyInv, NEW s \in Sockets, Accept(s)
  PROVE  LobbyInv'
<1>1. DatabaseGrows
  BY DEF Accept, DatabaseGrows, database, LobbyInv, TypeOK
<1>2. /\ running' \in BOOLEAN /\ accepted' \subseteq Sockets
      /\ sessions \subseteq sessions' /\ sessions' \subseteq accepted'
      /\ UNCHANGED <<players, created, unstored>>
  BY DEF Accept, LobbyInv, TypeOK
<1> QED BY <1>1, <1>2, SamePlayersKeepInv

\* The player goes with its session.
LEMMA CloseKeepsInv ==
  ASSUME LobbyInv, NEW s \in Sockets, Close(s)
  PROVE  LobbyInv'
<1>1. DatabaseGrows
  BY HandlesGrows DEF Close, CrashesAfter, Ends, LobbyInv, TypeOK
<1>2. CASE Ends
  BY <1>1, <1>2, EndsKeepsInv
<1>3. CASE /\ sessions' = sessions \ {s}
           /\ players' = WithoutPlayer(s)
           /\ UNCHANGED <<running, accepted, created, unstored>>
  <2>1. /\ DOMAIN players' = DOMAIN players \ {s}
        /\ \A t \in DOMAIN players' : players'[t] = players[t]
    BY <1>3 DEF WithoutPlayer
  <2>2. players' \in [DOMAIN players' -> PlayerType(created)]
    BY <1>3 DEF WithoutPlayer, LobbyInv, TypeOK, PlayerType
  <2>3. DOMAIN players' \subseteq sessions'
    BY <1>3, <2>1 DEF LobbyInv, PlayersHaveSessions
  <2>4. PlayersAreRegistered'
    BY <1>1, <1>3, <2>1 DEF LobbyInv, PlayersAreRegistered, DatabaseGrows
  <2>5. /\ running' \in BOOLEAN /\ accepted' \subseteq Sockets
        /\ sessions' \subseteq accepted' /\ created' = created
    BY <1>3 DEF LobbyInv, TypeOK
  <2> QED BY <1>1, <2>1, <2>2, <2>3, <2>4, <2>5, NoNewGameKeepsInv
<1> QED BY <1>2, <1>3 DEF Close, CrashesAfter

\* A player is created by a registration: its INSERT was made, or the name is
\* one that was not stored.
LEMMA InsertsKeepsInv ==
  ASSUME LobbyInv, NEW s \in sessions, NEW name \in Names, Inserts(s, name),
         request'.from \in Sockets \cup {0}
  PROVE  LobbyInv'
<1>1. /\ accounts' \subseteq Names /\ accounts \subseteq accounts'
      /\ promised' \subseteq Names
  BY DEF Inserts, LobbyInv, TypeOK
<1>2. CASE Ends
  <2>1. DatabaseGrows
    BY <1>1, <1>2 DEF DatabaseGrows, Ends
  <2> QED BY <1>2, <2>1, EndsKeepsInv
<1>3. CASE /\ unstored' = unstored \cup ({name} \ accounts')
           /\ players' = WithPlayer(s, NewPlayer(name, "AVAILABLE"))
           /\ UNCHANGED <<running, accepted, sessions, created>>
  <2>1. DatabaseGrows
    BY <1>1, <1>3 DEF DatabaseGrows, LobbyInv, TypeOK
  <2>2. name \in accounts' \cup unstored' /\ unstored \subseteq unstored'
    BY <1>3
  <2> QED BY <1>3, <2>1, <2>2, NewPlayerKeepsInv
<1> QED BY <1>2, <1>3 DEF Inserts, CrashesAfter

\* A registration inserts, or only replies.
LEMMA RegisterKeepsInv ==
  ASSUME LobbyInv, NEW s, NEW name \in Names \cup {NoName},
         NEW password \in BOOLEAN, Register(s, name, password)
  PROVE  LobbyInv'
<1>1. Handles(s, "REGISTER", name)
  BY DEF Register
<1>2. s \in sessions /\ request'.from \in Sockets \cup {0}
  BY <1>1, HandlesFromSocket
<1>3. CASE UNCHANGED database /\ UNCHANGED players /\ \E m : Sends(m)
  <2>1. unstored' \subseteq Names
    BY <1>3 DEF Sends, LobbyInv, TypeOK
  <2> QED BY <1>1, <1>3, <2>1, HandlesGrows, SendsKeepsInv
<1>4. CASE name \in Names /\ Inserts(s, name)
  BY <1>2, <1>4, InsertsKeepsInv
<1> QED BY <1>3, <1>4 DEF Register

\* A player is created by a login only if the account was found.
LEMMA LoginKeepsInv ==
  ASSUME LobbyInv, NEW s, NEW name \in Names \cup {NoName},
         NEW password \in BOOLEAN, Login(s, name, password)
  PROVE  LobbyInv'
<1>1. Handles(s, "LOGIN", name) /\ UNCHANGED database
  BY DEF Login
<1>2. unstored' \subseteq Names
  BY DEF Login, CrashesAfter, Ends, Sends, LobbyInv, TypeOK
<1>3. DatabaseGrows /\ s \in sessions
  BY <1>1, <1>2, HandlesGrows, HandlesFromSocket
<1>4. CASE UNCHANGED players /\ \E m : Sends(m)
  BY <1>3, <1>4, SendsKeepsInv
<1>5. CASE Ends
  BY <1>3, <1>5, EndsKeepsInv
<1>6. CASE /\ name \in Names /\ name \in accounts
           /\ players' = WithPlayer(s, NewPlayer(name, "AVAILABLE"))
           /\ UNCHANGED <<running, accepted, sessions, created, unstored>>
  BY <1>3, <1>6, NewPlayerKeepsInv DEF DatabaseGrows
<1> QED BY <1>4, <1>5, <1>6 DEF Login, Found, CrashesAfter, Sends

\* A player that is put into game g.
LEMMA PlayingRecord ==
  ASSUME NEW n, NEW p \in PlayerType(n), NEW g
  PROVE  [p EXCEPT !.state = "COMMUNICATING", !.game = g] =
           [name |-> p.name, state |-> "COMMUNICATING", game |-> g]
<1> DEFINE q == [p EXCEPT !.state = "COMMUNICATING"]
<1>1. q = [name |-> p.name, state |-> "COMMUNICATING", game |-> p.game]
  BY DEF PlayerType
<1> HIDE DEF q
<1>2. [q EXCEPT !.game = g] =
        [name |-> p.name, state |-> "COMMUNICATING", game |-> g]
  BY <1>1
<1> QED BY <1>2 DEF q

\* A new game is covered by its two players: the ids in use were below its
\* own, and older games can only lose players to it.
LEMMA PairedKeepsInv ==
  ASSUME LobbyInv, DatabaseGrows, UNCHANGED database,
         NEW s \in DOMAIN players, NEW friend \in DOMAIN players,
         created < MaxGames,
         players' = Paired(s, friend), created' = created + 1,
         UNCHANGED <<running, accepted, sessions, unstored>>
  PROVE  LobbyInv'
<1> DEFINE Plays(p) == [p EXCEPT !.state = "COMMUNICATING", !.game = created + 1]
<1>1. /\ DOMAIN players' = DOMAIN players
      /\ \A t \in DOMAIN players :
           players'[t] = IF t \in {s, friend} THEN Plays(players[t]) ELSE players[t]
  BY DEF Paired
<1>2. created \in Nat /\ created' \in 0..MaxGames
  BY LobbyAssumption DEF LobbyInv, TypeOK
<1>3. \A t \in DOMAIN players : players[t] \in PlayerType(created)
  BY DEF LobbyInv, TypeOK, PlayerType
<1>4. \A t \in DOMAIN players :
        /\ Plays(players[t]) \in PlayerType(created + 1)
        /\ Plays(players[t]).name = players[t].name
        /\ Plays(players[t]).state = "COMMUNICATING"
        /\ Plays(players[t]).game = created + 1
  <2> SUFFICES ASSUME NEW t \in DOMAIN players
               PROVE  LET p == players[t] IN
                      /\ Plays(p) \in PlayerType(created + 1)
                      /\ Plays(p).name = p.name
                      /\ Plays(p).state = "COMMUNICATING"
                      /\ Plays(p).game = created + 1
    OBVIOUS
  <2>1. players[t] \in PlayerType(created)
    BY <1>3
  <2>2. Plays(players[t]) =
          [name |-> players[t].name, state |-> "COMMUNICATING", game |-> created + 1]
    BY <2>1, PlayingRecord
  <2>3. players[t].name \in Names /\ created + 1 \in 0..(created + 1)
    BY <1>2, <2>1 DEF PlayerType
  <2> QED BY <2>2, <2>3 DEF PlayerType
<1> HIDE DEF Plays
<1>5. \A t \in DOMAIN players : players'[t] \in PlayerType(created + 1)
  BY <1>1, <1>2, <1>3, <1>4 DEF PlayerType
<1>6. TypeOK'
  <2>1. players' \in [DOMAIN players' -> PlayerType(created')]
    BY <1>1, <1>5 DEF Paired
  <2>2. /\ running' \in BOOLEAN /\ accepted' \subseteq Sockets
        /\ sessions' \subseteq accepted'
    BY DEF LobbyInv, TypeOK
  <2> QED BY <1>2, <2>1, <2>2 DEF TypeOK, DatabaseGrows, PlayerType
<1>7. PlayersHaveSessions'
  BY <1>1 DEF LobbyInv, PlayersHaveSessions
<1>8. GameMeansCommunicating'
  BY <1>1, <1>4 DEF LobbyInv, GameMeansCommunicating
<1>9. GamesArePairs'
  <2> SUFFICES ASSUME NEW g \in 1..(created + 1)
               PROVE  \E a, b \in Sockets : \A t \in DOMAIN players' :
                        players'[t].game = g => t \in {a, b}
    BY DEF GamesArePairs
  <2>1. CASE g = created + 1
    <3>1. s \in Sockets /\ friend \in Sockets
      BY DEF LobbyInv, TypeOK, PlayersHaveSessions
    <3>2. \A t \in DOMAIN players' : players'[t].game = g => t \in {s, friend}
      BY <1>1, <1>2, <1>3, <2>1 DEF PlayerType
    <3> QED BY <3>1, <3>2
  <2>2. CASE g \in 1..created
    <3>1. PICK a \in Sockets, b \in Sockets :
            \A t \in DOMAIN players : players[t].game = g => t \in {a, b}
      BY <2>2 DEF LobbyInv, GamesArePairs
    <3>2. \A t \in DOMAIN players' : players'[t].game = g => t \in {a, b}
      BY <1>1, <1>2, <1>4, <2>2, <3>1
    <3> QED BY <3>2
  <2> QED BY <1>2, <2>1, <2>2
<1>10. PlayersAreRegistered'
  BY <1>1, <1>4 DEF LobbyInv, PlayersAreRegistered, database
<1> QED BY <1>6, <1>7, <1>8, <1>9, <1>10 DEF LobbyInv

\* A challenge: the challenger alone becomes communicating, or both players
\* of a new game do.  A friend who was found has a session.
LEMMA ChallengeKeepsInv ==
  ASSUME LobbyInv, NEW s, NEW friendName, NEW gameName,
         ChallengeFriendRequest(s, friendName, gameName)
  PROVE  LobbyInv'
<1>1. /\ Handles(s, "CHALLENGE_FRIEND_REQUEST", friendName)
      /\ UNCHANGED database
  BY DEF ChallengeFriendRequest
<1>2. DatabaseGrows
  <2>1. unstored' \subseteq Names
    BY DEF ChallengeFriendRequest, CrashesAfter, Ends, Sends, LobbyInv, TypeOK
  <2> QED BY <1>1, <2>1, HandlesGrows
<1>3. CASE Ends
  BY <1>2, <1>3, EndsKeepsInv
<1>4. CASE UNCHANGED players /\ Sends({})
  BY <1>2, <1>4, SendsKeepsInv
<1>5. CASE /\ s \in DOMAIN players
           /\ players' = [players EXCEPT ![s].state = "COMMUNICATING"]
           /\ UNCHANGED <<running, accepted, sessions, created, unstored>>
  <2>1. \A t \in DOMAIN players : players[t] \in PlayerType(created)
    BY DEF LobbyInv, TypeOK, PlayerType
  <2>2. /\ DOMAIN players' = DOMAIN players
        /\ \A t \in DOMAIN players :
             /\ players'[t].name = players[t].name
             /\ players'[t].game = players[t].game
             /\ players'[t] \in PlayerType(created)
             /\ \/ players'[t].state = players[t].state
                \/ players'[t].state = "COMMUNICATING"
    BY <1>5, <2>1 DEF PlayerType
  <2>3. players' \in [DOMAIN players' -> PlayerType(created)]
    BY <1>5, <2>2
  <2>4. DOMAIN players' \subseteq sessions'
    BY <1>5, <2>2 DEF LobbyInv, PlayersHaveSessions
  <2>5. PlayersAreRegistered'
    BY <1>2, <1>5, <2>2 DEF LobbyInv, PlayersAreRegistered, DatabaseGrows
  <2>6. /\ running' \in BOOLEAN /\ accepted' \subseteq Sockets
        /\ sessions' \subseteq accepted'
    BY <1>5 DEF LobbyInv, TypeOK
  <2> QED BY <1>2, <1>5, <2>2, <2>3, <2>4, <2>5, <2>6, NoNewGameKeepsInv
<1>6. ASSUME s \in DOMAIN players,
             NEW friend \in FindPlayerByName(friendName),
             friend \in sessions,
             created < MaxGames,
             players' = Paired(s, friend), created' = created + 1,
             UNCHANGED <<running, accepted, sessions, unstored>>
      PROVE  LobbyInv'
  BY <1>1, <1>2, <1>6, PairedKeepsInv DEF FindPlayerByName
<1>7. \A friend \in FindPlayerByName(friendName) : friend \in sessions
  BY DEF FindPlayerByName, LobbyInv, PlayersHaveSessions
<1> QED
  BY <1>3, <1>4, <1>5, <1>6, <1>7
  DEF ChallengeFriendRequest, CrashesAfter, Sends

---------------------------------------------------------------------------
LEMMA InitInv == Init => LobbyInv
<1> SUFFICES ASSUME Init PROVE LobbyInv
  OBVIOUS
<1>1. players = <<>> /\ DOMAIN players = {} /\ created = 0
  BY DEF Init
<1>2. players \in [DOMAIN players -> PlayerType(created)]
  BY <1>1
<1>3. created \in 0..MaxGames
  BY <1>1, LobbyAssumption
<1>4. /\ running \in BOOLEAN /\ accepted \subseteq Sockets
      /\ sessions \subseteq accepted
      /\ accounts \subseteq Names /\ promised \subseteq Names
      /\ unstored \subseteq Names
      /\ request.from \in Sockets \cup {0}
  BY DEF Init, NoRequest
<1>5. TypeOK
  BY <1>2, <1>3, <1>4 DEF TypeOK, PlayerType
<1>6. PlayersHaveSessions /\ GameMeansCommunicating
  BY <1>1 DEF PlayersHaveSessions, GameMeansCommunicating
<1>7. GamesArePairs
  BY <1>1 DEF GamesArePairs
<1>8. PlayersAreRegistered
  BY <1>1 DEF PlayersAreRegistered
<1> QED BY <1>5, <1>6, <1>7, <1>8 DEF LobbyInv

\* The invariant is inductive.
LEMMA NextKeepsInv == LobbyInv /\ [Next]_vars => LobbyInv'
<1> SUFFICES ASSUME LobbyInv, [Next]_vars PROVE LobbyInv'
  OBVIOUS
<1>1. ASSUME NEW s \in Sockets, Accept(s) PROVE LobbyInv'
  BY <1>1, AcceptKeepsInv
<1>2. ASSUME NEW s \in Sockets, Close(s) PROVE LobbyInv'
  BY <1>2, CloseKeepsInv
<1>3. ASSUME NEW s, NEW name \in Names \cup {NoName}, NEW password \in BOOLEAN,
             Register(s, name, password)
      PROVE  LobbyInv'
  BY <1>3, RegisterKeepsInv
<1>4. ASSUME NEW s, NEW name \in Names \cup {NoName}, NEW password \in BOOLEAN,
             Login(s, name, password)
      PROVE  LobbyInv'
  BY <1>4, LoginKeepsInv
<1>5. ASSUME NEW s, GetPlayerList(s) PROVE LobbyInv'
  <2>1. DatabaseGrows
    BY <1>5, HandlesGrows
    DEF GetPlayerList, CrashesAfter, Ends, Sends, LobbyInv, TypeOK
  <2>2. Ends \/ (UNCHANGED players /\ \E m : Sends(m))
    BY <1>5 DEF GetPlayerList, CrashesAfter
  <2> QED BY <2>1, <2>2, EndsKeepsInv, SendsKeepsInv
<1>6. ASSUME NEW s, NEW name, NEW game, ChallengeFriendRequest(s, name, game)
      PROVE  LobbyInv'
  BY <1>6, ChallengeKeepsInv
<1>7. ASSUME NEW s, NEW yes, ChallengeFriendResponse(s, yes) PROVE LobbyInv'
  <2>1. DatabaseGrows
    BY <1>7, HandlesGrows
    DEF ChallengeFriendResponse, CrashesAfter, Ends, Sends, LobbyInv, TypeOK
  <2>2. Ends \/ (UNCHANGED players /\ Sends({}))
    BY <1>7 DEF ChallengeFriendResponse, CrashesAfter
  <2> QED BY <2>1, <2>2, EndsKeepsInv, SendsKeepsInv
<1>8. ASSUME NEW s, GameEvent(s) PROVE LobbyInv'
  <2>1. DatabaseGrows
    BY <1>8, HandlesGrows DEF GameEvent, CrashesAfter, Ends
  <2> QED BY <1>8, <2>1, EndsKeepsInv DEF GameEvent, CrashesAfter
<1>9. ASSUME Stop PROVE LobbyInv'
  <2>1. DatabaseGrows
    BY <1>9 DEF Stop, Ends, NoRequest, DatabaseGrows, database, LobbyInv, TypeOK
  <2> QED BY <1>9, <2>1, EndsKeepsInv DEF Stop
<1>10. ASSUME Restart PROVE LobbyInv'
  <2>1. DatabaseGrows
    BY <1>10 DEF Restart, NoRequest, DatabaseGrows, database, LobbyInv, TypeOK
  <2>2. /\ running' \in BOOLEAN /\ UNCHANGED <<accepted, sessions, players, created, unstored>>
    BY <1>10 DEF Restart
  <2> QED BY <2>1, <2>2, SamePlayersKeepInv DEF LobbyInv, TypeOK
<1>11. CASE UNCHANGED vars
  BY <1>11
  DEF vars, LobbyInv, TypeOK, PlayersHaveSessions, GameMeansCommunicating,
      GamesArePairs, PlayersAreRegistered
<1> QED
  BY <1>1, <1>2, <1>3, <1>4, <1>5, <1>6, <1>7, <1>8, <1>9, <1>10, <1>11
  DEF Next, ReadDone

\* The invariant holds in every state of the program.
LEMMA LobbyInvariant == Spec => []LobbyInv
BY InitInv, NextKeepsInv, PTL DEF Spec

\* The managers' maps, the states of the players and the rows have their
\* types, through crashes and restarts.
THEOREM LobbyTypeCorrect == Spec => []TypeOK
<1>1. LobbyInv => TypeOK
  BY DEF LobbyInv
<1> QED BY <1>1, LobbyInvariant, PTL

\* No player outlives its session, so findSession() of a player who was
\* found by name succeeds.
THEOREM LobbyPlayersHaveSessions == Spec => []PlayersHaveSessions
<1>1. LobbyInv => PlayersHaveSessions
  BY DEF LobbyInv
<1> QED BY <1>1, LobbyInvariant, PTL

\* Whoever is in a game is communicating.
THEOREM LobbyGameMeansCommunicating == Spec => []GameMeansCommunicating
<1>1. LobbyInv => GameMeansCommunicating
  BY DEF LobbyInv
<1> QED BY <1>1, LobbyInvariant, PTL

\* No game has a third player.
THEOREM LobbyAtMostTwoPerGame == Spec => []AtMostTwoPerGame
<1>1. ASSUME LobbyInv, NEW g \in 1..created
      PROVE  Cardinality({s \in DOMAIN players : players[s].game = g}) <= 2
  <2> DEFINE P == {s \in DOMAIN players : players[s].game = g}
  <2>1. PICK a \in Sockets, b \in Sockets :
          \A s \in DOMAIN players : players[s].game = g => s \in {a, b}
    BY <1>1 DEF LobbyInv, GamesArePairs
  <2>2. IsFiniteSet({a}) /\ Cardinality({a}) = 1
    BY FS_Singleton
  <2>3. IsFiniteSet({a} \cup {b}) /\ Cardinality({a} \cup {b}) \in {1, 2}
    <3>1. /\ IsFiniteSet({a} \cup {b})
          /\ Cardinality({a} \cup {b}) = IF b \in {a} THEN Cardinality({a})
                                        ELSE Cardinality({a}) + 1
      BY <2>2, FS_AddElement
    <3> QED BY <2>2, <3>1
  <2>4. P \in SUBSET ({a} \cup {b})
    BY <2>1
  <2>5. IsFiniteSet(P) /\ Cardinality(P) <= Cardinality({a} \cup {b})
    BY <2>3, <2>4, FS_Subset
  <2>6. Cardinality(P) \in Nat
    BY <2>5, FS_CardinalityType
  <2> HIDE DEF P
  <2>7. Cardinality(P) <= 2
    BY <2>3, <2>5, <2>6
  <2> QED BY <2>7 DEF P
<1>2. LobbyInv => AtMostTwoPerGame
  BY <1>1 DEF AtMostTwoPerGame
<1> QED BY <1>2, LobbyInvariant, PTL

\* Whoever is online has an account, unless this process registered it with an
\* INSERT that failed: for any failures of the database, and through crashes
\* and restarts at any point of a registration.
THEOREM LobbyPlayersAreRegistered == Spec => []PlayersAreRegistered
<1>1. LobbyInv => PlayersAreRegistered
  BY DEF LobbyInv
<1> QED BY <1>1, LobbyInvariant, PTL
============================================================================
