------------------------------- MODULE Lobby -------------------------------
(***************************************************************************)
(* The server between the sockets and the games: connections and sessions  *)
(* (MainWindow, SessionManager), the players who are online (PlayerManager,*)
(* Player), the accounts in the database, the pairing of two players for a *)
(* game (Session, GameManager, Game), and the process itself, which may    *)
(* crash, be stopped, and be started again on the same database.           *)
(*                                                                         *)
(* Everything happens in the message loop of one thread: a handler is a    *)
(* step.  A null pointer that the code dereferences ends the process, and  *)
(* so may the machine or a user, between two steps (Stop) or, where it     *)
(* makes a difference, in the middle of a handler (Inserts).               *)
(*                                                                         *)
(* A statement of the database may fail at any time: nobody looks at what  *)
(* exec() returns, which is true in any case (DbManager.cpp:189).          *)
(*                                                                         *)
(* SocketReader and SocketWriter model how requests come in and messages   *)
(* go out; here a request is read as a whole.                              *)
(*                                                                         *)
(* The constructor of Application (Application.cpp:12-20) creates neither  *)
(* its PlayerManager nor its GameManager.  Managers says which of the two  *)
(* exist: {} is the program as it is; with both, what the classes do when  *)
(* they are given the collaborators they are written for.                  *)
(*                                                                         *)
(* A request body is abstracted to what the handler parses out of it: a    *)
(* name that may be empty, whether there is a password, whether the game   *)
(* is one the server knows, whether an answer is yes.                      *)
(***************************************************************************)
EXTENDS Naturals, Sequences, FiniteSets

CONSTANTS
  Sockets,   \* the handles accept() may return
  Names,     \* the names clients use
  Managers,  \* the managers that Application owns
  MaxGames   \* bound: games created by one process

NoName == ""

ASSUME LobbyAssumption ==
  /\ Sockets \subseteq Nat
  /\ NoName \notin Names
  /\ Managers \subseteq {"PlayerManager", "GameManager"}
  /\ MaxGames \in Nat

VARIABLES
  running,   \* the process is up and its window receives messages
  accepted,  \* handles returned by accept(); the server closes none of them
  sessions,  \* SessionManager::m_sessions: the sockets that have a Session
  players,   \* PlayerManager::m_players: per socket, its Player
  created,   \* how many games were created: the ids are 1..created
  accounts,  \* the rows of table player; they outlive the process
  promised,  \* names whose registration was reported as done (history)
  unstored,  \* names this process registered and did not store (history)
  request,   \* what the last step handled (history)
  sent       \* the messages the last step sent (history)

vars == <<running, accepted, sessions, players, created,
          accounts, promised, unstored, request, sent>>

database == <<accounts, promised>>

NoGame == 0
KnownGames == {"RapidCalculation"}
GameNames == KnownGames \cup {"Chess"}

---------------------------------------------------------------------------
(* The managers.                                                           *)

NewPlayer(name, state) == [name |-> name, state |-> state, game |-> NoGame]

\* newPlayer(): replaces the Player the socket may have.
WithPlayer(socket, player) ==
  [s \in DOMAIN players \cup {socket} |->
     IF s = socket THEN player ELSE players[s]]

\* As if the player were not removed with its session.
MutWithoutPlayerKeeps(socket) == players

\* removePlayer().
WithoutPlayer(socket) == [s \in DOMAIN players \ {socket} |-> players[s]]

\* findPlayer(name): the first match in the order of the sockets, if any.
FindPlayerByName(name) ==
  {s \in DOMAIN players :
     /\ players[s].name = name
     /\ \A t \in DOMAIN players : players[t].name = name => s <= t}

---------------------------------------------------------------------------
(* Steps of the process.                                                   *)

Message(to, event, flag) == [to |-> to, event |-> event, flag |-> flag]

\* The step handles `event` of socket s, with argument arg.
Handles(s, event, arg) ==
  /\ running
  /\ s \in sessions
  /\ request' = [from |-> s, event |-> event, arg |-> arg]

\* The memory of the process is lost, its sockets are closed.
Ends ==
  /\ running' = FALSE
  /\ accepted' = {} /\ sessions' = {}
  /\ players' = <<>> /\ created' = 0
  /\ unstored' = {}

\* What was given to send() before the process ended goes out.
CrashesAfter(messages) == Ends /\ sent' = messages

Sends(messages) ==
  /\ sent' = messages
  /\ UNCHANGED <<running, accepted, sessions, created, unstored>>

NoPlayerManager == "PlayerManager" \notin Managers
NoGameManager == "GameManager" \notin Managers

---------------------------------------------------------------------------
(* Connections.                                                            *)

\* OnMsgSocketAccept, with SessionManager::newSession.
Accept(s) ==
  /\ running
  /\ s \notin accepted
  /\ accepted' = accepted \cup {s}
  /\ sessions' = sessions \cup {s}
  /\ request' = [from |-> s, event |-> "FD_ACCEPT", arg |-> NoName]
  /\ sent' = {}
  /\ UNCHANGED <<running, players, created, unstored, database>>

\* OnMsgSocketClose: the session goes, then the player; removeGame() finds
\* nothing to remove, but it looks for it in the GameManager.
Close(s) ==
  /\ Handles(s, "FD_CLOSE", NoName)
  /\ UNCHANGED database
  /\ IF NoPlayerManager \/ (s \in DOMAIN players /\ NoGameManager)
     THEN CrashesAfter({})
     ELSE /\ sessions' = sessions \ {s}
          /\ players' = WithoutPlayer(s)
          /\ sent' = {}
          /\ UNCHANGED <<running, accepted, created, unstored>>

---------------------------------------------------------------------------
(* Accounts.                                                               *)

\* What next() may say after the SELECT for a name (Session.cpp:69-73,
\* 120-124): a SELECT that fails finds nothing.
Found(name) == {(name \in accounts), FALSE}

\* The INSERT, which may fail, as it does for a name that is there already:
\* the name is the table's primary key.  Its failure is not noticed.  The
\* process may be ended before the reply and before the Player is created.
Inserts(s, name) ==
  /\ accounts' \in {accounts, accounts \cup {name}}
  /\ LET done == {Message(s, "REG_RESULT", 1)} IN
     \/ /\ ~NoPlayerManager
        /\ promised' = promised \cup {name}
        /\ unstored' = unstored \cup ({name} \ accounts')
        /\ players' = WithPlayer(s, NewPlayer(name, "AVAILABLE"))
        /\ sent' = done
        /\ UNCHANGED <<running, accepted, sessions, created>>
     \/ CrashesAfter({}) /\ UNCHANGED promised
     \/ /\ promised' = promised \cup {name}
        /\ CrashesAfter(done)

\* handleRegister.
Register(s, name, password) ==
  /\ Handles(s, "REGISTER", name)
  /\ IF name = NoName \/ ~password
     THEN Sends({}) /\ UNCHANGED <<players, database>>
     ELSE \E found \in Found(name) :
          IF found
          THEN Sends({Message(s, "REG_RESULT", 2)}) /\ UNCHANGED <<players, database>>
          ELSE Inserts(s, name)

\* As if it were not looked at whether the SELECT of a login found a row.
MutLoginUnchecked(s, name, password) ==
  /\ Handles(s, "LOGIN", name)
  /\ UNCHANGED database
  /\ IF name = NoName \/ ~password
     THEN Sends({Message(s, "LOGIN_RESULT", 2)}) /\ UNCHANGED players
     ELSE /\ ~NoPlayerManager
          /\ players' = WithPlayer(s, NewPlayer(name, "AVAILABLE"))
          /\ Sends({Message(s, "LOGIN_RESULT", 1)})

\* handleLogin.  The reply comes after the Player was created.
Login(s, name, password) ==
  /\ Handles(s, "LOGIN", name)
  /\ UNCHANGED database
  /\ \E found \in Found(name) :
     IF name = NoName \/ ~password \/ ~found
     THEN Sends({Message(s, "LOGIN_RESULT", 2)}) /\ UNCHANGED players
     ELSE IF NoPlayerManager
     THEN CrashesAfter({})
     ELSE /\ players' = WithPlayer(s, NewPlayer(name, "AVAILABLE"))
          /\ Sends({Message(s, "LOGIN_RESULT", 1)})

---------------------------------------------------------------------------
(* Players looking for each other.                                         *)

\* handleGetPlayerList: every session must have a player, the sender's too.
GetPlayerList(s) ==
  /\ Handles(s, "GET_PLAYER_LIST_REQUEST", NoName)
  /\ UNCHANGED database
  /\ IF NoPlayerManager \/ ~(sessions \subseteq DOMAIN players)
     THEN CrashesAfter({})
     ELSE LET others == {players[t].name : t \in sessions} \ {players[s].name}
          IN  /\ Sends({Message(s, "GET_PLAYER_LIST_RESPONSE", others)})
              /\ UNCHANGED players

\* As if every game got the same id.
MutPairedSameId(s, friend) ==
  [t \in DOMAIN players |->
     IF t \in {s, friend}
     THEN [players[t] EXCEPT !.state = "COMMUNICATING", !.game = 1]
     ELSE players[t]]

\* As if an id were drawn for the players and another for the game.
MutPairedOtherId(s, friend) ==
  [t \in DOMAIN players |->
     IF t \in {s, friend}
     THEN [players[t] EXCEPT !.state = "COMMUNICATING", !.game = created + 2]
     ELSE players[t]]

\* As if only the challenger became communicating.
MutPairedFriendStays(s, friend) ==
  [t \in DOMAIN players |->
     IF t = s
     THEN [players[t] EXCEPT !.state = "COMMUNICATING", !.game = created + 1]
     ELSE IF t = friend THEN [players[t] EXCEPT !.game = created + 1]
     ELSE players[t]]

\* The two players of a new game; a player challenging itself is only one.
Paired(s, friend) ==
  [t \in DOMAIN players |->
     IF t \in {s, friend}
     THEN [players[t] EXCEPT !.state = "COMMUNICATING", !.game = created + 1]
     ELSE players[t]]

\* handleChallengeFriendRequest.  newGame() does not enter the game in
\* m_games; for a name it does not know it returns null.  The challenge is
\* sent to the sender.
ChallengeFriendRequest(s, friendName, gameName) ==
  /\ Handles(s, "CHALLENGE_FRIEND_REQUEST", friendName)
  /\ UNCHANGED database
  /\ IF NoPlayerManager \/ s \notin DOMAIN players
     THEN CrashesAfter({})
     ELSE IF players[s].state = "COMMUNICATING"
     THEN Sends({}) /\ UNCHANGED players
     ELSE IF FindPlayerByName(friendName) = {}
     THEN /\ players' = [players EXCEPT ![s].state = "COMMUNICATING"]
          /\ Sends({Message(s, "CHALLENGE_FRIEND_RESPONSE", 3)})
     ELSE \E friend \in FindPlayerByName(friendName) :
          IF friend \notin sessions
          THEN /\ players' = [players EXCEPT ![s].state = "AVAILABLE"]
               /\ Sends({Message(s, "CHALLENGE_FRIEND_RESPONSE", 3)})
          ELSE IF gameName \notin KnownGames
          THEN CrashesAfter({})
          ELSE /\ created < MaxGames
               /\ players' = Paired(s, friend)
               /\ created' = created + 1
               /\ sent' = {Message(s, "CHALLENGE_FRIEND_REQUEST", gameName)}
               /\ UNCHANGED <<running, accepted, sessions, unstored>>

\* handleChallengeFriendResponse: m_games is empty, so the game is not found
\* and is dereferenced nevertheless, unless the player is not communicating.
ChallengeFriendResponse(s, yes) ==
  /\ Handles(s, "CHALLENGE_FRIEND_RESPONSE", yes)
  /\ UNCHANGED database
  /\ IF \/ NoPlayerManager \/ NoGameManager
        \/ s \notin DOMAIN players
        \/ players[s].state = "COMMUNICATING"
     THEN CrashesAfter({})
     ELSE Sends({}) /\ UNCHANGED players

\* handleEventDefault: any other event is for the game of the player, which
\* is not found either.
GameEvent(s) ==
  /\ Handles(s, "RC_RESULT", NoName)
  /\ UNCHANGED database
  /\ CrashesAfter({})

---------------------------------------------------------------------------
(* The process.                                                            *)

NoRequest == [from |-> 0, event |-> "NONE", arg |-> NoName]

\* The window is closed (WM_DESTROY, and the end of the message loop), or the
\* process is killed between two messages.
Stop ==
  /\ running
  /\ Ends
  /\ request' = NoRequest /\ sent' = {}
  /\ UNCHANGED database

\* The program is started again: it finds the accounts in its database.
Restart ==
  /\ ~running
  /\ running' = TRUE
  /\ request' = NoRequest /\ sent' = {}
  /\ UNCHANGED <<accepted, sessions, players, created, unstored, database>>

Init ==
  /\ running = TRUE
  /\ accepted = {} /\ sessions = {}
  /\ players = <<>> /\ created = 0
  /\ accounts = {} /\ promised = {} /\ unstored = {}
  /\ request = NoRequest /\ sent = {}

\* Session::readDone: the handler of each event.
ReadDone(s) ==
  \/ \E name \in Names \cup {NoName}, password \in BOOLEAN :
       Register(s, name, password) \/ Login(s, name, password)
  \/ GetPlayerList(s)
  \/ \E name \in Names, game \in GameNames : ChallengeFriendRequest(s, name, game)
  \/ \E yes \in BOOLEAN : ChallengeFriendResponse(s, yes)
  \/ GameEvent(s)

Next ==
  \/ \E s \in Sockets : Accept(s) \/ Close(s) \/ ReadDone(s)
  \/ Stop
  \/ Restart

Spec == Init /\ [][Next]_vars

---------------------------------------------------------------------------
(* Properties.                                                             *)

\* The type invariant of the managers, the database and the history.
TypeOK ==
  /\ running \in BOOLEAN
  /\ accepted \subseteq Sockets /\ sessions \subseteq accepted
  /\ created \in 0..MaxGames
  /\ players \in [DOMAIN players ->
                   [name : Names,
                    state : {"AVAILABLE", "COMMUNICATING"},
                    game : 0..created]]
  /\ accounts \subseteq Names /\ promised \subseteq Names /\ unstored \subseteq Names
  /\ request.from \in Sockets \cup {0}

\* Every player has a session: findSession of a player who was found by name
\* never fails (Session.cpp:202-212), for the two maps of two managers are
\* changed together although nothing ties them (MainWindow.cpp:147-157).
PlayersHaveSessions == DOMAIN players \subseteq sessions

\* Every player who is online has an account, unless this very process
\* registered it with an INSERT that failed: statements that fail, logins
\* under such a name, and a process that ends between storing an account and
\* creating its player and starts again let nobody else in without one
\* (Session.cpp:73-88, 124-131).
PlayersAreRegistered ==
  \A s \in DOMAIN players : players[s].name \in accounts \cup unstored

\* Whoever was put into a game is communicating, on both sides: none of them
\* can be challenging somebody else at the same time (Session.cpp:181-186,
\* 222-228).
GameMeansCommunicating ==
  \A s \in DOMAIN players :
    players[s].game # NoGame => players[s].state = "COMMUNICATING"

\* A game has at most the two players who were paired for it, however often
\* they challenge, are challenged again, and come back (Session.cpp:224-228).
AtMostTwoPerGame ==
  \A g \in 1..created : Cardinality({s \in DOMAIN players : players[s].game = g}) <= 2

---------------------------------------------------------------------------
(* What comments and documentation say, and the code does not do.          *)

\* SockEventDef.h:16-17: "1" in a REG_RESULT says that the registration
\* succeeded: a name that was told so is in the database.
PromisesKept == promised \subseteq accounts

\* SockEventDef.h:24-27: LOGIN has a result, which says success or failure.
LoginIsAnswered ==
  request.event = "LOGIN" =>
    \E m \in sent : m.to = request.from /\ m.event = "LOGIN_RESULT"

\* SockEventDef.h:29-34: the request for the players online has a response,
\* here for a player who is online.
PlayerListIsAnswered ==
  [][\A s \in DOMAIN players :
       request' = [from |-> s, event |-> "GET_PLAYER_LIST_REQUEST", arg |-> NoName]
       => \E m \in sent' : m.to = s /\ m.event = "GET_PLAYER_LIST_RESPONSE"]_vars

\* Session.cpp:201: "find the session of the other side, send the message to
\* the other side" (a challenge goes to the player who was named).
ChallengeReachesFriend ==
  \A m \in sent :
    m.event = "CHALLENGE_FRIEND_REQUEST" => players[m.to].name = request.arg

\* Session.cpp:264: "if the answer is yes, start the game": a player who says
\* yes to the one it was paired with is fighting.
AgreeingStartsGame ==
  [][\A s, t \in DOMAIN players :
       /\ s # t
       /\ players[s].game = players[t].game /\ players[s].game # NoGame
       /\ request' = [from |-> s, event |-> "CHALLENGE_FRIEND_RESPONSE", arg |-> TRUE]
       => s \in DOMAIN players' /\ players'[s].state = "FIGHTING"]_vars
============================================================================
