# SuperBrainServer in TLA+

SuperBrainServer is a Windows server for two-player games: clients connect over
TCP, register or log in, look for each other, and play rapid calculation
(mental arithmetic against each other). The whole server runs in the message
loop of one window: Winsock posts its events to the window (`WSAAsyncSelect`),
and every handler runs to its end before the next event. Concurrency is
therefore in the order of events of many connections, in what the network does
to a byte stream, and in a process that may end between any two events while
its database stays.

The window is drawn by duilib, a GUI library kept in the tree, whose dispatch
of window messages decides when the server starts to listen.

Paths below are under `src/SuperBrainServer/` of the repository, or under
`src/` where they begin with `duilib/`.

## Inventory

| part | state | operations | what makes it correct |
|---|---|---|---|
| Socket writer (`Socket.h`, `Socket.cpp`) | buffer, position, remaining size, READY or WRITING | `appendWriteBuffer`, `write`, called by `writeBuffer` and on FD_WRITE | the peer gets every submitted byte once and in order; a waiting writer gets going again |
| Socket reader (`Socket.h`, `Socket.cpp`) | header, body, position, remaining size, reading header or body | `read` on FD_READ, `readDone` to the session | however TCP cuts the stream, the sessions get the messages that were sent; `recv` writes inside a buffer |
| Wire format (`SockEventDef.h`, `Session::sendStringBody`) | none | one byte event id, two bytes length, body | what is encoded is decoded |
| Window (`MainWindow.cpp`) | listening socket | FD_ACCEPT, FD_READ, FD_WRITE, FD_CLOSE, WM_DESTROY | each event reaches the session of its socket, if there is one |
| Session manager (`SessionManager.cpp`) | map socket -> session | new, find, destroy | one session per connection that is open |
| Session (`Session.cpp`) | its socket | one handler per event | each request has its answer, and the answer is true |
| Players (`Player.h`, `PlayerManager.cpp`) | map socket -> name, state, game | new, find by socket or name, remove | a player has a session, and an account or a registration that promised one; its state says whether it is in a game |
| Games (`Game.cpp`, `GameManager.cpp`) | map id -> game; players of a game | new, find, remove; add player, start | a game has two players and can be found by both |
| Rapid calculation (`RapidCalculation.cpp`) | per player state, result; the two numbers | `start`, `sendQuestion`, `handleResult`, `handlePrepare` | everybody works on the same question; results are complete; the game goes on |
| Database (`DbManager.cpp`, vendored SQLite) | table `player`; statement and cursor of a query | `prepare`, `bindValue`, `exec`, `next`, `value` | what was reported as stored is stored |
| Application (`Application.cpp`, `main.cpp`) | the managers; `m_hWnd` of the main window, `m_hLstnSock` | constructor, `initialize`, `run`, `uninitialize`, destructor | every manager a handler asks for exists; it listens once; closing the window ends it in order |
| Paint manager (`duilib/Core/UIManager.cpp`) | tree of controls; focus, hover, click, key; capture; timers; queued notifies; delayed cleanup | `MessageHandler`, `SetFocus`, `AttachDialog`, timers, `SendNotify`, `ReapObjects` | no pointer is left to a control that is deleted, whatever handlers of events do |
| duilib's controls (`duilib/Control`, `Layout`, `Utils`) | their own | painting, layout, XML, images | - |
| Conversions, logging | - | `StringUtil`, `Logger`, `DuiManager`, log4cplus | - |

How they interact: Winsock's events arrive at the window, which finds the
session and calls its socket's reader or writer; a complete message is a
callback into the session, whose handler changes players, games and rows and
answers through a writer, its own or another session's. A close destroys the
session and the player. The two maps (sessions, players) belong to two managers
and are tied only by the handlers. The main window starts to listen when the
paint manager, on the first `WM_PAINT`, tells it "windowinit"; the message loop
asks for messages of the main window's handle until that is NULL.

What is hard: byte streams cut anywhere, sends that are refused or partial, a
second frame before the first is out, requests in an order nobody expects
(challenge while in a game, list before login, second login), players leaving
in the middle of a round, barriers among several players, null results of
`find...` that are dereferenced, a process that ends and starts again on its
database, messages still in the queue for a session that is gone, a query that
is used again after any failure, clients that do not keep to the game's
protocol, a start that fails half way, handlers of events that delete what they
are called for. The list `hazards` of `PROJECT.json` gives each of these at its line.

## Modules

| module | models |
|---|---|
| `SocketWriter` | class `SocketWriter`, `Socket::writeBuffer`, FD_WRITE; Winsock's `send` and the peer are external |
| `SocketReader` | class `SocketReader`, FD_READ; the peer and TCP are external |
| `MessageChannel` | abstract: messages sent are delivered once, whole, in order, until the connection breaks |
| `Server` | the queue of socket messages, `MainWindow`'s handlers of them, the map of sessions; several connections at once |
| `Connections` | abstract: each connection is taken, each request handled once, and nobody let go too early |
| `Lobby` | window, sessions, players, accounts, pairing, and the life of the process |
| `RapidCalculation` | class `RapidCalculation` and `Game::start`, with clients and connections |
| `RoundBarrier` | abstract: two barriers per question |
| `StrayGame` | the same class among clients that do not follow its protocol |
| `SqliteQuery` | classes `Sqlite`, `SqliteQuery`, `Variant`, called in any order |
| `Application` | the process from `WinMain` to its end, with window and listening socket |
| `PaintManager` | duilib's `CPaintManagerUI`: events, focus, capture, timers, notifies, the life of controls |
| `MCSocketReader`, `MCPaintManager` | messages, and a tree of controls, for checking |
| `SocketWriterProofs`, `SocketReaderProofs`, `ServerProofs`, `LobbyProofs`, `RapidCalculationProofs`, `SqliteQueryProofs`, `ApplicationProofs`, `PaintManagerProofs` | theorems |

Three modules are shown to implement an abstract one, by TLC and by proof:
`SocketReader` implements `MessageChannel`, `Server` implements `Connections`,
and `RapidCalculation` implements `RoundBarrier`. The modules overlap where one
takes over what another has established: `Server` receives whole requests
because `SocketReader` implements a channel, and knows of a writer only whether
it waits; `Lobby` has a handler's effects where `Server` only has that it
writes; and `Application` only knows that connections are accepted.

### SocketWriter

`writer` is the object: `buf` (`m_buf`, empty for null), `pos` (`m_writePos` as
an offset), `remain` (`m_remainSize`), `state`. `m_size` is never read and left
out. A byte is its number in the stream of all bytes ever given to
`writeBuffer`, so that a lost, doubled or foreign byte can be seen on the wire.
`AppendWriteBuffer` and `Sent` are the two functions of the class on such an
object; in particular the remaining size after an append to a backlog is the
size of the *new* frame, because `clear()` zeroes it before it is added, and a
refused `send` (-1) moves the position back by one and adds one to the size.
`disturbed` is history: a send was refused or a frame met a backlog.

Winsock: `send` is refused when `Capacity` bytes or more are in flight, and
otherwise takes the whole request or (with `PartialSends`) a part; FD_WRITE is
posted once after `accept`, and then only when room comes back after a refusal.

### SocketReader

`reader` is the object: state, the three header bytes, the body, position and
remaining size. `read` is split into the branches it has: a part (`ReadPart`),
a complete header that announces a body (`ReadHeader`) or not
(`ReadEmptyMessage`), a complete body (`ReadBody`), and a failed `recv`
(`ReadFails`), whose -1 goes into the counters. `recv` returns as much as has
arrived and fits. Bytes have `ByteBase` values (256 in the code); the length is
two such digits, low one first. A frame whose body is too long for its length
field is not sent by the modelled peer.

### RapidCalculation

`resultInfos` is the map of the class, as a function on the players that have
an entry; `question` counts the questions and stands for the two random
numbers, and a result is the number of the question it answers, so an answer
to an old question would be seen. Clients are external and follow the
protocol; each connection is FIFO in both directions; a player may leave at any
time, which takes its session, its player and what was under way, and the game
whose id the player has (`removeGame`, MainWindow.cpp:155). That is this game
(`gone`), or, for a player who was challenged into another one meanwhile
(Session.cpp:226) or logged in again, not; then the game stays without it.
The process ends (`crashed`) where a null pointer is used: `Game::start` with a
missing player or for a game that is gone (`StartCrashes`), an event for a game
that is gone, an RC_RESULT without a body (`EventCrashes`). `client` and
`online` are the variables of `RoundBarrier`, to which the game maps directly.

In the program as committed `newGame` enters no game in `m_games`, so every
game is `gone` from the first: the first event ends the process. The other
behaviours of the module are what the class does once games are entered: what a
repair of the program around it will rely on.

### Lobby

One action per event or request: `Accept`, `Close`, `Register`, `Login`,
`GetPlayerList`, `ChallengeFriendRequest`, `ChallengeFriendResponse`,
`GameEvent`, and `Stop`, `Restart` for the process. Each is the whole handler
with its early returns in their order. Where the code dereferences null, the
action ends the process (`CrashesAfter`): memory is lost, `accounts` stays.
Statements fail as the handlers let them: a SELECT that fails finds nothing
(`Found`), and an INSERT that fails, for want of space or because the name,
the primary key, is there already, is not noticed (`Inserts`). The process may
be killed between requests (`Stop`) and, in a registration, before the reply or
between the reply and the new player. `request` and `sent` keep what the last
step handled and sent; `promised` the names that were told their registration
succeeded, `unstored` those whose INSERT failed in this process. A game is its number;
`m_games` needs no variable: `newGame` never enters anything, so `findGame`
finds nothing and `removeGame` removes nothing.

`Managers` says which of its two missing managers the Application owns. The
constructor creates neither: `{}` is the program as committed. With both, the
model shows what the classes do when they get the collaborators they are
written for; almost all of Lobby is reachable only then.

### Server

`queue` holds the WM_SOCKET messages as `MainWindow` will get them, each with
the handle and, for the properties only, the connection Winsock means by it.
`owner` says which connection a handle stands for, `sessions` is `m_sessions`
with the state of each session's writer, `net` is the peer's side: is it there,
how many requests wait to be read, is there room for a frame, does Winsock owe
an FD_WRITE. Each handler (`OnMsgSocketAccept`, `OnMsgSocketRead`,
`OnMsgSocketWrite`, `OnMsgSocketClose`) takes the oldest message; the early
returns are actions of their own (`AcceptFails`, `ReadFails`). A request's
handler writes to nobody, to its own session or to all there are. A frame is
taken whole, in part or refused. What happens to its bytes is `SocketWriter`'s
matter; here a writer is READY, or waits because it was `REFUSED` or because a
`PART` was taken. The code has one state, WRITING, for the last two, but
Winsock owes an FD_WRITE only after a refusal: of the other writer nothing is
promised, and what is given to it later waits with the rest.

The handlers of FD_READ and FD_CLOSE use what they look up without asking
whether it was there, and what they look it up in: `m_playerManager` is never
set (Application.cpp:12-20), so the program as committed ends at its first
FD_CLOSE (MainWindow.cpp:151). `Lobby` has when a handler crashes; here any of
them may, and `crashed` ends the behaviour. So what `Server` says holds of the
program as it is and of one that has its managers: progress
(`RequestsAreHandled`, `SessionsEnd`) as long as the process lives, and
`ServesConnections` up to its end. `Connections` allows that end while a request
is handled, while somebody is let go, and, for OnMsgSocketWrite reports a
session that is missing and then uses it (`WriteCrashes`), after somebody was
let go who had finished: it takes a peer that finished sending while a send to
it was refused, for FD_CLOSE then comes before FD_WRITE. It does not allow it
when somebody connects.

Only the listening socket is ever closed: a handle is never given out again, so
late messages cannot reach a session of somebody else (a mutant that closes
handles breaks this), but once the handles are used up, connections wait for
ever (`RequestsAreHandled` has to except them). Handles are only compared, so
`accept` returns any one that is free, by CHOOSE.

### SqliteQuery

`query` is the object: `conn` (`m_connection`, copied when the query is made),
`stmt` (`m_stmt`: none, or prepared and with which parameter), `result`, `iter`
as an index (one behind the last row for `end()`), `first`
(`m_fetchFirstResult`). `connection` is Sqlite's own `m_connection`; `alive` are
the handles sqlite has not closed, and `open` counts, for each, the statements
that were not finalized. All calls may come in any order; sqlite may refuse a
statement, give any rows and stop with an error after any of them, and binding
or executing what was refused, as the handlers do (Session.cpp:70-72, 80-83,
121-123), does nothing. What the class leaves undefined - preparing with a
connection that was closed, moving an iterator past the end, reading where there
is no row, the type of the copy of an unknown `Variant` - sets `undefined`.
`careful` is history: the caller has kept the six rules that `handleRegister`,
`handleLogin` and `DbManager` keep without saying so; the module's head lists
them. That prepare() and exec() are looked at is not among them. The properties
are about careful callers. A row has one column.

### StrayGame

Extends `RapidCalculation` with players who send results, with or without a
body, and prepares when they like (`Strays`), also before `start()` was called:
`Session::handleEventDefault` hands every event to the game its player is in.
Honest players follow the protocol. `early` notes that an event was handled
before the start, `leftAt` the question at which a player left. Half of what it
shows is a limit: a lone RC_PREPARE before the start is a round of its own and
spoils the first question, and a player who leaves ends the game for the others:
either the game goes with it, and their next event ends the process, or it stays
with the leaver's entry and they wait without being told.

### Application

`pc` is where `WinMain` is; one action per step of start and end, with a
failing one where the code asks whether a call failed, and one action per
message of the loop. `GetMessage` gives posted messages first, then WM_QUIT,
then WM_PAINT, and for a handle that is no window's it returns -1, on which
`run` returns without `uninitialize`. `Paint` is duilib's: with a root and for
the first time it sends "windowinit", in which `OnNotifyWindowInit` starts
Winsock and listens, or fails at one of its five steps and leaves behind what
it had opened. `HandleAccept` may fail in `accept()`. The end is one action per
object that `uninitialize` ends (`CloseDatabase`, `ResetDbManager`,
`ResetDuiManager`, `ResetLogger`), and each logs, which takes a logger
(`LogsAndGoesOn`). `DestroyApplication` destroys the members in the reverse order
of their declaration: after a failed start the logger goes before the database
that logs in its destructor, and what happens then is left open.

### PaintManager

The state is the tree of controls (`state`, `root`), the controls the manager
remembers between messages (`focus`, `hover`, `click`, `key`), `captured`,
`timers`, queued `notify`, and the number of cleanups posted. What makes the
class hard is that code of the application runs in the middle of its handlers:
`Event` of a control, or a listener's `Notify`. So a handler is a program of
instructions on a stack. `Handler`, `Pointing`, `Reacting`, `Focusing` and
`Moving` are the branches of `MessageHandler` and `SetFocus` as such programs, in the
order of the code's calls and assignments; while the next instruction is
"tell", the application may remove and add controls, replace the dialog, move
the focus, start and kill timers, send notifies, and dispatch further messages,
each of which goes on top. What a container that delays removes
(`AddDelayedCleanup`) is out of the tree at once and deleted by the message
`WM_APP + 1`; one without `m_bDelayedDestroy` (`AtOnce`) deletes it where it is
(`DeleteControl`). `Misused` is a control that is deleted and about to be called
nevertheless; nothing happens after that. There is one place where the code
goes on before it calls: `SetFocus` looks at the new control after the handler
of KILLFOCUS of the old one, which may have deleted it, and sets `m_pFocus`
before it sends the event (`TakeFocus`).

Left out: painting and layout with the list of layouts that are painted last,
tooltips, native child windows, messages Windows sends for its own focus,
WM_SETCURSOR (an event to the control under the mouse, of which no pointer is
kept), `PreMessageHandler` (shortcuts and the tab key, which end in `SetFocus` or
`Event`), containers that do not own their controls (`m_bAutoDestroy`, set by a
combo for what it drops down), a dialog that is attached while it is being
attached (`AttachDialog` would queue it for deletion and keep it as root), and
Windows' timer ids (a WM_TIMER is for any timer that runs, or for none).

## Runs

Passing:

| run | bounds | shows |
|---|---|---|
| `writer_safety` | frames of 2 and 3 bytes, capacity 4, 9 bytes, partial sends | `ReadyIffDrained`, `IntactUntilDisturbed`, `NothingOvertaken` |
| `writer_live` | the same frames, capacity 2, whole sends | `EventuallyReady` |
| `reader` | 3 messages with bodies of 0, 1 and 3 bytes over 2-valued bytes, any pieces, resets | `RecvStaysInBuffer`, `DeliversMessages`, `DeliversAllMessages` |
| `game` | 3 players, 2 questions, leaving at any time | `PhasesNeverOverlap`, `FinalsAreComplete`, `KeepsPlayersTogether`, `GameGoesOn` |
| `lobby_safety` | 3 sockets, 2 names, 2 games per process | `PlayersHaveSessions`, `PlayersAreRegistered`, `GameMeansCommunicating`, `AtMostTwoPerGame` |
| `server` | 3 clients, 2 handles, backlog 2, 2 requests | `EventsReachTheirConnection`, `NobodyWaitsInVain`, `ServesConnections`, `SessionsEnd`, `RequestsAreHandled` |
| `query` | 2 values, answers of up to 3 rows, 2 open statements per connection, 2 connections | `CarefulUseIsDefined`, `GivesTheAnswer`, `ValueIsOfTheRow`, `ClosingCloses` |
| `stray` | 3 players, one of whom strays, 4 of its messages, 3 questions | `HonestInStep`, `FinalsAreTrue`, `LeaversEndTheGame` |
| `app` | the window minimised twice, 3 connections | `OneListener`, `EndsInOrder`, `ClosingEnds`, `ShowingListens` |
| `paint` | a dialog with a container and another with a control; what the container holds is deleted at once; 2 calls of the application, 2 handlers on the stack, 1 notify queued | `KeptTargetsLive`, `DelayProtects`, `CaptureIsReleased` |

`writer_safety`, `reader`, `game` and `lobby_safety` also check their module's
`TypeOK`; those of `Server` and `SqliteQuery` are proved. The largest runs have 2.6 million
distinct states (`paint`), 2.2 million (`stray`), 1.0 million (`lobby_safety`) and
650,000 (`server`). Deadlock is not checked: every model comes to rest when its bound is
reached, and a server whose clients are silent stands still.

Why the bounds are enough. Writer: nine bytes are three or four frames, so a
frame meets a backlog whose first frame is partly sent, and then again; the
capacity lies between one frame and two, so that sends are whole, partial and
refused. Reader: two-valued bytes make a body of three bytes need both length
bytes; three messages in a row give pieces with the end of one and the header
of the next, and three of them let an error in one message show in the two
after it. Game: with three players a barrier can be half full, and still be
when one leaves; two questions make a stale entry of the first visible in the
second. Lobby: three sockets for two names give a duplicate login, a third
player who challenges one of a pair, and a pair that stays when another goes;
two games are enough for a player to be moved from one to the other. Server:
more clients than handles use the handles up, and two that wait need a second
FD_ACCEPT; two requests of one client leave one unread after the first, and one
request each gives a handler that writes to a session whose end is already in
the queue. Query: three rows have a first, an inner and a last one; two open
statements let one be forgotten, two values tell rows apart, and with two
connections a query can have the one that was closed. Stray: with
two honest players one can be ahead of the other; four messages of the stray
are a result and a prepare in two rounds, or before the start; the third
question shows what is left of the first two. App: a window can be minimised
before its first painting and after, and three connections come before, with
and after one another's acceptance. Paint: two calls are what it takes to
delete a control in a handler (one removes it, the other dispatches the cleanup)
or to replace the dialog while another handler runs; a deeper stack repeats the
same handlers, and the proofs have neither bound.

The bounds `MaxSubmitted`, `MaxMessages`, `MaxRounds`, `MaxGames`,
`MaxRequests`, `MaxStrayed`, `MaxRows`, `MaxOpen`, `MaxMinimised`,
`MaxConnects`, `MaxDepth`, `MaxNotify` and `MaxCalls` are guards named as such;
the program has none of them.

Violated. In these runs a comment or the description of the protocol says
something that the code does not do; each is an entry of `findings`:

| run | property | what happens |
|---|---|---|
| `writer_truncated` | `FramesArriveIntact` | a frame is appended to a backlog and only as many bytes as it has are sent of both |
| `lobby_login` | `LoginIsAnswered` | a correct login ends the process before the reply: no PlayerManager |

`lobby_login` has `Managers = {}`, the program as it is.

Further disagreements of the same kind can be seen with configurations that are
kept beside the modules; TLC finds the property violated in a few steps. The
four of `Lobby` have both managers, so that they show what remains to be
repaired once `LoginIsAnswered` holds; the reply of `LobbyInsert.cfg` is sent
before a manager is used.

| configuration | property | what happens |
|---|---|---|
| `SocketWriterRefused.cfg` | `FramesArriveIntact` | `send` returns -1 and is counted as bytes (Socket.cpp:103): the byte before the buffer goes out |
| `LobbyInsert.cfg` | `PromisesKept` | a failed INSERT is answered as success: the handler does not look at what `exec` returns, which is true in any case (Session.cpp:83, DbManager.cpp:189), where SockEventDef.h:17 has a result for failure |
| `LobbyList.cfg` | `PlayerListIsAnswered` | one connection that has not logged in ends the process when a player asks for the list (Session.cpp:151) |
| `LobbyChallenge.cfg` | `ChallengeReachesFriend` | the challenge goes back to the challenger (Session.cpp:231) |
| `LobbyAgree.cfg` | `AgreeingStartsGame` | agreeing to a game ends the process: `newGame` never enters it in the map (GameManager.cpp:12), so it is not found |

## Fairness

Safety properties need none. `SocketWriter!FairSpec`: the message loop handles
an FD_WRITE that is in its queue (`Application::run` dispatches every message),
and the peer keeps reading. `SocketReader!FairSpec`: bytes that were sent
arrive, and an FD_READ in the queue is handled; on a connection that is reset
nothing is promised. `RapidCalculation!FairSpec`: the loop handles what arrived
from each player, and each client plays on; nothing is promised once a player
has left: the game may be gone, or the rest may wait for ever, for the entry of a
player who left while calculating is never DONE. `EventuallyReady` is stated for
sends that are taken whole: after a *partial* send nothing was refused, Winsock
owes no FD_WRITE, and the writer waits until something else wakes it.

`Server!FairSpec` asks one thing, that the loop takes the messages of its queue
(`MessageLoop`), and nothing of the peers: the exceptions in
`RequestsAreHandled` are the ways in which a peer, the end of the process, or the
lack of handles can keep a request from being handled. `Application!FairSpec` likewise has the
thread run (`Program`); the user need not close the window and nobody need
connect.

## Proofs

Every theorem is for all values of the constants that the modules' assumptions
allow; the bounds on frames, rounds, games, rows, handlers and calls are
arbitrary natural numbers.

**SocketWriterProofs.** `WriterTypeCorrect`, `WriterReadyIffDrained`,
`WriterIntact`, `WriterNothingOvertaken`. `IntactUntilDisturbed` speaks of the
pending bytes, so the inductive invariant adds `Window`: until something was
refused or met a backlog, position plus remaining size is the length of the
buffer. With `ReadyIffDrained` a frame then meets an empty buffer, and the lemma
`SentPending` says that what `send` took and what is left are what was pending.
`NothingOvertaken` holds even after a refusal has moved the position back, and
needs `OrderInv`: the buffer, like the wire, is in order and has no byte that was
not submitted (`Ordered`, `UpTo`), and nothing in it from the position on comes
before what was sent (`Behind`). That two refusals in a row never move the
position back twice is due to Winsock (`NoRefusal`): FD_WRITE comes when there
is room, and until then nobody sends.

**SocketReaderProofs.** `ReaderTypeCorrect`, `ReaderStaysInBuffer`,
`ReaderDeliversMessages`: the reader implements `MessageChannel`, for any
messages, any number of values of a byte, any cutting of the stream. The
invariant says that the bytes the reader holds, those that have arrived and
those on the way are together the frames of the messages sent and not
delivered. That is a recursive statement; `IsFrames` states it by the places
where the frames start. While a header is incomplete nothing is known about its
length; `LengthDigits` shows that the two bytes of a complete one give the
length of the body that follows, so the body is complete exactly where the next
frame starts. A failed `recv` makes the counters meaningless, but only after a
reset, when nothing is delivered any more.

**ServerProofs.** `ServerTypeCorrect`, `ServerEventsReach`, `ServerNobodyWaits`,
and `ServerServes`: the message loop implements `Connections`, for any clients,
handles, backlog and number of requests. The invariant relates queue, sessions
and connections. Each message has the connection of its handle, which no other
connection has; an FD_CLOSE is about somebody of whom nothing more is to be read
(`Sound`); and an FD_WRITE that will not find its session, because the session
is gone or an FD_CLOSE for it comes before, is about somebody who has finished
(`Late`). The last is what `Connections` says of that crash; the crash of an
FD_CLOSE is a release, because no connection has two of them in the queue
(`ClosedOnce`), so its session is there. `ServerNobodyWaits` is about refused
sends; a writer of which a part was taken is in the invariant as one of whom
nothing is owed. A session that ends early is excluded by `SessionsOK`, a
request that is lost or handled twice by counting: what was asked was handled or
is unread (`ClientOK`). The lemmas say what posting a message (`QueuePost`),
taking one (`QueueTail`) and a step of a peer (`QueueKeeps`) leave of the
invariant of the queue; then there are one lemma per action for the invariant,
and one for the step of `Connections` it maps to.

**RapidCalculationProofs.** `GameTypeCorrect`, `GamePhases`, `GameFinals`, and
the refinement `GameKeepsPlayersTogether`. The inductive invariant says, for
each player who is there, in which of eight situations it is: where its client
stands, which single message is under way in which direction, and what its
entry in `m_resultInfos` says. The eight form a circle, and all players who are
there are in the same half of it, so the last DONE or PREPARED, and only it,
opens the barrier. A crash changes nothing that a player sees, and who leaves,
with the game or without it, only leaves fewer players to say this of. The
refinement follows: each client step that the barrier guards is enabled only by a message
that the server sends when the abstract guard holds; every other step is a
stutter.

The second part of the module is about `StrayGame`: `StrayHonestInStep`,
`StrayFinalsAreTrue`, `StrayLeaversEndTheGame`, for any players, any of them
strays. Every result a stray sends while all entries are DONE makes the server
send the results again, so queues grow without bound and the eight situations no
longer list what a queue holds. `HonestCircle` says of a queue that it has only
results of the question (`OnlyFinals`), or such results and at the end the next
question (`FinalsThenStart`); the honest players are again all in one half of
the circle, and the results have the answer of each of them because each was
waiting when they were put together. All this needs that nothing came before
`start()`. If something did, a second question may be sent before the first is
answered, and nothing about rounds is left. What remains is what an honest
player has under way to the server and what it still owes for its queue.
Counting only results (R) and prepares (P) these are two words out of six
(`Words`, `SaidIs`, `Owes`), and the entry decides which pairs can come up
(`Possible`). `HonestStand` is that; it is kept because a prepare is the last
thing a player says before it is asked again (`Fits`). `LeaversEndTheGame`
follows from it through `LeaverInv`: if the game is gone, no question is asked and
no result sent any more; if it is there, the entry of the player who left it no
longer changes. Is it not PREPARED, no question is asked any more. Is it PREPARED, one
question may be asked; after it no results are sent, every honest player is in
one of the pairs from which no prepare can come (`Barren`), and the honest
player's own entry then keeps the question after that from being asked. That is
why the property asks for an honest player to be there. TLC has confirmed the
three invariants, over the instance of `StrayGame.cfg`, before they were proved.

**LobbyProofs.** `LobbyTypeCorrect`, `LobbyPlayersHaveSessions`,
`LobbyGameMeansCommunicating`, `LobbyAtMostTwoPerGame`,
`LobbyPlayersAreRegistered`, for any connections, names, games and `Managers`,
with statements that fail and a process that ends at any time. The last rests on
no row being lost (`DatabaseGrows`) and on the players being lost with the
names whose INSERT failed. `AtMostTwoPerGame` is not inductive, and a count is hard to
carry through a step; `GamesArePairs` says instead that two sockets cover the
players of each game. It is kept because ids in use are at most `created`
(part of the type invariant), so a new game starts without players, and because
an older game can only lose players. The proof has one lemma per shape of
step (the process ends, nobody enters a game, a player is created, two players
are paired) and one per action. `PlayersHaveSessions` is also what makes the
branch of Session.cpp:212-220, a friend without a session, unreachable.

**SqliteQueryProofs.** `QueryTypeCorrect`, and for careful callers
`QueryCarefulUseIsDefined`, `QueryGivesTheAnswer`, `QueryValueIsOfTheRow`,
`QueryClosingCloses`. A query that has a statement has no rows
(`FreshStatement`), so `exec` appends to nothing; the rows are the answer
(`RowsOfAnswer`); cursor and `m_fetchFirstResult` agree with what `next`
returned last (`CursorAgrees`); and a careful caller has nothing open but the
connection at hand, which is the query's own when it has a statement, and that
statement (`NothingLeftOpen`).

**ApplicationProofs.** `AppOneListener`, `AppEndsInOrder`. The invariant adds
that nothing is there before the window is created, that `m_hWnd` tells the
truth about the window and Winsock about its sockets, that once WM_QUIT was
asked for, window and sockets are gone, and how far the end has come
(`Progress`): up to its last step there is a logger.

**PaintManagerProofs.** `PaintKeptTargetsLive`, `PaintDelayProtects`,
`PaintCaptureIsReleased`, for any tree of controls, any containers that delete
at once, and any depth of handlers. The first is inductive with the types, up to
the focus that `SetFocus` gives to a deleted control: no step follows that
(`Stuck`). The second is about the next instruction only, and has to be
strengthened to the whole stack: no handler still has to do with a control that
the cleanup deleted (`StackLives`). As long as no handler dispatches messages,
the cleanup runs only as the outermost handler, after which that does nothing
with any control (`Settled`). With nested message loops it fails: `hover` and
`click` are set after `Event` returns (duilib/Core/UIManager.cpp:851, 906, 946),
when the control may be gone; that is why the property excludes them, and why
`KeptTargetsLive` does not speak of these two. `CaptureIsReleased` is about the
time between two messages, when the stack is empty; while handlers run, capture,
click and release are in any order. Its invariant `MouseInv`, with no message
loop in a handler, therefore speaks of the mouse and of what the handlers on the
stack have still to do with it (`Plan`): whoever captured the mouse, or is about
to, has clicked a control or will, and whoever is to clear `m_pEventClick` has
released the mouse or will first (`Matched`). It is kept because only the
outermost handler has to do with the mouse, and handles one mouse message
(`TidyStack`).

Every safety property that a run checks is a theorem, the invariants as well as
the three refinements. Only model-checked is liveness
(`EventuallyReady`, `DeliversAllMessages`, `GameGoesOn`, `SessionsEnd`,
`RequestsAreHandled`, `ClosingEnds`, `ShowingListens`), which needs fairness and
ENABLED. The violated properties are refuted by TLC's traces.

## Not modelled

By lines most of the repository is not the server: SQLite's header and shell,
log4cplus, and duilib's controls, layouts, XML, zip and image code. These are
third-party code, and the server uses duilib for one window with a few
controls. Of duilib the module `PaintManager` has the part whose correctness is
a matter of order, the dispatch of events and the life of controls; the rest of
it draws and computes sizes. SQLite is modelled as its callers see it
(`SqliteQuery`, and as a set of names in `Lobby`).

Of the server itself: `StringUtil` (code page conversions and GUIDs: abstracted
to names and numbers), what is logged, `DuiManager` (paths, set once), `Variant`'s
conversions of numbers. Memory that is never freed (a half-read body, handles
of closed connections beyond their number) has no effect on behaviour and no
model. The content of bodies beyond what handlers branch on, a body longer than
its length field can say, the time a player took, and number formatting are left out.

## Plan

Modelled first was what every feature rests on, the two halves of a connection,
then the game and the lobby; then the composition of several connections, the
database, the game among strays, the life of the process, and the GUI's
dispatch. What is left, in this order:

1. `Codec`: bodies as the handlers build and cut them (the separator that is
   missing or in a name, the length of a body in 16 bits, RC_START's 32 bytes
   where SockEventDef.h:46 says two UINT16), as pure operators against a
   reference definition.
2. `CStdStringPtrMap` (duilib/Utils/Utils.cpp), by which controls are found by
   name, against a function as its specification.
3. The rows of the table `player` with their passwords, where `Lobby` has names
   only.
