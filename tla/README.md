# A formal model of the Gomoku backend

These modules model the server of this repository: the rules engine, the rooms,
the packet handlers, the maps between sessions, users and rooms, and what is
pushed to the clients; below them the frames, the encoding of packets, the
sessions of the network layer and the timers; and beside them the ratings with
their database and the computer player.  TLC checks them on small instances and
TLAPS proves the main results for every board size, winning length, number of
users, connections, sessions, frames and tasks.

## 1. The system

The program (`src/src`) is a single process.  `main.cpp` creates the objects and
connects them: the receive loop of `Server` turns bytes into frames and frames
into packets, hands each packet to `Handler`, which acts on `ObjectManager` and
on the `Room` and `Game` objects it owns; rooms publish events on the `EventBus`,
`Notifier` turns events into packets for the members of the room, and
`Server::SendPacket` writes them to sockets.

    socket -> Server -> Frame -> Packet -> Handler -> ObjectManager -> Room -> Game
                 ^                                                      |
                 +-------- Notifier <----------- EventBus <-------------+

All of this happens on one thread, one packet at a time, including the events
(`Publish` calls its subscribers before it returns).  The only other threads are
the two workers of `TimeTools` (time wheel, timers).  The worker of the time wheel
runs `Server::CleanUp` next to the receive loop, without a lock.  `ObjectManager`
loads all users from the `Database` when it is made and inserts those who register.

| Component | State | Operations | What makes it correct |
|---|---|---|---|
| Game | size, board, stack of moves, last move | makeMove, undoMove, reset, checkWin, isBoardFull | the three copies of the game agree; both win checks answer by the rule |
| Room | status, owner, two seats, player list, a game | AddPlayer, RemovePlayer, EditRoomSetting, SyncSeat, StartGame, MakeMove, Draw, GiveUp | seats belong to players; a game ends with the first line; every change is announced |
| ObjectManager | users, rooms, session <-> user, user -> room | create, look up, map, unmap | the maps agree with each other and with the rooms |
| Handler | none | one per message type | only a logged-in player of that room changes a room |
| Notifier | subscriptions | one per event | who hears of a room is in it, and knows it |
| EventBus | subscribers, a shared mutex | Subscribe, Publish | every event reaches its subscribers; no deadlock |
| Server | sockets, buffers, sockToId, idToSession | connect, disconnect, frame, heartbeat, clean-up | a session belongs to one connection; silent sessions are cleaned up; the server goes on as long as none is |
| Frame | a byte buffer per socket | ReadStream | every frame comes out once, however the bytes are cut |
| Packet | message type, parameters | AddParam, ToData, FromData, GetParam | what is written is read back; it is known which cut packets are noticed |
| TimeTools | queue, cancellation map, wheel, two workers | add, repeat, cancel, start, stop | no task is lost, a cancelled one never runs, stop returns |
| User | score, rank, counters | UpdateScore, UpdateRankByScore, Load, Save | memory and table agree; the rank follows the score |
| AiPlayer | size, colour | evaluateBoard, minimax, getNextMove | pruning does not change the answer |
| Database | a connection | Execute, Query | calls into SQLite: what they do to users is modelled, the calls are not |
| Crypto, Logger | none | | stubs that return fixed answers; output |

The behaviours that are hard to test: the order of packets from several clients
(logging in twice, leaving during a game, joining a second room); state kept in
two places (session maps, room membership, board and move stack); the win check
that looks only around the last stone; descriptors reused by the operating
system; the clean-up of sessions on a second thread; cancelling and stopping
timers; frames that arrive in pieces; events that are dropped because of the types
of their arguments; database calls that fail, and a process that dies, between the
writes of one operation.  `PROJECT.json` lists each at its line.

## 2. Modules

| Module | Models | Form |
|---|---|---|
| `Game` | `game/Game.cpp` | operators on a record with the fields of one game; and the rule of the game, stated without the code's walk |
| `GameSpec` | one game and a caller without manners | state machine |
| `Room` | `game/Room.cpp` | operators on a record with the fields of one room: `OpOk` (false on every `return false` path), `Op`, `OpEvents` |
| `Match` | what a room promises its players | abstract state machine |
| `RoomSpec` | one room and its users | state machine; implements `Match` |
| `ObjectManager` | `core/ObjectManager.cpp` | the variables of the server and one operator per method |
| `Handler` | `core/Handler.cpp` | state machine, one action per message type; composes `ObjectManager`, `Room` and `Game`; each room implements `Match` |
| `PoliteHandler` | what clients must refrain from | `Handler` restricted to such clients, and the claim of the header about the session maps |
| `Notifier` | `core/Notifier.cpp`, the dispatch of `utils/EventBus.hpp` and the events of `Handler` | `PoliteHandler` with the pushes of each packet |
| `UserStore` | `CreateUser` and the loading of `core/ObjectManager.cpp`, `game/User.cpp`, their use of `data/Database.cpp` | state machine with failing calls, crash and restart |
| `AiPlayer` | `game/AiPlayer.cpp` | state machine of a game against it; the search is a recursive function of the depth, next to plain minimax |
| `Packet` | `core/Packet.cpp` | composing a packet is a state machine, reading it an operator |
| `FrameStream` | `network/Frame.cpp` and the loop of `Server::HandleClient` | state machine, one step per pass of the parser's loop |
| `Server` | the sessions of `network/Server.cpp`, and the time wheel of `utils/TimeTools.hpp` | state machine of two threads |
| `Timers` | what a timer promises its caller | abstract state machine |
| `TimerEngine` | the timers of `utils/TimeTools.hpp` | state machine of three threads; implements `Timers` |
| `MCHandler`, `MCNotifier`, `MCUserStore`, `MCAiPlayer`, `MCPacket` | | symmetry sets and values of constants for TLC |
| `GameLemmas` | | facts about the operators of `Game` and `Room` |
| `GameProofs`, `RoomProofs`, `HandlerProofs`, `LoopProofs` (`FrameStream`, `Packet`, `AiPlayer`), `UserProofs`, `TimerProofs`, `ServerProofs` | | proofs |

How state and actions correspond to the code:

* `Game`: the record fields are the members of class `Game` (`blackTime` and
  `whiteTime` are set to 0 and never read: left out).  `std::stack` is a sequence
  whose last element is the top.  The literal 5 of `checkWin` is the constant
  `WinLength`, so that small boards have lines.  `countLine`, a loop that walks
  until it meets the edge or another colour, is the number of steps k such that
  the whole way to k has the colour.  Callers may name cells outside the board
  (`Targets`): the bounds test of `makeMove` is part of the model.
* `Room`: the seats, the owner and the status keep their names; `NoUser` is the
  id 0.  Each action of `RoomSpec` is one call, with everything it changes and
  everything it publishes; `published` holds the events of the last call in the
  order of the `Publish` calls.  `Room::boardSize` always equals the size of the
  game.  The settings other than the board size are never read by the server.
  The branch of `SyncSeat` for `userId == 0` cannot be reached (0 is never a
  player) and `BackMove` always answers "Not implemented": neither is an action.
* `ObjectManager`: the maps keep their names.  A map is a total function and an
  absent entry has the value the lookup method returns for it (0, written
  `NoUser`, `NoSession`, `NoRoom`).  `MapSessionToUser` and `UnmapSession` write
  exactly the entries the code writes, which is where the maps part ways.
* `Handler`: a packet that is answered with an error changes no object and is not
  a step.  Queries are not steps either.  `UndoMove`, chat messages, settings without
  a usable board size, and `Draw` with `Accept` or `Reject`, are answered with success
  and change nothing; those of them that publish something are steps of `Notifier`.  A guest has an id and
  no `User` object, as in the code, so every handler but the authentication
  refuses it.  `ExitRoom` only erases the entry of the map.
* `Notifier`: every step is one packet together with the events that it makes the
  server publish, in the order of the `Publish` calls, each with the C++ types of
  its arguments.  `Heard` is the comparison of the argument tuples in `exec`: an
  event of other types is skipped.  Packets that change no object but publish
  something are steps here: a chat message, settings without a usable board size
  (`EditRoomSetting` publishes them all the same), the acceptance of a draw; and
  `ExitRoom` publishes `PlayerLeft` itself.  Where the code looks sessions up while it
  publishes, the maps are already those after the packet (primed); the one place
  where they are not is the `RoomCreated` of `ObjectManager::CreateRoom`, which
  comes before anybody is in the room and so reaches nobody.  `view` is a history
  variable: per session of `Watched`, what the pushes since the login have told it: the
  rooms they were about, the seats, the number of players, whether a game is on, the
  stones, the status that `SyncGame` gave, and the two lists.  It is not what one
  particular client stores; it is what a client can know that applies each push in
  order.  The push for a draw has the action "request" and is taken as that
  (`DrawAsked`), not as the end of the game.  A pushed list has `ListLimit` entries at
  most (10 in the code) and goes to `BroadcastLimit` users at most (1000): since both
  come out of an `unordered_map`, the model takes any that many of them (`FirstOf`).
  `MaxStays` bounds how many player lists a user gets into: `ExitRoom` does not take it
  out of one.
* `UserStore`: `row` is the table and `user` the map in memory; `step` is the next
  step of the operation under way, so that a crash can come between any two.
  `CreateUser` inserts, reads the id back, then enters the map; `UpdateScore`
  changes both users in memory and makes four writes.  Any call may fail: the code
  logs and goes on, and so does the model.  A score is counted in parts of a point
  (`Unit`), since the code compares `int` and `double`; writing it to the table
  formats it with six significant digits, which loses the fraction from some size
  on (`ExactBelow`).  Names are opaque: what a name does that breaks the SQL text it is
  put into without escaping (`ObjectManager.cpp:62`) is outside the model.  `promised`, `unread`, `unsaved` and `torn` are histories of
  what was answered and of which calls failed.
* `AiPlayer`: the search is the code's, cut-off, window and order of moves
  included.  `Search[depth]` is `minimax` as a function of its other arguments (the
  record `Call`), `TryMove` the body of its loop over the moves and `BestOf` the loop;
  `cut` stands for the `break`.  `MaxDepth` is the deepest search that is looked at;
  `getNextMove` searches two moves deep.  The board that is changed and changed back
  is a new value each time (`With`).  The code values all stones alike, which would
  leave pruning nothing to prune; `worth` gives each cell a value that is fixed for the
  game, the code's among them.
* `Packet`: `WriteValue` and `ReadValue` are the code's by type.  A byte has `Base`
  values (256 in the code) and the integers `Width32` and `Width64` bytes (4 and 8).
  The loops over bytes and parameters are recursive functions of the number of passes;
  what is being read is a cursor (offset, what was got, result) that `Moved` and `Failed` change.  The check in the
  `ReadBytes` of a number does nothing (`Packet.cpp:24`), so that it goes on behind the end of
  the buffer.  A `Memory` is therefore a buffer and what lies behind it, any of
  `Memories`: the number is read out of both, and when even that is not enough the
  result is "crash".
* `FrameStream`: the code only erases bytes from the front of a buffer, so a
  buffer is an interval of the stream, `low` to `high`; a byte matters only where
  a frame begins (the magic number occurs nowhere else, which the model assumes).
  `sent` is where each frame ends.  While `reading`, the loop of `HandleClient` calls
  `ReadStream` until it gives no more: one pass of the loop inside erases a byte
  (`SkipToHeader`, and `SkipUnreadable` where `ReadBytes` fails because the length is less
  than a header), takes a frame (`TakeFrame`) or gives up (`StopAtRest`, `StopAtHalf`).
  `lengths` is what the headers say, which is the size of the frame or any of `Lies`: by
  it the code goes, so that a frame can end too early or take bytes of the next one.  `data` is whose payload the `Frame` object has, `delivered` what
  `OnFrame` was called with.  `from` (where the buffer began when the last piece came)
  and `kind` are histories.  The value 4 of the `while` is `MagicSize`, the other
  sizes have their names.
* `Server`: `sockToId` and `idToSession` keep their names; `conn` is the operating
  system's side, the connection behind a descriptor.  A frame is handled in three
  steps (received, session looked up, session used), because the worker of the
  wheel can come in between; the steps are otherwise whole, which abstracts from
  the damage two unlocked threads can do inside one operation of a map (the null
  pointer, the dangling one, the erased buffer and the closed descriptor come
  between steps and are in the model).  A session
  that goes in between leaves a dangling pointer or, when it goes before
  `operator[]`, a null pointer in the map (`nulls`): the process crashes or goes
  on.  The layer above (`upper`) may send packets to every session it has heard
  of.  Session ids are counted: `GenerateSessionId` draws 64 random bits, taken to
  be new ones.  One step of the wheel is one second.  The first step after a session was opened may
  come at once, so that n + 1 steps are n seconds and what the worker, which sleeps a
  second each time, oversleeps in them; since the code compares milliseconds, after as
  many steps as the interval has seconds both answers are possible (`TimedOut`), and
  after one more the session is taken to be over it.  `CleanUp` closes a descriptor
  before it takes it off the list that `Run` polls (`Server.cpp:271`): when the receive thread
  is between two frames, `select` may fail on it, and `Run` leaves its loop
  (`SelectFails`, a part of `WheelStep`).
* `TimerEngine`: what a thread does under `queue_mutex` is one step; the worker's
  reads of `stopped` and the two halves of `Stop`, which take no lock, are steps of
  their own.  `due` is the time left.  An entry's shared flag is `cancelled[id]`.
  Time passes by `Tick`; `MaxLate` bounds how late the worker may be.

`Match` is the contract of a room: between games the seats change hands and the
board may be replaced; during a game a seat may only become empty, a stone may
only be placed on an empty cell by a colour that has a player, a game ends the
moment a colour has a line anywhere on the board, and otherwise only when a
player who still has a seat stops it.  The refinement is where the local win
check of the code meets the global rule.

`Timers` is the contract of a timer: a task is pending, running, cancelled or
over; it begins only when pending, a cancelled one never begins again, one that
runs once is over when it has run, and a pending one disappears only when the
engine is stopped.

## 3. What is checked

| Run | Configuration | Shows |
|---|---|---|
| `game` | `GameSpec.cfg` | sizes 0 to 3, two stones in a row win, up to four moves: `HistoryMatchesBoard`, and both win checks against the rule |
| `room` | `RoomSpec.cfg` | three users, a room for two, boards of size 0 to 2: seats, no line while a game is played, what a call may change, the end of a game and its announcement (once, after the stone or the resignation, and only then), and the refinement of `Match` |
| `handler` | `Handler.cfg` | two users taking turns on one connection, two rooms: the maps point to rooms that know the user, a game being played keeps its players, stones only for players who are logged in and mapped to the room, and every room implements `Match` |
| `pushes` | `Notifier.cfg` | two well-behaved users on two connections, one of which is followed: the session maps are inverse; pushes about a room go to sessions of its players, and who listens from the start knows its seats, players and game; the lists, which have room for one of two entries, are right but for games that have ended and users who have logged out |
| `timers` | `TimerEngine.cfg` | three tasks, two delays and intervals: the heap and the cancellation map agree, `Timers` is implemented, every task runs, `Stop` returns when there is a task |
| `frame_stream` | `FrameStream.cfg` | every cut of up to three frames, with right and wrong lengths in the headers: in order, complete by their lengths, once; nothing is lost when the headers are right, no piece ends in one and the buffer stays small; the parser finds the next frame unless a header before it asks for its bytes |
| `server` | `Server.cfg` | two connections, two descriptors, two sessions, two threads: the maps are inverse, connections share a session only by reuse of its descriptor, the process ends only after a clean-up, unused sessions go away |
| `users` | `UserStore.cfg` | two names, registered, rated, loaded again, with failures and crashes: accounts and ratings in memory and table agree as far as the writes succeeded, wins and losses balance, ranks follow scores |
| `ai` | `AiPlayer.cfg` | every position that can come up on boards of size 1 to 3: pruned and plain minimax agree for every window; the answer is legal |
| `packet` | `Packet.cfg` | packets of up to three parameters of every type: read back as written, with two exceptions, whatever lies behind them; cut off, they are taken for complete exactly when the number of parameters is cut and completes to 0 |
| `claim_stop`, `claim_status` | `ClaimStop.cfg`, `ClaimStatus.cfg` | two statements of the comments that the code does not keep (below) |

Bounds, and why they are enough.  `MaxMoves` bounds the move stack: four moves
fill a board of size 2 and leave one of size 3 with every kind of line of two in
every position, at each edge and in the middle.  A room for two with three users
has a full room, a hand-over of the ownership with and without a successor, and
a user who is neither player.  Two rooms show joining a second one; no operation
touches more than one room.  `WinLength = 1` in the runs about the maps keeps
games one move long: those properties do not depend on how long a game is.
`CHECK_DEADLOCK FALSE` is set where the bound on the number of rooms or the end
of a counterexample stops the system.  Users and sessions are symmetric: no
operation compares them other than for equality.  One connection is enough for
`handler`: the handlers read only which user the caller's session is logged in as,
and the users log in over each other; `pushes`, which is about the reverse map, has
two.

In `Notifier.cfg` a line of two stones on boards of size 1 and 2 lets a game end by a
line, by giving up, by the request for a draw, or not at all.  Two rooms for two
users make each a listener of the other's lobby, and let each be in a room of its own.
`ListLimit = 1` of two rooms and two users is a list that stops before its end, as the
code's do at ten; `BroadcastLimit = 2` is all users (a list that is pushed to fewer than
there are says nothing to the others; the property makes this condition).  All
sessions are alike, so that it is enough to follow one (`Watched`), and `MaxStays = 1`
lets a user leave with `ExitRoom` and stay in the list of players.
In `UserStore.cfg` there are three ranks at 0, 2 and 4 points; a game changes a score by
2.5 points, so that two games take users to just above a threshold, past the last one,
back, and below zero (scores off the scale at either end are not saved with their
rank), and scores from 2 points on are rounded when they are written.  Two games are two
operations of four writes, each of which may fail or be the last before a crash.
In `AiPlayer.cfg` the boards of size 1 and 2 have all assignments of two values, and
that of size 3, deeper than the search, the code's single one; `MaxDepth = 3` is one more
than the code's depth.  In `Packet.cfg` a byte has seven values, which is just enough for
the indexes of the types, and the integers two and three bytes; each type has its extreme values, texts and blobs have none, one or several bytes, one of the
keys is empty and one is that of `msgType`, which is replaced or missing.  Behind the buffer
lies nothing, less than a number, zeros, or bytes that complete a count or a length to
something else (`SmallMemories`).

In `TimerEngine.cfg` three tasks can be queued, running and cancelled at once, and
delays and intervals of 0 and more take every branch of the worker.  In the
configurations of `FrameStream` a header has more bytes than the magic number, one
frame is a header only, one is larger than a frame may be, and the largest piece is
larger than the largest frame, as in the code; a wrong length is shorter than a header
(2), or 8, which is less or more than the frame has.  In those of `Server` the delay of the check is shorter than the wheel
and as long as the interval, as in the code (30, 60 and 30); a second connection gets
the descriptor of the first, before or after its session is cleaned up.
`MaxHandling` is how many seconds may pass while one frame is handled.  A frame
that would open one session more than `MaxSessions` is lost (`Ignored`).
`CHECK_DEADLOCK FALSE` is set there because a process that has crashed stops.

`CHECK_DEADLOCK FALSE` is set for `users`, `ai` and `packet` too, where the bound on the
games, the end of a game or the one set of keys stops the system.

The game, the handlers and the users have no liveness properties and no fairness: the
code promises no progress to a client who sends nothing, and a call of the database
may fail every time.  `TimerEngine!FairSpec` lets
the worker and the thread that stops take their steps and lets time pass: the
operating system schedules both threads, `steady_clock` advances, and a callback
is taken to return.  Nobody is obliged to call the engine, and spurious wake-ups
are possible but never promised.  `Server!Fairness` lets the wheel turn and the
receive thread finish the frame it handles; no client has to send anything.

Statements the code does not keep:

* `claim_stop`: `TimeTools.hpp:43`, all operations are thread-safe.  `Stop`
  notifies without the lock; a worker between its test and its wait sleeps on,
  and the join never returns.  With a task in the queue it returns at the latest
  when that is due (`StopReturnsAfterTask`).
* `claim_status`: `Notifier.cpp:168`, `SyncGame` tells of changes of the status.  `Room`
  passes a string literal (`Room.cpp:121` and others), which arrives as
  `const char*`; the subscription is for `std::string`, and `EventBus.hpp:100` drops
  events of other types.  Clients learn of the start and the end of a game from
  other events (`GameIsSeen`).  The only `SyncGame` they ever get is that of `OnRoomCreated`,
  with the status "created" (`Notifier.cpp:211`).

More of the kind, in the models but without a run of their own:

* `ObjectManager.h:22` and `:52`: the room the user is in, 0 for none.  `ExitRoom`
  leaves the user in the player list (and it cannot come back: `AddPlayer` answers
  "Player already in room"), so that the map and the list differ from then on.  The
  direction that holds is `MappedRoomHasUser`: a room the map names has the user.
* `Frame.cpp:55` and `:71` keep what is not yet complete; a header in two pieces is
  erased byte by byte.  `KindLosesNothing` says when it is not.  A length that is too
  large takes the bytes of the frames behind it (`FindsNextFrame` says which are found).
* `Packet.cpp:24` finds out that the buffer is at its end, and reads on.  A
  packet cut in front of the end of its number of parameters is taken for a complete one
  when the bytes found there make that number 0 (`CutIsNoticed`).
* `Frame.h:19` and `:26`: a request for a session is answered with a new one; on a
  reused descriptor it is the session of the client before.  `OnlyReuseShares`
  and its proof show that the reuse is the only cause.
* `Server.cpp:306`, sessions are cleaned up after a timeout: a session is checked
  once in its life, so that one that spoke early stays (`UnusedIsCleanedUp` is
  about those that never speak).
* A login on a connection that is in use leaves the first user's entry in
  `userIdToSessionIdMap`, which `ObjectManager.h:21` calls the reverse map
  (`SessionMapsAreInverse` holds for polite clients).
* A guest (`Handler.cpp:72`) has an id and no `User`; every later request is refused.
* `Room::Draw` publishes a request (`Room.cpp:291`), which is pushed as one
  (`Notifier.cpp:177`), and has already ended the game; no `GameEnded` follows
  (`EndAnnounced`, `GameIsSeen`).
* While the callback of a repeated task runs, `CancelTimer` answers false, which by
  `TimeTools.hpp:475` means that the task is unknown or over; it goes on.
* A frame without payload is delivered with that of the frame before it in the
  same piece (`Frame.cpp:38`); `PayloadOfFrame` holds for the others.
* `CleanUp` tells nobody, though `Server.cpp:335` says it does, and may destroy the
  session whose frame is being handled (`UseGoneSession`), or make `select` fail and end
  the server for all (`SelectFails`).  `OnlyCleanUpEnds`: without a clean-up the
  two threads do not end the process.
* An `int` is written with its own type and read as a `uint32_t`, so that
  `GetParam<int>` answers the default; a packet whose parameters were replaced
  loses `msgType` (`RoundTrip` states both).
* A score less than a point above a threshold has the rank below (`User.cpp:147` to
  `162`); the next change of the score mends it (`RankFollowsScore`).
* The evaluation of `AiPlayer` announces lines (`AiPlayer.cpp:45`) and counts stones:
  all moves tie and the first empty cell is taken (`AnswersFirstEmpty`).
* `JoinRoom` announces an arrival that `Room::AddPlayer` has announced; the second
  `PlayerJoined` is dropped, but only because its room id has 32 bits.
* The end of a game publishes no `RoomListUpdated` and a logout nothing at all:
  entries of a list go stale in these two ways only (`LobbyIsSeen`).  But both lists stop
  at ten entries (`Notifier.cpp:333`, `:398`) and rooms are never removed, so that from the eleventh
  room or user on some are on no list.

Each property has a mutant, an operator next to the definition it mutates
(`Mutant of ...`), under which its run fails.

## 4. What is proved

`GameProofs`, `RoomProofs` and `HandlerProofs` for any `WinLength > 0`, any set of
users, any capacity and any set of board sizes.  The assumptions are those named in the modules: the id 0 is
no user, the default size is one of the sizes, sizes are natural numbers.

* `GameProofs`: `Spec => []TypeOK`, `[]HistoryMatchesBoard`, `[]UndoRestores`,
  `[]CheckWinIsLineThrough`.  The inductive invariant is `TypeOK /\
  HistoryMatchesBoard`.  That the stack has no duplicates is needed for an undo:
  the cell it empties must not occur again below.  `UndoRestores` follows from
  it in every state, and so does the correctness of `checkWin`, by the lemma
  `CountsAreLine`: the two counts of a direction add up to `WinLength - 1` or
  more exactly when some line of `WinLength` stones passes through the cell; and the
  one of the scan, `[]CheckWinAnywhereIsRule`: a winning cell is one
  with a line through it, so that there is one exactly when there is a line, and the
  scan meets a first one (`CheckWinAnywhereFindsLines`).  The
  number of steps is a cardinality; `PrefixCount` says that a prefix-closed set
  of steps is an interval, so that its size is the length of the walk.
* `RoomProofs`: `Spec => []TypeOK`, `[]MembershipOK`, `[]SeatsOK`,
  `[]LastStoneWon`, `[]NoLineWhilePlaying`.  The invariant is the conjunction of
  the first four.  `LastStoneWon` is what makes the local check sufficient: as
  no line exists before a move, a line after it passes through the new stone
  (`NewLineThroughMove`), and `checkWin` finds it (`MoveWinsIffLine`).  Then
  `Spec => ImplementsMatch`: each call maps to a step of `Match` or to a stutter;
  the case of a move uses `MoveWinsIffLine` to turn the code's check into the rule.
  The action properties `GameIsStable` (nobody takes over a seat and no stone moves during a game) and
  `EndAnnounced` (the end of a game is published once, behind what ended it, and names who won) are proved
  call by call from the same invariant.
* `HandlerProofs` (also for any sessions and any bound on the rooms): `Spec =>
  []TypeOK`, `[]RoomsHoldUsers`, `[]MappedRoomHasUser`, `[]PlayingHasTwoPlayers`,
  `StonesAreAuthorised` and `RoomsImplementMatch`.  The invariant `HInv` says of every
  room what `RoomProofs` says of one (`GoodRoom`: seats and owner are members, a game
  being played has two players and no line), and of the maps that rooms hold users
  only and that a user's room has the user.  There is one lemma per operation of
  `Room` that keeps `GoodRoom`, and `ChangeRoomHInv` for every packet that replaces one
  room and leaves its players alone.  For the refinement each packet is a step in
  one room and none in the others (`RoomStep`), and a room not yet created stands
  for a new one.
  For `NotifierSpec`: it implements `PoliteSpec`, since publishing changes no object
  (`NotifierImplementsPolite`), and so has `[]SessionMapsAreInverse`,
  which is inductive with `HInv` (`PInv`).
  What the pushes tell, `[]PushesFollowLogin`, `[]RoomIsSeen`, `[]GameIsSeen` and
  `[]LobbyIsSeen`, follows from `ViewInv`, which is inductive on top of `PInv`.  It says
  of every watched session what it may know: nothing when it is not logged in, only about
  rooms whose lists have its user, and where that is one room only what is so there, each
  of seats, number of players, stage and stones (`Sees`); its list of rooms has as many as
  fit, each as it is except for games that have ended since (`SeesList`), and nobody on its
  list of users who is online is shown otherwise (`SeesOnline`).  `RoomIsSeen` and
  `GameIsSeen` need `PushesFollowLogin`: whoever enters a room is told what is so there
  only because it knew nothing of any room before.  The proof says what each kind of
  push does to what a session knows, then packet by packet what all its events make
  known, in the room and outside.
* `LoopProofs` has what the loops of the program compute.  The prover cannot apply a
  theorem of induction to a predicate, so the module first proves from the
  well-ordering of the naturals what it needs about loops: a recursive function on
  `0 .. n` exists and has its equations, and what holds at the start and after each
  pass holds all the way (`Upward`).

  `FrameStream` (any sizes of frames, header, piece and limit, any lengths in the headers,
  any number of frames): `Spec => []OnceAndInOrder`, `[]PayloadOfFrame`, `[]FindsNextFrame`,
  `[]KindLosesNothing`.  The invariant `IInv` says that frames lie behind each other,
  none shorter than a header, that what was delivered begins before the buffer and had the
  bytes its header asks for (`DeliveredIsErased`), that the loop has still before it what it
  has not delivered and nobody asks for (`StillToFind`), and of kind clients on a kind
  network that the buffer begins with a frame and everything before has been delivered
  (`KindKeepsFrames`).

  `Packet` (any `Base` with room for the indexes of the types, any widths with
  `Width32 <= Width64`, any finite set of keys, any values that C++ allows the types,
  any message types and any memory behind the buffer): `PacketSpec => []RoundTrip` and `[]CutIsNoticed`.  What is
  composed is always a packet that can be written: its keys are keys, its values are values.
  The number read from the bytes of n is n, or for an int its remainder: each byte
  adds its place (`OneMoreByte`).  Then the buffer is the parameters laid behind each
  other, and the reader that stands where one begins reads it and stands where the
  next begins, whatever comes behind.  For `CutIsNoticed`: the
  number of parameters is read whole or, with what lies behind, completed.  If it is
  not complete in the buffer, the reader that goes on is past the end already, and the next check
  fails, so that it succeeds only without parameters to read.  If it is, then as long as reading
  goes well the reader does the same as on the whole buffer, which it reads to the
  last byte; so it cannot come to the end of fewer bytes (`LoopCut`).

  `AiPlayer` (boards of any size, stones of any worth for which the score of a full board
  fits an `int`, any `MaxDepth` of at least 2): `AiSpec => []PruningIsExact` and
  `[]AnswersFirstEmpty`.  Both hold of every board, reachable or not.  The first is an
  induction on the depth: if the calls of one move less bound the plain value as
  `PruningIsExact` says, then in the loop over the moves `best` is the same kind of bound on
  the best of the moves seen, `alpha` and `beta` are moved by `best` only, and after a
  cut the moves not seen can push the value only further out of the window.  That
  the score fits an `int` is needed where the window is the widest.  For the second, two
  boards with the same score and the same number of empty cells have the same plain
  value at every depth when all stones are worth the same (`AlikeAfter`, `NextAlike`),
  so all moves tie, `>` never replaces `moves[0]`, and the scan enters
  the cells row by row, so that `moves[0]` is the first empty one.
* `UserProofs` (any names, thresholds more than a point apart, unit, changes of
  scores and number of games): `Spec => []TypeOK`, `[]NamesAgree`, `[]RatingsAgree`,
  `[]RankFollowsScore`, `[]BooksBalance`.  The invariant `UInv` says more about the middle of an operation:
  who is in a name's `ReadId` has a row and no user, ratings in the table are fixed
  points of the rounding (so that loading them and writing them again changes
  nothing), who is not taking part in a game and has no failed write agrees with its
  row, and a rank is computed before it is saved.  That a rank is at most one off
  rests on the arithmetic of `lower_bound` over truncated points (`RankByScoreClose`)
  and of rounding (`CloseIsNear`); `lower_bound` finds something by the well-ordering
  of the naturals.
  For `BooksBalance` the invariant `BooksInv` balances not the table, which is written
  row by row, but the rating that counts: the one in memory, and the row of whoever is
  not there.  `UpdateScore` changes two of those by a win and a loss or by two draws, a
  write none, and a crash or a start none unless it tears a game, which `torn` records.
  That the sum `Total` exists on every finite set, and moves by what one term moves
  (`TotalChange`, `TotalGrow`), is proved with the smallest set on which it would not.

* `TimerProofs` (any number of tasks, any delays and intervals): `Spec => []TypeOK`,
  `[]MapMatchesQueue`, `[]InOnePlace`, and `Spec => ImplementsTimers`.  The
  invariant adds to these that ids are used once and where the threads are when a
  task is in the worker's hands: the worker holds a task exactly while its
  callback runs or it is about to repeat, and `Stop` clears the queue only after the
  worker has returned, so that no task can be put back behind it.  The
  refinement has one lemma per action, which says which task changes its status.
* `ServerProofs` (any descriptors, wheel and interval): `Spec => []TypeOK`,
  `[]MapsAreInverse`, with the invariant that ids are fresh.
  For `[]OnlyCleanUpEnds` the invariant `EInv` adds that as long as every session that was
  opened is kept there is no null pointer, and the frame in hand has a descriptor that is
  polled and, once looked up, a session: so none of the four ways to end the process is
  open, and that a step keeps all of them says that the step before did (`KeptBefore`).
  `[]OnlyReuseShares` needs more as long as no descriptor is reused early: a session that has been seen and
  is still there is that of the connection that saw it or of none (`SeenBySelf`), and
  the frame in hand has the descriptor of its session, behind which there is nobody
  once the session has gone (`FramesMatch`).

Only model-checked: liveness (`EveryTaskRuns`, `StopReturnsAfterTask`,
`UnusedIsCleanedUp`), which is out of the prover's reach.  Every other property of the
passing runs is stated by a theorem.

## 5. Not modelled

How much the Elo formula changes a score, which is floating point (its sign is
modelled).  `Crypto` consists of stubs, `Logger` of output, `main` of wiring.  What
SQLite does, the creation of the tables and `Database::Initialize`, which calls itself
initialized before the file is open.  Setting up the listening socket, closing what is left when the
server has stopped, and the partial writes of a non-blocking `send` are left out, and so is the
singleton around the timers.  Queries change nothing, publish nothing and are no steps.  The
clocks and grading settings of a room are stored and never used.

Code without a caller: `RemoveUser` and `RemoveRoom` of `ObjectManager` and
`SendColorAssignmentToRoom` are not modelled; `Room::RemovePlayer`, `UpdateScore` and
`AiPlayer` are, as what their classes promise to whoever will call them.

Most of the repository by lines is vendored: SQLite in `src/data` and googletest.  It is
not the program's own logic and not modelled; of the program's own files every one
with state is.

## 6. What could come next

1. `Server` composed with `Handler`: which user a session that has gone, or was
   inherited with a descriptor, is logged in as (`Server.cpp:335`).
2. The singleton of `TimeTools` (initialize and shut down from several threads), and
   the arithmetic of guest ids (`Handler.cpp:73`).
