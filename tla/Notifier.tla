------------------------------ MODULE Notifier ------------------------------
(***************************************************************************)
(* Class Notifier (core/Notifier.cpp) on top of the handlers: the events   *)
(* that rooms and handlers publish on the EventBus (utils/EventBus.hpp)    *)
(* and the packets that are pushed to sessions because of them.            *)
(*                                                                         *)
(* Publish runs, at once, the callbacks subscribed to the event whose      *)
(* argument types are those of the arguments published; others are skipped *)
(* without a word.  A callback pushes to the session that                  *)
(* userIdToSessionIdMap has for each player of the room, or for each       *)
(* registered user.  At the point of each Publish the maps, the players    *)
(* and the state of the rooms are those the whole packet leaves behind.    *)
(*                                                                         *)
(* Both lists that are pushed stop after ListLimit entries, and go to the  *)
(* sessions of the first BroadcastLimit users only.  Which entries of an   *)
(* unordered_map come first is nobody's choice.                            *)
(*                                                                         *)
(* What was pushed is kept as what it has told a session since the login   *)
(* on it: the variable view is a history of the pushes, not a part of the  *)
(* server.                                                                 *)
(***************************************************************************)
EXTENDS PoliteHandler, Integers

CONSTANTS Watched,         \* the sessions whose pushes are followed
          MaxStays,        \* bound on the player lists a client gets into
          ListLimit,       \* the length of a pushed list: 10 in the code
          BroadcastLimit   \* how many users it is pushed to: 1000 in the code

ASSUME WatchedAssumption == Watched \subseteq Sessions
ASSUME LimitsAssumption ==
  ListLimit \in Nat \ {0} /\ BroadcastLimit \in Nat /\ ListLimit <= BroadcastLimit
ASSUME UsersAssumption == IsFiniteSet(Users)

VARIABLE view   \* watched session -> what the pushes to it have told

vars == <<objects, view>>

-----------------------------------------------------------------------------
(* Events: what is published, with the types of the arguments in C++.       *)

U64 == "uint64_t"

\* What the callbacks of the Notifier take.  It also subscribes to RoomSync and
\* GameSync, which nothing publishes.
Subscribed ==
  [PlayerJoined      |-> <<U64, U64>>,
   PlayerLeft        |-> <<U64, U64>>,
   PiecePlaced       |-> <<U64, U64, "uint32_t", "uint32_t">>,
   GameEnded         |-> <<U64, U64>>,
   RoomStatusChanged |-> <<U64, U64, "std::string">>,
   DrawRequested     |-> <<U64, U64>>,
   DrawAccepted      |-> <<U64, U64>>,
   GiveUpRequested   |-> <<U64, U64>>,
   ChatMessageRecv   |-> <<U64, U64, "std::string">>,
   UserLoggedIn      |-> <<U64>>,
   RoomListUpdated   |-> <<>>,
   GameStarted       |-> <<U64>>,
   SyncSeat          |-> <<U64, U64, U64>>,
   RoomCreated       |-> <<U64, U64>>]

\* What the methods of Room pass: a string literal decays to a pointer.
PassedByRoom == [Subscribed EXCEPT !.RoomStatusChanged = <<U64, U64, "const char*">>]

Event(r, e, types) == [room |-> r, event |-> e, types |-> types]

\* The events of one operation of room r.
FromRoom(r, events) ==
  [i \in DOMAIN events |-> Event(r, events[i], PassedByRoom[events[i][1]])]

\* What the handlers publish themselves.
FromHandler(r, e) == Event(r, e, Subscribed[e[1]])

RoomCreated(u)     == <<"RoomCreated", u>>
UserLoggedIn(u)    == <<"UserLoggedIn", u>>
ChatMessageRecv(u) == <<"ChatMessageRecv", u>>
DrawAccepted(u)    == <<"DrawAccepted", u>>

\* Mutant of JoinedOnceMore: the room id is read with its full width.
JoinedOnceMoreWide(r, u) == FromHandler(r, PlayerJoined(u))

\* JoinRoom publishes PlayerJoined after AddPlayer has, with a 32-bit room id.
JoinedOnceMore(r, u) == Event(r, PlayerJoined(u), <<"uint32_t", U64>>)

Heard(e) == e.types = Subscribed[e.event[1]]

-----------------------------------------------------------------------------
(* Pushes. *)

\* What GetUserList(n) and GetRoomList(n) can return of the keys S of a map.
FirstOf(S, n) == {T \in SUBSET S : Cardinality(T) <= n /\ (Cardinality(T) = n \/ T = S)}

SessionsOf(us) == {userIdToSessionIdMap'[u] : u \in us} \ {NoSession}

BroadcastToRoom(r) ==
  IF r \in DOMAIN rooms' THEN SessionsOf(ToSet(rooms'[r].playerIds)) ELSE {}

Listing(e) == e.event[1] \in {"UserLoggedIn", "RoomListUpdated"}

\* The users the lists are pushed to, and the users and rooms that are on them,
\* if one of the events makes the Notifier push lists.
Lists(events) ==
  IF \E i \in DOMAIN events : Listing(events[i])
  THEN {l \in [to    : FirstOf(users', BroadcastLimit),
               users : FirstOf(users', ListLimit),
               rooms : FirstOf(DOMAIN rooms', ListLimit)] : l.users \subseteq l.to}
  ELSE {[to |-> {}, users |-> {}, rooms |-> {}]}

Reached(e, l) == IF Listing(e) THEN SessionsOf(l.to) ELSE BroadcastToRoom(e.room)

\* One line of the list of rooms.
RoomLine(room) ==
  [status |-> room.status,
   who    |-> CASE room.status = "Playing" -> <<room.blackPlayerId, room.whitePlayerId>>
                [] room.status = "Free"    -> <<room.ownerId>>
                [] room.status = "End"     -> <<>>]

\* The number of players of a session that was not told it.
Untold == -1

\* A session that has been told nothing: about no room, no seats, no number of
\* players, no game, no list of rooms and no list of users.
Blank ==
  [about |-> {}, seats |-> <<>>, players |-> Untold, stage |-> "None", cells |-> {},
   synced |-> "None", list |-> <<>>, online |-> <<>>]

Counted(n, k) == IF n = Untold THEN Untold ELSE n + k

\* What a session knows after a push.  A MakeMove push has the square only, and
\* means something to a session that knows the game.  SyncUsersToRoom carries
\* one player who joined or left or, for a new room, how many there are.  A
\* push for a resignation names who gave up, the end comes with GameEnded; one
\* for a draw says that it is requested, and a chat message nothing.
Told(v, e, l) ==
  LET what == e.event[1]
  IN CASE what = "SyncSeat"     -> [v EXCEPT !.seats = <<e.event[2], e.event[3]>>]
       [] what = "PlayerJoined" -> [v EXCEPT !.players = Counted(@, 1)]
       [] what = "PlayerLeft"   -> [v EXCEPT !.players = Counted(@, -1)]
       [] what = "RoomCreated"  -> [v EXCEPT !.players = Len(rooms'[e.room].playerIds),
                                             !.synced  = "created"]
       [] what = "GameStarted"  -> [v EXCEPT !.stage = "Playing", !.cells = {}]
       [] what = "PiecePlaced"  -> [v EXCEPT !.cells = IF v.stage \in {"Playing", "DrawAsked"}
                                                       THEN @ \cup {e.event[3]} ELSE @]
       [] what = "DrawRequested" -> [v EXCEPT !.stage = IF @ = "Playing" THEN "DrawAsked" ELSE @]
       [] what = "GameEnded"     -> [v EXCEPT !.stage = "End", !.cells = {}]
       [] what = "RoomStatusChanged" -> [v EXCEPT !.synced = rooms'[e.room].status]
       [] what = "RoomListUpdated"   ->
            [v EXCEPT !.list = [r \in l.rooms |-> RoomLine(rooms'[r])]]
       [] what = "UserLoggedIn"      ->
            [v EXCEPT !.online = [u \in l.users |-> userIdToSessionIdMap'[u] # NoSession]]
       [] what \in {"GiveUpRequested", "DrawAccepted", "ChatMessageRecv"} -> v

\* The rooms a session has been told about, whatever it was.
AboutAfter(v, e) == IF Listing(e) THEN v.about ELSE v.about \cup {e.room}

\* What session s, which knew v, knows after event e has been published.
Hears(v, s, e, l) ==
  IF Heard(e) /\ s \in Reached(e, l)
  THEN [Told(v, e, l) EXCEPT !.about = AboutAfter(v, e)] ELSE v

After(v, s, events, i, l) == IF i \in DOMAIN events THEN Hears(v, s, events[i], l) ELSE v

\* The events are published one after the other to the sessions of known.  No
\* packet publishes more than four.
Publish(known, events) ==
  \E l \in Lists(events) :
    view' = [s \in Watched |->
               After(After(After(After(known[s], s, events, 1, l), s, events, 2, l),
                           s, events, 3, l), s, events, 4, l)]

Forgotten(s) == [w \in Watched |-> IF w = s THEN Blank ELSE view[w]]

-----------------------------------------------------------------------------
(* Each packet with what it makes the server publish. *)

NotifyAuth(s) ==
  \/ \E u \in Users : Fresh(s, u) /\ (Login(s, u) \/ SignIn(s, u))
                      /\ Publish(Forgotten(s), <<FromHandler(NoRoom, UserLoggedIn(u))>>)
  \/ Fresh(s, Guest(s)) /\ LoginAsGuest(s)
     /\ Publish(Forgotten(s), <<FromHandler(NoRoom, UserLoggedIn(Guest(s)))>>)
  \/ LogOut(s) /\ Publish(Forgotten(s), <<>>)

\* The rooms whose lists of players have the user of s: only an exit and another
\* entry make them more than one.
RoomsOf(s) == {r \in DOMAIN rooms : InRoom(rooms[r], Caller(s))}

\* CreateRoom of ObjectManager publishes RoomCreated too, before anybody is in
\* the room.
NotifyLobby(s) ==
  /\ LoggedIn(s)
  /\ Cardinality(RoomsOf(s)) < MaxStays
  /\ RoomOf(s) = NoRoom
  /\ \/ /\ CreateRoom(s)
        /\ Publish(view, FromRoom(NextRoomId, AddPlayerEvents(Caller(s)))
                           \o <<FromHandler(NextRoomId, RoomCreated(Caller(s))),
                                FromHandler(NoRoom, RoomListUpdated)>>)
     \/ \E r \in RoomIds :
          /\ JoinRoom(s, r)
          /\ Publish(view, FromRoom(r, AddPlayerEvents(Caller(s)))
                             \o <<JoinedOnceMore(r, Caller(s))>>)

Notify(s, events) == Publish(view, FromRoom(RoomOf(s), events))

NotifyHimself(s, e) == Publish(view, <<FromHandler(RoomOf(s), e)>>)

\* Settings without a usable board size are accepted, change nothing and are
\* published.  ExitRoom publishes PlayerLeft even for a user in no room.
NotifyRoom(s) ==
  \/ \E black, white \in users \cup {NoUser} :
       /\ SyncSeatPacket(s, black, white)
       /\ Notify(s, SyncSeatEvents(CallersRoom(s), Caller(s), black, white))
  \/ \E size \in BoardSizes :
       SyncRoomSetting(s, size) /\ Notify(s, EditRoomSettingEvents(Caller(s)))
  \/ /\ InARoom(s)
     /\ EditRoomSettingOk(CallersRoom(s), Caller(s))
     /\ UNCHANGED objects
     /\ Notify(s, EditRoomSettingEvents(Caller(s)))
  \/ InARoom(s) /\ UNCHANGED objects /\ NotifyHimself(s, ChatMessageRecv(Caller(s)))
  \/ ExitRoom(s) /\ NotifyHimself(s, PlayerLeft(Caller(s)))

NotifyGame(s) ==
  \/ StartGamePacket(s) /\ Notify(s, StartGameEvents(Caller(s)))
  \/ \E c \in UNION {Targets(n) : n \in BoardSizes} :
       MakeMovePacket(s, c) /\ Notify(s, MakeMoveEvents(CallersRoom(s), Caller(s), c))
  \/ GiveUpPacket(s) /\ Notify(s, GiveUpEvents(CallersRoom(s), Caller(s)))
  \/ DrawPacket(s) /\ Notify(s, DrawEvents(Caller(s)))
  \/ InARoom(s) /\ UNCHANGED objects /\ NotifyHimself(s, DrawAccepted(Caller(s)))

NotifierInit == Init /\ view = [s \in Watched |-> Blank]

NotifierNext ==
  \E s \in Sessions : NotifyAuth(s) \/ NotifyLobby(s) \/ NotifyRoom(s) \/ NotifyGame(s)

NotifierSpec == NotifierInit /\ [][NotifierNext]_vars

-----------------------------------------------------------------------------
\* Nobody reads the pushes of somebody else: a session that is not logged in as
\* a registered user is told nothing, and every room whose pushes have reached
\* a session is one its user is a player of, although BroadcastToRoom
\* (core/Notifier.cpp:129) follows two maps that nobody keeps together.
PushesFollowLogin ==
  \A s \in Watched :
    LET v == view[s]
    IN  /\ ~LoggedIn(s) => v = Blank
        /\ v.about \subseteq RoomsOf(s)
        /\ v.about = {} => v.seats = <<>> /\ v.players = Untold /\ v.stage = "None"

\* The pushes for seats and stones do not say which room they are about: they
\* make sense to the user of s, who may have left room r with ExitRoom, as long
\* as r is the only room whose list of players has it.
Listens(s, r) == LoggedIn(s) /\ RoomsOf(s) = {r}

\* Whoever was told the seats since its login knows who sits where; whoever
\* listens since the room was created knows how many are in it by the room map:
\* every arrival is pushed once, although two places publish it
\* (game/Room.cpp:41, core/Handler.cpp:190), and so is every exit.
RoomIsSeen ==
  \A s \in Watched, r \in DOMAIN rooms : Listens(s, r) =>
    LET v == view[s]
    IN  /\ v.seats # <<>> => v.seats = <<rooms[r].blackPlayerId, rooms[r].whitePlayerId>>
        /\ v.players # Untold =>
             v.players = Cardinality({u \in Users : userIdToRoomIdMap[u] = r})

\* Whoever was told that a game has begun knows the occupied squares while it
\* lasts, and is told of its end by a line or by giving up.  A draw is different:
\* the push is a request, no GameEnded follows, and nevertheless the game is
\* over (game/Room.cpp:289).  Whoever listens since the room was created is told
\* of every game.
GameIsSeen ==
  \A s \in Watched, r \in DOMAIN rooms : Listens(s, r) =>
    LET v == view[s]
    IN  /\ v.stage = "Playing" =>
             /\ Playing(rooms[r])
             /\ v.cells = {c \in Cells(rooms[r].game.boardSize) :
                             rooms[r].game.board[c] # "EMPTY"}
        /\ v.stage \in {"End", "DrawAsked"} => rooms[r].status = "End"
        /\ v.players # Untold => (Playing(rooms[r]) => v.stage = "Playing")

\* The list of rooms a client was sent has as many of the rooms as fit, each as
\* it is now except that its game may have ended, which publishes no
\* RoomListUpdated (game/Room.cpp:257, 289, 333).  Its list of users has as many
\* as fit, and shows all of them who are online so, and perhaps some who have
\* logged out, which publishes nothing (core/Handler.cpp:87).  That much is so
\* while the users are not more than a list is pushed to.
LobbyIsSeen ==
  \A s \in Watched :
    LET list   == view[s].list
        online == view[s].online
    IN  Cardinality(users) <= BroadcastLimit =>
          /\ list # <<>> =>
               /\ DOMAIN list \in FirstOf(DOMAIN rooms, ListLimit)
               /\ \A r \in DOMAIN list :
                    \/ list[r] = RoomLine(rooms[r])
                    \/ list[r].status = "Playing" /\ rooms[r].status = "End"
          /\ online # <<>> =>
               /\ DOMAIN online \in FirstOf(users, ListLimit)
               /\ \A u \in DOMAIN online :
                    userIdToSessionIdMap[u] # NoSession => online[u]

\* "Uses SyncGame to notify of changes of the room's status"
\* (core/Notifier.cpp:168, translated): whoever was told that a game has begun,
\* which StartGame publishes together with the new status, was told the status.
StatusIsSynced ==
  \A s \in Watched, r \in DOMAIN rooms : Listens(s, r) =>
    (view[s].stage = "Playing" => view[s].synced = "Playing")

=============================================================================
