------------------------------- MODULE Handler ------------------------------
(***************************************************************************)
(* Class Handler (core/Handler.cpp): what each kind of packet does to the  *)
(* objects of the server.  One action per message type; a packet that is   *)
(* answered with an error changes nothing and is not a step.  The server   *)
(* handles one packet at a time, from whatever session it comes.           *)
(*                                                                         *)
(* The queries (lists, SyncGame, chat, quick match) and UndoMove, which    *)
(* answers success without undoing anything, change no object.             *)
(***************************************************************************)
EXTENDS ObjectManager

Init == InitObjects

\* The user behind a session, as GetUserBySessionId finds it: a guest has an
\* id but no User object, and is told it is not logged in.
Caller(s) == sessionIdToUserIdMap[s]
\* Mutant of LoggedIn: an id is enough, the user need not exist.
LoggedInById(s) == Caller(s) # NoUser

LoggedIn(s) == Caller(s) \in users

RoomOf(s) == userIdToRoomIdMap[Caller(s)]

-----------------------------------------------------------------------------
(* Authentication: 100 .. 199. *)

\* With the right password.  Neither session nor user needs to be logged out.
Login(s, u) ==
  /\ u \in users
  /\ MapSessionToUser(s, u)
  /\ UNCHANGED <<users, rooms, userIdToRoomIdMap>>

SignIn(s, u) ==
  /\ CreateUser(u)
  /\ MapSessionToUser(s, u)
  /\ UNCHANGED <<rooms, userIdToRoomIdMap>>

LoginAsGuest(s) ==
  /\ MapSessionToUser(s, Guest(s))
  /\ UNCHANGED <<users, rooms, userIdToRoomIdMap>>

\* The user stays in its room.
LogOut(s) ==
  /\ Caller(s) # NoUser
  /\ UnmapSession(s)
  /\ UNCHANGED <<users, rooms, userIdToRoomIdMap>>

-----------------------------------------------------------------------------
(* Lobby: 200 .. 299. *)

CreateRoom(s) ==
  /\ LoggedIn(s)
  /\ CreateRoomOf(Caller(s))
  /\ MapUserToRoom(Caller(s), NextRoomId)
  /\ UNCHANGED <<users, sessionMaps>>

\* A user may join one room after another.
JoinRoom(s, r) ==
  /\ LoggedIn(s)
  /\ r \in DOMAIN rooms
  /\ AddPlayerOk(rooms[r], Caller(s))
  /\ rooms' = [rooms EXCEPT ![r] = AddPlayer(@, Caller(s))]
  /\ MapUserToRoom(Caller(s), r)
  /\ UNCHANGED <<users, sessionMaps>>

-----------------------------------------------------------------------------
(* Room: 300 .. 399, and Game: 400 .. 499. *)

\* Mutant of ExitRoom: the player is also removed from the room it is in, as a
\* repair of the two copies of the membership would do.
ExitRoomRemoves(s) ==
  /\ LoggedIn(s)
  /\ RoomOf(s) \in DOMAIN rooms
  /\ rooms' = [rooms EXCEPT ![RoomOf(s)] = RemovePlayer(@, Caller(s))]
  /\ UnmapUserFromRoom(Caller(s))
  /\ UNCHANGED <<users, sessionMaps>>

\* Only the map is changed: Room::RemovePlayer is not called.
ExitRoom(s) ==
  /\ LoggedIn(s)
  /\ UnmapUserFromRoom(Caller(s))
  /\ UNCHANGED <<users, rooms, sessionMaps>>

\* The packets below act on the room the caller's entry in the map names.
InARoom(s) == LoggedIn(s) /\ RoomOf(s) \in DOMAIN rooms

CallersRoom(s) == rooms[RoomOf(s)]

ChangeRoom(s, room) ==
  /\ rooms' = [rooms EXCEPT ![RoomOf(s)] = room]
  /\ UNCHANGED <<users, sessionMaps, userIdToRoomIdMap>>

\* The two names of the packet; a name nobody registered counts as empty.
SyncSeatPacket(s, black, white) ==
  /\ InARoom(s)
  /\ SyncSeatOk(CallersRoom(s), Caller(s), black, white)
  /\ ChangeRoom(s, SyncSeat(CallersRoom(s), Caller(s), black, white))

SyncRoomSetting(s, size) ==
  /\ InARoom(s)
  /\ EditRoomSettingOk(CallersRoom(s), Caller(s))
  /\ ChangeRoom(s, EditRoomSetting(CallersRoom(s), size))

StartGamePacket(s) ==
  /\ InARoom(s)
  /\ StartGameOk(CallersRoom(s))
  /\ ChangeRoom(s, StartGame(CallersRoom(s)))

MakeMovePacket(s, c) ==
  /\ InARoom(s)
  /\ MakeMoveOk(CallersRoom(s), Caller(s), c)
  /\ ChangeRoom(s, MakeMoveInRoom(CallersRoom(s), Caller(s), c))

\* GiveUp, and Draw with negStatus Ask.  Accepting or rejecting a draw changes
\* nothing.
GiveUpPacket(s) ==
  /\ InARoom(s)
  /\ EndGameOk(CallersRoom(s), Caller(s))
  /\ ChangeRoom(s, EndGame(CallersRoom(s)))

DrawPacket(s) ==
  /\ InARoom(s)
  /\ EndGameOk(CallersRoom(s), Caller(s))
  /\ ChangeRoom(s, EndGame(CallersRoom(s)))

-----------------------------------------------------------------------------
HandleAuthPacket(s) ==
  \/ \E u \in Users : Login(s, u) \/ SignIn(s, u)
  \/ LoginAsGuest(s)
  \/ LogOut(s)

HandleLobbyPacket(s) ==
  \/ CreateRoom(s)
  \/ \E r \in RoomIds : JoinRoom(s, r)

HandleRoomPacket(s) ==
  \/ \E black, white \in users \cup {NoUser} : SyncSeatPacket(s, black, white)
  \/ \E size \in BoardSizes : SyncRoomSetting(s, size)
  \/ ExitRoom(s)

HandleGamePacket(s) ==
  \/ StartGamePacket(s)
  \/ \E c \in UNION {Targets(n) : n \in BoardSizes} : MakeMovePacket(s, c)
  \/ GiveUpPacket(s)
  \/ DrawPacket(s)

HandlePacket(s) ==
  \/ HandleAuthPacket(s)
  \/ HandleLobbyPacket(s)
  \/ HandleRoomPacket(s)
  \/ HandleGamePacket(s)

Next == \E s \in Sessions : HandlePacket(s)

Spec == Init /\ [][Next]_objects

-----------------------------------------------------------------------------
\* Every map has its type, and the rooms are numbered without gaps.
TypeOK == ObjectsTypeOK

\* Every id a room keeps is the id of a registered user.  The Notifier reads
\* the name of the winner of GameEnded without looking whether the user exists
\* (core/Notifier.cpp:118), and the room list prints the names of both players.
RoomsHoldUsers ==
  \A r \in DOMAIN rooms :
    /\ ToSet(rooms[r].playerIds) \subseteq users
    /\ {rooms[r].ownerId, rooms[r].blackPlayerId, rooms[r].whitePlayerId}
         \subseteq users \cup {NoUser}

\* The room map never points to a room that does not exist or that does not
\* count the user among its players: whatever a user was told it has joined
\* will accept its packets.
MappedRoomHasUser ==
  \A u \in Users :
    userIdToRoomIdMap[u] # NoRoom =>
      /\ userIdToRoomIdMap[u] \in DOMAIN rooms
      /\ InRoom(rooms[userIdToRoomIdMap[u]], u)

\* A game being played always has two different players, both members of the
\* room: whatever they do - log out, exit, join another room - neither seat is
\* emptied or taken over under the game.
PlayingHasTwoPlayers ==
  \A r \in DOMAIN rooms :
    Playing(rooms[r]) =>
      LET seats == {rooms[r].blackPlayerId, rooms[r].whitePlayerId}
      IN  Cardinality(seats) = 2 /\ seats \subseteq ToSet(rooms[r].playerIds)

\* A stone of a colour appears on the board of a room only when some session is
\* logged in as the player who has that colour there, and only when the room
\* that player is mapped to is this one: with a session that was taken over by
\* another user, or a player who has joined another room since, no stone.
StonesAreAuthorised ==
  [][\A r \in DOMAIN rooms : \A c \in Cells(rooms[r].game.boardSize) :
       /\ rooms[r].game.boardSize = rooms'[r].game.boardSize
       /\ rooms[r].game.board[c] = "EMPTY"
       /\ rooms'[r].game.board[c] # "EMPTY"
       => LET player == IF rooms'[r].game.board[c] = "BLACK"
                        THEN rooms[r].blackPlayerId ELSE rooms[r].whitePlayerId
          IN  /\ \E s \in Sessions : Caller(s) = player
              /\ userIdToRoomIdMap[player] = r]_objects

\* Each room implements the abstract match, whatever happens in the others;
\* a room not created yet is a match that has not begun.
RoomOrNew(r) == IF r \in DOMAIN rooms THEN rooms[r] ELSE NewRoom(DefaultSize)

MatchIn(r) ==
  INSTANCE Match WITH
    Players  <- Users,
    NoPlayer <- NoUser,
    Sizes    <- BoardSizes,
    phase    <- RoomOrNew(r).status,
    black    <- RoomOrNew(r).blackPlayerId,
    white    <- RoomOrNew(r).whitePlayerId,
    position <- [boardSize |-> RoomOrNew(r).game.boardSize,
                 board     |-> RoomOrNew(r).game.board]

RoomsImplementMatch ==
  /\ \A r \in RoomIds : MatchIn(r)!Init
  /\ [][\A r \in RoomIds : MatchIn(r)!Next \/ UNCHANGED MatchIn(r)!vars]_objects

=============================================================================
