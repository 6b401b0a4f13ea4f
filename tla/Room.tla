-------------------------------- MODULE Room --------------------------------
(***************************************************************************)
(* Class Room (game/Room.cpp): the operations on one room as operators on  *)
(* a record that holds its fields.  Each operation Op of the code that can *)
(* be refused has a guard OpOk, false exactly on the paths that set error  *)
(* and return false, a result Op, and OpEvents, what it publishes on the   *)
(* event bus, in the order of the Publish calls.                           *)
(*                                                                         *)
(* Room::boardSize always equals the size of the game and is read from it. *)
(* The clock and grading fields are never written after construction and   *)
(* enableTakeback is always true, so BackMove changes nothing: it always   *)
(* answers "Not implemented".                                              *)
(***************************************************************************)
EXTENDS Game, SequencesExt

CONSTANTS Users,        \* the ids of the users
          NoUser,       \* the id 0: an empty seat, no owner
          MaxPlayers    \* the capacity of a room: 10 in the code

ASSUME NoUserAssumption == NoUser \notin Users
ASSUME MaxPlayersAssumption == MaxPlayers \in Nat \ {0}

Status == {"Free", "Playing", "End"}

\* The fields of a Room object whose board has size n.
RoomType(n) ==
  [status        : Status,
   ownerId       : Users \cup {NoUser},
   blackPlayerId : Users \cup {NoUser},
   whitePlayerId : Users \cup {NoUser},
   playerIds     : Seq(Users),
   game          : GameType(n)]

IsRoom(room, sizes) == \E n \in sizes : room \in RoomType(n)

NewRoom(size) ==
  [status        |-> "Free",
   ownerId       |-> NoUser,
   blackPlayerId |-> NoUser,
   whitePlayerId |-> NoUser,
   playerIds     |-> <<>>,
   game          |-> NewGame(size)]

-----------------------------------------------------------------------------
(* Events (core/Packet.h): a name and the arguments the properties use.     *)

SyncSeatEvent(room)  == <<"SyncSeat", room.blackPlayerId, room.whitePlayerId>>
PlayerJoined(u)      == <<"PlayerJoined", u>>
PlayerLeft(u)        == <<"PlayerLeft", u>>
GameStarted          == <<"GameStarted">>
PiecePlaced(u, c)    == <<"PiecePlaced", u, c>>
GameEnded(winner)    == <<"GameEnded", winner>>
GiveUpRequested(u)   == <<"GiveUpRequested", u>>
DrawRequested(u)     == <<"DrawRequested", u>>
RoomStatusChanged(u) == <<"RoomStatusChanged", u>>
RoomListUpdated      == <<"RoomListUpdated">>

-----------------------------------------------------------------------------
(* Who is in the room, who plays. *)

InRoom(room, u) == u \in ToSet(room.playerIds)

Playing(room) == room.status = "Playing"

Plays(room, u) == u \in {room.blackPlayerId, room.whitePlayerId}

\* Mutant of ColorOf: the colours are swapped.
ColorOfSwapped(room, u) == IF u = room.blackPlayerId THEN "WHITE" ELSE "BLACK"

\* The colour of a player; a user on both seats would play black.
ColorOf(room, u) == IF u = room.blackPlayerId THEN "BLACK" ELSE "WHITE"

OpponentOf(room, u) ==
  IF u = room.blackPlayerId THEN room.whitePlayerId ELSE room.blackPlayerId

-----------------------------------------------------------------------------
(* Coming and going. *)

AddPlayerOk(room, u) ==
  /\ ~InRoom(room, u)
  /\ Len(room.playerIds) < MaxPlayers

AddPlayer(room, u) ==
  [room EXCEPT !.ownerId   = IF room.playerIds = <<>> THEN u ELSE @,
               !.playerIds = Append(@, u)]

AddPlayerEvents(u) == <<PlayerJoined(u), RoomListUpdated>>

RemovePlayerOk(room, u) == InRoom(room, u)

RemovePlayer(room, u) ==
  LET rest == RemoveAt(room.playerIds,
                       CHOOSE i \in DOMAIN room.playerIds : room.playerIds[i] = u)
      Vacate(seat) == IF seat = u THEN NoUser ELSE seat
  IN  [room EXCEPT !.playerIds = rest,
                   !.ownerId   = IF @ # u THEN @
                                 ELSE IF rest = <<>> THEN NoUser ELSE rest[1],
                   !.blackPlayerId = Vacate(@),
                   !.whitePlayerId = Vacate(@)]

RemovePlayerEvents(room, u) ==
  (IF Plays(room, u) THEN <<SyncSeatEvent(RemovePlayer(room, u))>> ELSE <<>>)
    \o <<PlayerLeft(u), RoomListUpdated>>

-----------------------------------------------------------------------------
(* Between games: settings, seats, start. *)

\* Mutant of EditRoomSettingOk: settings may change during a game.
EditRoomSettingOkAnytime(room, u) == u = room.ownerId

EditRoomSettingOk(room, u) == u = room.ownerId /\ ~Playing(room)

\* Mutant of EditRoomSetting: the size changes, the board does not.
EditRoomSettingResizes(room, size) == [room EXCEPT !.game.boardSize = size]

\* A new board size replaces the game object.
EditRoomSetting(room, size) == [room EXCEPT !.game = NewGame(size)]

EditRoomSettingEvents(u) == <<RoomStatusChanged(u), RoomListUpdated>>

\* SyncSeat(u, black, white) asks for the seats <<black, white>>: none, black
\* for u, or white for u.  The branch of the code for userId = 0 is dead: the
\* membership test before it has already refused.
AsksNoSeat(black, white) == black = NoUser /\ white = NoUser
AsksBlack(u, black, white) == black = u /\ white = NoUser
AsksWhite(u, black, white) == white = u /\ black = NoUser

\* Mutant of SyncSeatOk: seats may change hands during a game.
SyncSeatOkAnytime(room, u, black, white) ==
  /\ InRoom(room, u)
  /\ \/ AsksNoSeat(black, white)
     \/ AsksBlack(u, black, white) /\ room.blackPlayerId \in {NoUser, u}
     \/ AsksWhite(u, black, white) /\ room.whitePlayerId \in {NoUser, u}

SyncSeatOk(room, u, black, white) ==
  /\ ~Playing(room)
  /\ InRoom(room, u)
  /\ \/ AsksNoSeat(black, white)
     \/ AsksBlack(u, black, white) /\ room.blackPlayerId \in {NoUser, u}
     \/ AsksWhite(u, black, white) /\ room.whitePlayerId \in {NoUser, u}

\* Mutant of SyncSeat: the seat the caller had is not released.
SyncSeatKeepsOther(room, u, black, white) ==
  CASE AsksBlack(u, black, white) -> [room EXCEPT !.blackPlayerId = u]
    [] AsksWhite(u, black, white) -> [room EXCEPT !.whitePlayerId = u]
    [] AsksNoSeat(black, white)   -> room

SyncSeat(room, u, black, white) ==
  LET Vacated(seat) == IF seat = u THEN NoUser ELSE seat
  IN  CASE AsksNoSeat(black, white) /\ room.blackPlayerId = u ->
             [room EXCEPT !.blackPlayerId = NoUser]
        [] AsksNoSeat(black, white) /\ room.blackPlayerId # u ->
             [room EXCEPT !.whitePlayerId = Vacated(@)]
        [] AsksBlack(u, black, white) ->
             [room EXCEPT !.blackPlayerId = u, !.whitePlayerId = Vacated(@)]
        [] AsksWhite(u, black, white) ->
             [room EXCEPT !.whitePlayerId = u, !.blackPlayerId = Vacated(@)]

SyncSeatEvents(room, u, black, white) ==
  <<SyncSeatEvent(SyncSeat(room, u, black, white))>>

\* Mutant of StartGameOk: one player is enough.
StartGameOkAlone(room) ==
  ~Playing(room) /\ {room.blackPlayerId, room.whitePlayerId} # {NoUser}

StartGameOk(room) ==
  /\ ~Playing(room)
  /\ room.blackPlayerId # NoUser
  /\ room.whitePlayerId # NoUser

\* Mutant of StartGame: the board of the last game stays.
StartGameKeepsBoard(room) == [room EXCEPT !.status = "Playing"]

StartGame(room) == [room EXCEPT !.status = "Playing", !.game = Reset(@)]

\* Mutant of StartGameEvents: the list of rooms is not published again.
StartGameEventsUnlisted(u) == <<GameStarted, RoomStatusChanged(u)>>

StartGameEvents(u) == <<GameStarted, RoomStatusChanged(u), RoomListUpdated>>

-----------------------------------------------------------------------------
(* During a game.  No operation asks whose turn it is. *)

MakeMoveOk(room, u, c) ==
  /\ Playing(room)
  /\ Plays(room, u)
  /\ CanMove(room.game, c)

\* The game after the move, and whether the stone just placed wins it.
Moved(room, u, c) == MakeMove(room.game, c, ColorOf(room, u))

WinsBy(room, u, c) == CheckWin(Moved(room, u, c), c) # "EMPTY"

MakeMoveInRoom(room, u, c) ==
  [room EXCEPT !.game   = Moved(room, u, c),
               !.status = IF WinsBy(room, u, c) THEN "End" ELSE @]

\* Mutant of MakeMoveEvents: the end is published before the stone.
MakeMoveEventsEndFirst(room, u, c) ==
  (IF WinsBy(room, u, c) THEN <<GameEnded(u)>> ELSE <<>>) \o <<PiecePlaced(u, c)>>

MakeMoveEvents(room, u, c) ==
  <<PiecePlaced(u, c)>> \o (IF WinsBy(room, u, c) THEN <<GameEnded(u)>> ELSE <<>>)

EndGameOk(room, u) == Playing(room) /\ Plays(room, u)

EndGame(room) == [room EXCEPT !.status = "End"]

\* Mutant of DrawEvents: only the change of status is published.
DrawEventsStatus(u) == <<RoomStatusChanged(u)>>

\* A request for a draw ends the game at once.
DrawEvents(u) == <<DrawRequested(u), RoomStatusChanged(u)>>

GiveUpEvents(room, u) ==
  <<GiveUpRequested(u)>>
    \o (IF OpponentOf(room, u) # NoUser THEN <<GameEnded(OpponentOf(room, u))>> ELSE <<>>)
    \o <<RoomStatusChanged(u)>>

=============================================================================
