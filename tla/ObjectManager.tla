---------------------------- MODULE ObjectManager ---------------------------
(***************************************************************************)
(* Class ObjectManager (core/ObjectManager.cpp): the registered users, the *)
(* rooms, and the maps between sessions, users and rooms.  Each operator   *)
(* below is one method: a query, or an action on the maps it writes.       *)
(*                                                                         *)
(* A user is identified with its name: usernameToUserIdMap is written only *)
(* together with users and is one-to-one.  A map is a total function whose *)
(* absent entries have the value the lookup methods return for them (0).   *)
(***************************************************************************)
EXTENDS Room

CONSTANTS Sessions,      \* the ids of the sessions
          NoSession,     \* the id 0
          MaxRooms,      \* bound on the number of rooms created
          DefaultSize,   \* the size of a new room's board: 15 in the code
          BoardSizes     \* the sizes the settings of a room can ask for

ASSUME BoardSizesAssumption ==
  DefaultSize \in BoardSizes /\ BoardSizes \subseteq Nat
ASSUME MaxRoomsAssumption == MaxRooms \in Nat
ASSUME NoSessionAssumption == NoSession \notin Sessions

\* The id of a guest, 1000000 + sessionId in the code.  The code relies on the
\* ids of registered users staying below that range.
Guest(s) == <<"guest", s>>
Guests == {Guest(s) : s \in Sessions}

ASSUME GuestsAssumption ==
  /\ Guests \cap (Users \cup {NoUser}) = {}
  /\ \A s, t \in Sessions : Guest(s) = Guest(t) => s = t

RoomIds == 1 .. MaxRooms
NoRoom == 0

VARIABLES users,                  \* the registered users, all held in memory
          rooms,                  \* roomId    -> Room, for the rooms created
          sessionIdToUserIdMap,   \* sessionId -> userId
          userIdToSessionIdMap,   \* userId    -> sessionId
          userIdToRoomIdMap       \* userId    -> roomId

sessionMaps == <<sessionIdToUserIdMap, userIdToSessionIdMap>>
objects == <<users, rooms, sessionMaps, userIdToRoomIdMap>>

\* The server starts with the users found in the database and nothing else.
InitObjects ==
  /\ users \in SUBSET Users
  /\ rooms = [r \in {} |-> NewRoom(DefaultSize)]
  /\ sessionIdToUserIdMap = [s \in Sessions |-> NoUser]
  /\ userIdToSessionIdMap = [u \in Users \cup Guests |-> NoSession]
  /\ userIdToRoomIdMap = [u \in Users |-> NoRoom]

ObjectsTypeOK ==
  /\ users \subseteq Users
  /\ \E n \in 0 .. MaxRooms : DOMAIN rooms = 1 .. n
  /\ \A r \in DOMAIN rooms : IsRoom(rooms[r], BoardSizes)
  /\ sessionIdToUserIdMap \in [Sessions -> Users \cup Guests \cup {NoUser}]
  /\ userIdToSessionIdMap \in [Users \cup Guests -> Sessions \cup {NoSession}]
  /\ userIdToRoomIdMap \in [Users -> RoomIds \cup {NoRoom}]

-----------------------------------------------------------------------------
(* Users and rooms. *)

CreateUser(u) ==
  /\ u \notin users
  /\ users' = users \cup {u}

\* nextRoomId: rooms are numbered from 1 and never removed.
NextRoomId == Cardinality(DOMAIN rooms) + 1

\* Mutant of CreateRoomOf: the creator is not added to the room.
CreateRoomOfEmpty(u) ==
  /\ NextRoomId <= MaxRooms
  /\ rooms' = [r \in 1 .. NextRoomId |->
                 IF r = NextRoomId THEN NewRoom(DefaultSize) ELSE rooms[r]]

\* CreateRoom followed by the AddPlayer of the caller, which a room without
\* players never refuses.
CreateRoomOf(u) ==
  /\ NextRoomId <= MaxRooms
  /\ rooms' = [r \in 1 .. NextRoomId |->
                 IF r = NextRoomId THEN AddPlayer(NewRoom(DefaultSize), u) ELSE rooms[r]]

-----------------------------------------------------------------------------
(* Sessions.  Neither method looks at what the other map still says. *)

MapSessionToUser(s, u) ==
  /\ sessionIdToUserIdMap' = [sessionIdToUserIdMap EXCEPT ![s] = u]
  /\ userIdToSessionIdMap' = [userIdToSessionIdMap EXCEPT ![u] = s]

\* Mutant of UnmapSession: the reverse map is forgotten.
UnmapSessionOneWay(s) ==
  /\ sessionIdToUserIdMap' = [sessionIdToUserIdMap EXCEPT ![s] = NoUser]
  /\ UNCHANGED userIdToSessionIdMap

UnmapSession(s) ==
  /\ userIdToSessionIdMap' =
       [userIdToSessionIdMap EXCEPT ![sessionIdToUserIdMap[s]] = NoSession]
  /\ sessionIdToUserIdMap' = [sessionIdToUserIdMap EXCEPT ![s] = NoUser]

-----------------------------------------------------------------------------
(* Users in rooms. *)

MapUserToRoom(u, r) == userIdToRoomIdMap' = [userIdToRoomIdMap EXCEPT ![u] = r]

UnmapUserFromRoom(u) == userIdToRoomIdMap' = [userIdToRoomIdMap EXCEPT ![u] = NoRoom]

=============================================================================
