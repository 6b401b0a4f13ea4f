---------------------------- MODULE HandlerProofs ----------------------------
(***************************************************************************)
(* The invariants of the handlers and of the maps of ObjectManager, for    *)
(* any users, sessions, number of rooms, capacity, board sizes and         *)
(* WinLength; those that hold for polite clients; that every room          *)
(* implements Match; and that the pushes of the Notifier tell polite       *)
(* clients what is so.                                                     *)
(***************************************************************************)
EXTENDS Notifier, GameLemmas

\* What every packet keeps true of every room: whoever has a seat or owns the
\* room is in it, and a game being played has two players and no line yet.
GoodRoom(q) ==
  /\ IsRoom(q, BoardSizes)
  /\ {q.ownerId, q.blackPlayerId, q.whitePlayerId} \subseteq ToSet(q.playerIds) \cup {NoUser}
  /\ q.blackPlayerId = q.whitePlayerId => q.blackPlayerId = NoUser
  /\ Playing(q) => q.blackPlayerId # NoUser /\ q.whitePlayerId # NoUser
  /\ Playing(q) => \A color \in Stone : ~HasLine(q.game, color)

\* A room after an operation that changes nobody's seat.
SamePeople(p, q) ==
  /\ p.ownerId = q.ownerId
  /\ p.blackPlayerId = q.blackPlayerId
  /\ p.whitePlayerId = q.whitePlayerId
  /\ p.playerIds = q.playerIds

LEMMA GoodRoomType ==
  ASSUME NEW q, GoodRoom(q)
  PROVE  \E n \in BoardSizes : n \in Nat /\ q \in RoomType(n) /\ q.game.boardSize = n
<1>1. PICK n \in BoardSizes : q \in RoomType(n)  BY DEF GoodRoom, IsRoom
<1>2. n \in Nat  BY BoardSizesAssumption
<1> QED  BY <1>1, <1>2, RoomFields

LEMMA NewRoomGood ==
  /\ GoodRoom(NewRoom(DefaultSize))
  /\ NewRoom(DefaultSize).playerIds = <<>>
<1> DEFINE q == NewRoom(DefaultSize)
<1>1. DefaultSize \in Nat /\ DefaultSize \in BoardSizes  BY BoardSizesAssumption
<1>2. /\ q.status = "Free" /\ q.playerIds = <<>>
      /\ q.ownerId = NoUser /\ q.blackPlayerId = NoUser /\ q.whitePlayerId = NoUser
  BY DEF NewRoom
<1>3. q \in RoomType(DefaultSize)
  BY <1>1, NewGameType DEF NewRoom, RoomType, Status
<1> HIDE DEF q
<1> QED  BY <1>1, <1>2, <1>3 DEF GoodRoom, IsRoom, Playing, q

\* AddPlayer appends the user to the players.
LEMMA AddPlayerGood ==
  ASSUME NEW q, GoodRoom(q), NEW u \in Users
  PROVE  LET p == AddPlayer(q, u)
         IN  /\ GoodRoom(p)
             /\ ToSet(p.playerIds) = ToSet(q.playerIds) \cup {u}
             /\ p.status = q.status /\ p.game = q.game
             /\ p.blackPlayerId = q.blackPlayerId /\ p.whitePlayerId = q.whitePlayerId
<1>1. PICK n \in BoardSizes : n \in Nat /\ q \in RoomType(n)  BY GoodRoomType
<1> DEFINE s == q.playerIds
           t == Append(s, u)
           o == IF s = <<>> THEN u ELSE q.ownerId
           p == AddPlayer(q, u)
<1>2. s \in Seq(Users)  BY <1>1, RoomFields
<1>3. /\ t \in Seq(Users) /\ DOMAIN s = 1 .. Len(s)
      /\ DOMAIN t = DOMAIN s \cup {Len(s) + 1}
      /\ \A i \in DOMAIN s : t[i] = s[i]
      /\ t[Len(s) + 1] = u
  BY <1>2
<1>4. ToSet(t) = ToSet(s) \cup {u}  BY <1>3 DEF ToSet
<1>5. o \in Users \cup {NoUser} /\ o \in ToSet(t) \cup {NoUser}
  BY <1>1, <1>4, RoomFields DEF GoodRoom
<1>6. p = [q EXCEPT !.ownerId = o, !.playerIds = t]  BY DEF AddPlayer
<1> HIDE DEF t, o, p
<1>7. /\ p.status = q.status /\ p.game = q.game
      /\ p.blackPlayerId = q.blackPlayerId /\ p.whitePlayerId = q.whitePlayerId
      /\ p.ownerId = o /\ p.playerIds = t
      /\ p \in RoomType(n)
  BY <1>1, <1>3, <1>5, <1>6 DEF RoomType
<1>8. IsRoom(p, BoardSizes)  BY <1>7 DEF IsRoom
<1>9. GoodRoom(p)
  BY <1>4, <1>5, <1>7, <1>8 DEF GoodRoom, Playing
<1> QED  BY <1>4, <1>7, <1>9 DEF p

LEMMA SyncSeatGood ==
  ASSUME NEW q, GoodRoom(q), NEW u \in Users,
         NEW black \in Users \cup {NoUser}, NEW white \in Users \cup {NoUser},
         SyncSeatOk(q, u, black, white)
  PROVE  LET p == SyncSeat(q, u, black, white)
         IN  /\ GoodRoom(p) /\ p.playerIds = q.playerIds
             /\ p.status = q.status /\ p.game = q.game
<1>1. PICK n \in BoardSizes : n \in Nat /\ q \in RoomType(n)  BY GoodRoomType
<1> DEFINE p == SyncSeat(q, u, black, white)
<1>2. q.blackPlayerId = q.whitePlayerId => q.blackPlayerId = NoUser  BY DEF GoodRoom
<1>3. /\ p.status = q.status /\ p.game = q.game
      /\ p.playerIds = q.playerIds /\ p.ownerId = q.ownerId
      /\ p.blackPlayerId \in {q.blackPlayerId, u, NoUser}
      /\ p.whitePlayerId \in {q.whitePlayerId, u, NoUser}
      /\ p.blackPlayerId = p.whitePlayerId => p.blackPlayerId = NoUser
      /\ p \in RoomType(n)
  BY <1>1, <1>2, SyncSeatFacts
<1> HIDE DEF p
<1>4. u \in ToSet(q.playerIds) /\ ~Playing(p)
  BY <1>3 DEF SyncSeatOk, InRoom, Playing
<1>5. IsRoom(p, BoardSizes)  BY <1>3 DEF IsRoom
<1>6. {p.ownerId, p.blackPlayerId, p.whitePlayerId} \subseteq ToSet(p.playerIds) \cup {NoUser}
  BY <1>3, <1>4 DEF GoodRoom
<1>7. GoodRoom(p)  BY <1>3, <1>4, <1>5, <1>6 DEF GoodRoom
<1> QED  BY <1>3, <1>7 DEF p

LEMMA EditRoomSettingGood ==
  ASSUME NEW q, GoodRoom(q), ~Playing(q), NEW size \in BoardSizes
  PROVE  LET p == EditRoomSetting(q, size)
         IN  GoodRoom(p) /\ SamePeople(p, q) /\ p.status = q.status /\ p.game = NewGame(size)
<1>1. PICK n \in BoardSizes : n \in Nat /\ q \in RoomType(n)  BY GoodRoomType
<1> DEFINE p == EditRoomSetting(q, size)
<1>2. size \in Nat  BY BoardSizesAssumption
<1>3. p = [q EXCEPT !.game = NewGame(size)]  BY DEF EditRoomSetting
<1>4. NewGame(size) \in GameType(size)  BY <1>2, NewGameType
<1> HIDE DEF p
<1>5. /\ p.status = q.status /\ p.game = NewGame(size) /\ SamePeople(p, q)
      /\ p \in RoomType(size)
  BY <1>1, <1>3, <1>4 DEF RoomType, SamePeople
<1>6. IsRoom(p, BoardSizes) /\ ~Playing(p)  BY <1>5 DEF IsRoom, Playing
<1>7. GoodRoom(p)  BY <1>5, <1>6 DEF GoodRoom, SamePeople
<1> QED  BY <1>5, <1>7 DEF p

LEMMA StartGameGood ==
  ASSUME NEW q, GoodRoom(q), StartGameOk(q)
  PROVE  LET p == StartGame(q)
         IN  /\ GoodRoom(p) /\ SamePeople(p, q)
             /\ p.status = "Playing" /\ p.game = NewGame(q.game.boardSize)
<1>1. PICK n \in BoardSizes : n \in Nat /\ q \in RoomType(n) /\ q.game.boardSize = n
  BY GoodRoomType
<1> DEFINE p == StartGame(q)
<1>2. p = [q EXCEPT !.status = "Playing", !.game = NewGame(n)]
  BY <1>1 DEF StartGame, Reset, RoomType
<1>3. NewGame(n) \in GameType(n)  BY <1>1, NewGameType
<1> HIDE DEF p
<1>4. /\ p.status = "Playing" /\ p.game = NewGame(n) /\ SamePeople(p, q)
      /\ p \in RoomType(n)
  BY <1>1, <1>2, <1>3 DEF RoomType, SamePeople, Status
<1>5. IsRoom(p, BoardSizes)  BY <1>4 DEF IsRoom
<1>6. \A color \in Stone : ~HasLine(p.game, color)  BY <1>1, <1>4, NewGameHasNoLine
<1>7. GoodRoom(p)  BY <1>4, <1>5, <1>6 DEF GoodRoom, SamePeople, StartGameOk
<1> QED  BY <1>1, <1>4, <1>7 DEF p

\* A move of a player whose game is played: by MoveWinsIffLine the game goes on
\* exactly when there is still no line.
LEMMA MakeMoveGood ==
  ASSUME NEW q, GoodRoom(q), NEW u \in Users, NEW c, MakeMoveOk(q, u, c)
  PROVE  LET p == MakeMoveInRoom(q, u, c)
             color == ColorOf(q, u)
         IN  /\ GoodRoom(p) /\ SamePeople(p, q)
             /\ c \in Cells(q.game.boardSize) /\ color \in Stone
             /\ p.game = MakeMove(q.game, c, color)
             /\ p.status = IF HasLine(p.game, color) THEN "End" ELSE "Playing"
<1>1. PICK n \in BoardSizes : n \in Nat /\ q \in RoomType(n) /\ q.game.boardSize = n
  BY GoodRoomType
<1> DEFINE p == MakeMoveInRoom(q, u, c)
           color == ColorOf(q, u)
           g == Moved(q, u, c)
           t == IF HasLine(g, color) THEN "End" ELSE "Playing"
<1>2. /\ Playing(q) /\ c \in Cells(n) /\ q.game \in GameType(n)
      /\ \A k \in Stone : ~HasLine(q.game, k)
  BY <1>1, RoomFields DEF MakeMoveOk, CanMove, GoodRoom
<1>3. color \in Stone  BY DEF ColorOf, Stone
<1>4. g = MakeMove(q.game, c, color) /\ g \in GameType(n)
  BY <1>1, <1>2, <1>3, MoveType DEF Moved
<1>5. /\ CheckWin(g, c) # "EMPTY" <=> HasLine(g, color)
      /\ \A k \in Stone : HasLine(g, k) => k = color
  BY <1>1, <1>2, <1>3, <1>4, MoveWinsIffLine
<1>6. p = [q EXCEPT !.game = g, !.status = t]
  BY <1>2, <1>5 DEF MakeMoveInRoom, WinsBy, Playing
<1>7. t \in Status  BY DEF Status
<1> HIDE DEF p, g, t, color
<1>8. /\ p.game = g /\ p.status = t /\ SamePeople(p, q) /\ p \in RoomType(n)
  BY <1>1, <1>4, <1>6, <1>7 DEF RoomType, SamePeople
<1>9. IsRoom(p, BoardSizes)  BY <1>8 DEF IsRoom
<1>10. Playing(p) => \A k \in Stone : ~HasLine(p.game, k)
  BY <1>5, <1>8 DEF Playing, t
<1>11. GoodRoom(p)
  BY <1>2, <1>8, <1>9, <1>10 DEF GoodRoom, SamePeople
<1> QED  BY <1>1, <1>2, <1>3, <1>4, <1>8, <1>11 DEF p, color, t

LEMMA EndGameGood ==
  ASSUME NEW q, GoodRoom(q)
  PROVE  LET p == EndGame(q)
         IN  GoodRoom(p) /\ SamePeople(p, q) /\ p.status = "End" /\ p.game = q.game
<1>1. PICK n \in BoardSizes : n \in Nat /\ q \in RoomType(n)  BY GoodRoomType
<1> DEFINE p == EndGame(q)
<1>2. /\ p.status = "End" /\ p.game = q.game /\ SamePeople(p, q) /\ p \in RoomType(n)
  BY <1>1 DEF EndGame, RoomType, Status, SamePeople
<1> HIDE DEF p
<1>3. IsRoom(p, BoardSizes) /\ ~Playing(p)  BY <1>2 DEF IsRoom, Playing
<1>4. GoodRoom(p)  BY <1>2, <1>3 DEF GoodRoom, SamePeople
<1> QED  BY <1>2, <1>4 DEF p


-----------------------------------------------------------------------------
(* The inductive invariant of the handlers. *)

RoomsAreGood ==
  \A r \in DOMAIN rooms :
    GoodRoom(rooms[r]) /\ ToSet(rooms[r].playerIds) \subseteq users

HInv == TypeOK /\ RoomsAreGood /\ MappedRoomHasUser

LEMMA NumberOfRooms ==
  ASSUME TypeOK
  PROVE  \E n \in Nat : /\ DOMAIN rooms = 1 .. n
                        /\ n <= MaxRooms
                        /\ NextRoomId = n + 1
<1>1. PICK n \in 0 .. MaxRooms : DOMAIN rooms = 1 .. n
  BY DEF TypeOK, ObjectsTypeOK
<1>2. n \in Nat /\ 1 \in Int /\ n \in Int /\ n <= MaxRooms  BY <1>1, MaxRoomsAssumption
<1>3. Cardinality(1 .. n) = IF 1 > n THEN 0 ELSE n - 1 + 1  BY <1>2, FS_Interval
<1>4. Cardinality(1 .. n) = n  BY <1>2, <1>3
<1> QED  BY <1>1, <1>2, <1>4 DEF NextRoomId

LEMMA InitHInv == Init => HInv
<1> SUFFICES ASSUME Init PROVE HInv  OBVIOUS
<1>1. DOMAIN rooms = {}  BY DEF Init, InitObjects
<1>2. DOMAIN rooms = 1 .. 0 /\ 0 \in 0 .. MaxRooms  BY <1>1, MaxRoomsAssumption
<1>3. TypeOK  BY <1>1, <1>2 DEF Init, InitObjects, TypeOK, ObjectsTypeOK
<1>4. RoomsAreGood  BY <1>1 DEF RoomsAreGood
<1>5. MappedRoomHasUser  BY DEF Init, InitObjects, MappedRoomHasUser
<1> QED  BY <1>3, <1>4, <1>5 DEF HInv

\* The maps of the sessions may change freely within their types, and users
\* may be added.
SessionMapsTyped ==
  /\ sessionIdToUserIdMap \in [Sessions -> Users \cup Guests \cup {NoUser}]
  /\ userIdToSessionIdMap \in [Users \cup Guests -> Sessions \cup {NoSession}]

LEMMA MapSessionTyped ==
  ASSUME SessionMapsTyped, NEW s \in Sessions, NEW u \in Users \cup Guests,
         MapSessionToUser(s, u)
  PROVE  SessionMapsTyped'
BY DEF SessionMapsTyped, MapSessionToUser

LEMMA UnmapSessionTyped ==
  ASSUME SessionMapsTyped, NEW s \in Sessions, UnmapSession(s)
  PROVE  SessionMapsTyped'
BY DEF SessionMapsTyped, UnmapSession

LEMMA SameRoomsHInv ==
  ASSUME HInv, SessionMapsTyped', users \subseteq users', users' \subseteq Users,
         UNCHANGED <<rooms, userIdToRoomIdMap>>
  PROVE  HInv'
<1>1. TypeOK'  BY DEF HInv, TypeOK, ObjectsTypeOK, SessionMapsTyped
<1>2. RoomsAreGood'  BY DEF HInv, RoomsAreGood
<1>3. MappedRoomHasUser'  BY DEF HInv, MappedRoomHasUser
<1> QED  BY <1>1, <1>2, <1>3 DEF HInv

LEMMA AuthHInv ==
  ASSUME HInv, NEW s \in Sessions, HandleAuthPacket(s)
  PROVE  HInv'
<1>1. SessionMapsTyped /\ users \subseteq Users
  BY DEF HInv, TypeOK, ObjectsTypeOK, SessionMapsTyped
<1>2. ASSUME NEW u \in Users, Login(s, u) PROVE HInv'
  <2>1. SessionMapsTyped'  BY <1>1, <1>2, MapSessionTyped DEF Login
  <2> QED  BY <1>1, <1>2, <2>1, SameRoomsHInv DEF Login
<1>3. ASSUME NEW u \in Users, SignIn(s, u) PROVE HInv'
  <2>1. SessionMapsTyped'  BY <1>1, <1>3, MapSessionTyped DEF SignIn
  <2>2. users' = users \cup {u}  BY <1>3 DEF SignIn, CreateUser
  <2> QED  BY <1>1, <1>3, <2>1, <2>2, SameRoomsHInv DEF SignIn
<1>4. CASE LoginAsGuest(s)
  <2>1. Guest(s) \in Users \cup Guests  BY DEF Guests
  <2>2. SessionMapsTyped'  BY <1>1, <1>4, <2>1, MapSessionTyped DEF LoginAsGuest
  <2> QED  BY <1>1, <1>4, <2>2, SameRoomsHInv DEF LoginAsGuest
<1>5. CASE LogOut(s)
  <2>1. SessionMapsTyped'  BY <1>1, <1>5, UnmapSessionTyped DEF LogOut
  <2> QED  BY <1>1, <1>5, <2>1, SameRoomsHInv DEF LogOut
<1> QED  BY <1>2, <1>3, <1>4, <1>5 DEF HandleAuthPacket

\* A packet that only changes the caller's room, and none of its players.
LEMMA ChangeRoomHInv ==
  ASSUME HInv, NEW s, InARoom(s), NEW p, GoodRoom(p),
         p.playerIds = CallersRoom(s).playerIds, ChangeRoom(s, p)
  PROVE  HInv'
<1> DEFINE k == RoomOf(s)
<1>1. k \in DOMAIN rooms /\ p.playerIds = rooms[k].playerIds
  BY DEF InARoom, CallersRoom
<1>2. /\ rooms' = [rooms EXCEPT ![k] = p]
      /\ UNCHANGED <<users, sessionMaps, userIdToRoomIdMap>>
  BY DEF ChangeRoom
<1> HIDE DEF k
<1>3. /\ DOMAIN rooms' = DOMAIN rooms
      /\ \A r \in DOMAIN rooms : rooms'[r] = IF r = k THEN p ELSE rooms[r]
  BY <1>1, <1>2
<1>4. TypeOK'
  BY <1>1, <1>2, <1>3 DEF HInv, TypeOK, ObjectsTypeOK, GoodRoom, sessionMaps
<1>5. RoomsAreGood'  BY <1>1, <1>2, <1>3 DEF HInv, RoomsAreGood
<1>6. MappedRoomHasUser'
  BY <1>1, <1>2, <1>3 DEF HInv, MappedRoomHasUser, InRoom
<1> QED  BY <1>4, <1>5, <1>6 DEF HInv

LEMMA CallerFacts ==
  ASSUME HInv, NEW s \in Sessions, InARoom(s)
  PROVE  /\ Caller(s) \in Users
         /\ GoodRoom(CallersRoom(s))
BY DEF HInv, TypeOK, ObjectsTypeOK, RoomsAreGood, InARoom, LoggedIn, CallersRoom

LEMMA CreateRoomHInv ==
  ASSUME HInv, NEW s \in Sessions, CreateRoom(s)
  PROVE  HInv'
<1>1. PICK n \in Nat : DOMAIN rooms = 1 .. n /\ n <= MaxRooms /\ NextRoomId = n + 1
  BY NumberOfRooms DEF HInv
<1> DEFINE u == Caller(s)
           q == NewRoom(DefaultSize)
           p == AddPlayer(q, u)
<1>2. u \in Users /\ u \in users
  BY DEF CreateRoom, LoggedIn, HInv, TypeOK, ObjectsTypeOK
<1>3. GoodRoom(p) /\ ToSet(p.playerIds) = {u}
  <2>1. GoodRoom(q) /\ q.playerIds = <<>>  BY NewRoomGood
  <2>2. GoodRoom(p) /\ ToSet(p.playerIds) = ToSet(q.playerIds) \cup {u}
    BY <1>2, <2>1, AddPlayerGood
  <2>3. ToSet(q.playerIds) = {}  BY <2>1 DEF ToSet
  <2> QED  BY <2>2, <2>3
<1>4. /\ n + 1 <= MaxRooms
      /\ rooms' = [r \in 1 .. n + 1 |-> IF r = n + 1 THEN p ELSE rooms[r]]
      /\ userIdToRoomIdMap' = [userIdToRoomIdMap EXCEPT ![u] = n + 1]
      /\ UNCHANGED <<users, sessionMaps>>
  BY <1>1 DEF CreateRoom, CreateRoomOf, MapUserToRoom
<1> HIDE DEF u, q, p
<1>5. /\ DOMAIN rooms' = 1 .. n + 1 /\ DOMAIN rooms \subseteq DOMAIN rooms'
      /\ n + 1 \in DOMAIN rooms' /\ n + 1 \notin DOMAIN rooms
      /\ n + 1 \in 0 .. MaxRooms /\ n + 1 \in RoomIds
      /\ DOMAIN rooms' = DOMAIN rooms \cup {n + 1}
  BY <1>1, <1>4, MaxRoomsAssumption DEF RoomIds
<1>6. \A r \in DOMAIN rooms' : rooms'[r] = IF r = n + 1 THEN p ELSE rooms[r]
  BY <1>4, <1>5
<1> DEFINE k == n + 1
<1>7. /\ userIdToRoomIdMap \in [Users -> RoomIds \cup {NoRoom}]
      /\ userIdToRoomIdMap' = [userIdToRoomIdMap EXCEPT ![u] = k]
      /\ k \in RoomIds
  BY <1>4, <1>5 DEF HInv, TypeOK, ObjectsTypeOK
<1>8. DOMAIN rooms' = 1 .. k /\ k \in 0 .. MaxRooms  BY <1>5
<1>9. /\ DOMAIN rooms' = DOMAIN rooms \cup {k} /\ k \notin DOMAIN rooms
      /\ \A r \in DOMAIN rooms' : rooms'[r] = IF r = k THEN p ELSE rooms[r]
  BY <1>5, <1>6
<1> HIDE DEF k
<1>10. TypeOK'
  <2>1. \A r \in DOMAIN rooms' : IsRoom(rooms'[r], BoardSizes)
    BY <1>3, <1>9 DEF GoodRoom, HInv, TypeOK, ObjectsTypeOK
  <2>2. userIdToRoomIdMap' \in [Users -> RoomIds \cup {NoRoom}]  BY <1>7
  <2> QED  BY <1>4, <1>8, <2>1, <2>2 DEF HInv, TypeOK, ObjectsTypeOK, sessionMaps
<1>11. RoomsAreGood'  BY <1>2, <1>3, <1>4, <1>9 DEF HInv, RoomsAreGood
<1>12. MappedRoomHasUser'
  BY <1>3, <1>7, <1>9 DEF HInv, MappedRoomHasUser, InRoom
<1> QED  BY <1>10, <1>11, <1>12 DEF HInv

LEMMA JoinRoomHInv ==
  ASSUME HInv, NEW s \in Sessions, NEW k \in RoomIds, JoinRoom(s, k)
  PROVE  HInv'
<1> DEFINE u == Caller(s)
           p == AddPlayer(rooms[k], u)
<1>1. k \in DOMAIN rooms /\ u \in Users /\ u \in users
  BY DEF JoinRoom, LoggedIn, HInv, TypeOK, ObjectsTypeOK
<1>2. GoodRoom(p) /\ ToSet(p.playerIds) = ToSet(rooms[k].playerIds) \cup {u}
  BY <1>1, AddPlayerGood DEF HInv, RoomsAreGood
<1>3. /\ rooms' = [rooms EXCEPT ![k] = p]
      /\ userIdToRoomIdMap' = [userIdToRoomIdMap EXCEPT ![u] = k]
      /\ UNCHANGED <<users, sessionMaps>>
  BY DEF JoinRoom, MapUserToRoom
<1> HIDE DEF u, p
<1>4. /\ DOMAIN rooms' = DOMAIN rooms
      /\ \A r \in DOMAIN rooms : rooms'[r] = IF r = k THEN p ELSE rooms[r]
  BY <1>1, <1>3
<1>5. userIdToRoomIdMap \in [Users -> RoomIds \cup {NoRoom}]
  BY DEF HInv, TypeOK, ObjectsTypeOK
<1>6. TypeOK'
  BY <1>2, <1>3, <1>4, <1>5 DEF HInv, TypeOK, ObjectsTypeOK, GoodRoom, sessionMaps
<1>7. RoomsAreGood'  BY <1>1, <1>2, <1>3, <1>4 DEF HInv, RoomsAreGood
<1>8. MappedRoomHasUser'
  BY <1>1, <1>2, <1>3, <1>4, <1>5 DEF HInv, MappedRoomHasUser, InRoom
<1> QED  BY <1>6, <1>7, <1>8 DEF HInv

LEMMA ExitRoomHInv ==
  ASSUME HInv, NEW s \in Sessions, ExitRoom(s)
  PROVE  HInv'
<1>1. TypeOK'
  BY DEF HInv, TypeOK, ObjectsTypeOK, ExitRoom, UnmapUserFromRoom, sessionMaps
<1>2. RoomsAreGood'  BY DEF HInv, RoomsAreGood, ExitRoom
<1>3. MappedRoomHasUser'
  BY DEF HInv, TypeOK, ObjectsTypeOK, MappedRoomHasUser, ExitRoom, UnmapUserFromRoom
<1> QED  BY <1>1, <1>2, <1>3 DEF HInv

LEMMA SyncSeatHInv ==
  ASSUME HInv, NEW s \in Sessions, NEW black \in users \cup {NoUser},
         NEW white \in users \cup {NoUser}, SyncSeatPacket(s, black, white)
  PROVE  HInv'
<1>1. /\ InARoom(s) /\ SyncSeatOk(CallersRoom(s), Caller(s), black, white)
      /\ ChangeRoom(s, SyncSeat(CallersRoom(s), Caller(s), black, white))
  BY DEF SyncSeatPacket
<1>2. black \in Users \cup {NoUser} /\ white \in Users \cup {NoUser}
  BY DEF HInv, TypeOK, ObjectsTypeOK
<1>3. Caller(s) \in Users /\ GoodRoom(CallersRoom(s))  BY <1>1, CallerFacts
<1>4. LET p == SyncSeat(CallersRoom(s), Caller(s), black, white)
      IN  GoodRoom(p) /\ p.playerIds = CallersRoom(s).playerIds
  BY <1>1, <1>2, <1>3, SyncSeatGood
<1> QED  BY <1>1, <1>4, ChangeRoomHInv

LEMMA SyncRoomSettingHInv ==
  ASSUME HInv, NEW s \in Sessions, NEW size \in BoardSizes, SyncRoomSetting(s, size)
  PROVE  HInv'
<1>1. /\ InARoom(s) /\ ~Playing(CallersRoom(s))
      /\ ChangeRoom(s, EditRoomSetting(CallersRoom(s), size))
  BY DEF SyncRoomSetting, EditRoomSettingOk
<1>2. GoodRoom(CallersRoom(s))  BY <1>1, CallerFacts
<1>3. LET p == EditRoomSetting(CallersRoom(s), size)
      IN  GoodRoom(p) /\ p.playerIds = CallersRoom(s).playerIds
  BY <1>1, <1>2, EditRoomSettingGood DEF SamePeople
<1> QED  BY <1>1, <1>3, ChangeRoomHInv

LEMMA GameHInv ==
  ASSUME HInv, NEW s \in Sessions, HandleGamePacket(s)
  PROVE  HInv'
<1>1. CASE StartGamePacket(s)
  <2>1. /\ InARoom(s) /\ StartGameOk(CallersRoom(s))
        /\ ChangeRoom(s, StartGame(CallersRoom(s)))
    BY <1>1 DEF StartGamePacket
  <2>2. GoodRoom(CallersRoom(s))  BY <2>1, CallerFacts
  <2>3. LET p == StartGame(CallersRoom(s))
        IN  GoodRoom(p) /\ p.playerIds = CallersRoom(s).playerIds
    BY <2>1, <2>2, StartGameGood DEF SamePeople
  <2> QED  BY <2>1, <2>3, ChangeRoomHInv
<1>2. ASSUME NEW c, MakeMovePacket(s, c) PROVE HInv'
  <2>1. /\ InARoom(s) /\ MakeMoveOk(CallersRoom(s), Caller(s), c)
        /\ ChangeRoom(s, MakeMoveInRoom(CallersRoom(s), Caller(s), c))
    BY <1>2 DEF MakeMovePacket
  <2>2. Caller(s) \in Users /\ GoodRoom(CallersRoom(s))  BY <2>1, CallerFacts
  <2>3. LET p == MakeMoveInRoom(CallersRoom(s), Caller(s), c)
        IN  GoodRoom(p) /\ p.playerIds = CallersRoom(s).playerIds
    BY <2>1, <2>2, MakeMoveGood DEF SamePeople
  <2> QED  BY <2>1, <2>3, ChangeRoomHInv
<1>3. CASE GiveUpPacket(s) \/ DrawPacket(s)
  <2>1. InARoom(s) /\ ChangeRoom(s, EndGame(CallersRoom(s)))
    BY <1>3 DEF GiveUpPacket, DrawPacket
  <2>2. GoodRoom(CallersRoom(s))  BY <2>1, CallerFacts
  <2>3. LET p == EndGame(CallersRoom(s))
        IN  GoodRoom(p) /\ p.playerIds = CallersRoom(s).playerIds
    BY <2>2, EndGameGood DEF SamePeople
  <2> QED  BY <2>1, <2>3, ChangeRoomHInv
<1> QED  BY <1>1, <1>2, <1>3 DEF HandleGamePacket

LEMMA NextHInv == HInv /\ [Next]_objects => HInv'
<1> SUFFICES ASSUME HInv, [Next]_objects PROVE HInv'  OBVIOUS
<1>1. CASE UNCHANGED objects
  BY <1>1 DEF objects, sessionMaps, HInv, TypeOK, ObjectsTypeOK, RoomsAreGood,
              MappedRoomHasUser
<1>2. ASSUME NEW s \in Sessions, HandlePacket(s) PROVE HInv'
  <2>1. CASE HandleAuthPacket(s)  BY <2>1, AuthHInv
  <2>2. CASE HandleLobbyPacket(s)
    BY <2>2, CreateRoomHInv, JoinRoomHInv DEF HandleLobbyPacket
  <2>3. CASE HandleRoomPacket(s)
    BY <2>3, SyncSeatHInv, SyncRoomSettingHInv, ExitRoomHInv DEF HandleRoomPacket
  <2>4. CASE HandleGamePacket(s)  BY <2>4, GameHInv
  <2> QED  BY <1>2, <2>1, <2>2, <2>3, <2>4 DEF HandlePacket
<1> QED  BY <1>1, <1>2 DEF Next

LEMMA HandlerIInv == Spec => []HInv
BY InitHInv, NextHInv, PTL DEF Spec


-----------------------------------------------------------------------------
(* What holds whatever the clients send. *)

\* No packet takes an object out of its type: rooms stay numbered without gaps,
\* and every map names what it is meant to name.
THEOREM HandlerTypeCorrect == Spec => []TypeOK
BY HandlerIInv, PTL DEF HInv

\* The Notifier and the lists may look up the user behind every id a room keeps.
THEOREM RoomsHoldUsersCorrect == Spec => []RoomsHoldUsers
<1>1. HInv => RoomsHoldUsers  BY DEF HInv, RoomsAreGood, GoodRoom, RoomsHoldUsers
<1> QED  BY <1>1, HandlerIInv, PTL

\* A user is in the room it is mapped to, in whatever order it creates, joins
\* and exits rooms, logs out and logs in again.
THEOREM MappedRoomHasUserCorrect == Spec => []MappedRoomHasUser
BY HandlerIInv, PTL DEF HInv

\* Both seats of a game being played are taken, by two different players.
THEOREM PlayingHasTwoPlayersCorrect == Spec => []PlayingHasTwoPlayers
<1>1. ASSUME NEW x, NEW y, x # y PROVE Cardinality({x, y}) = 2
  <2>1. IsFiniteSet({x}) /\ Cardinality({x}) = 1  BY FS_Singleton
  <2>2. Cardinality({x} \cup {y}) = 2  BY <1>1, <2>1, FS_AddElement
  <2>3. {x, y} = {x} \cup {y}  OBVIOUS
  <2> QED  BY <2>2, <2>3
<1>2. ASSUME HInv, NEW r \in DOMAIN rooms, Playing(rooms[r])
      PROVE  LET seats == {rooms[r].blackPlayerId, rooms[r].whitePlayerId}
             IN  Cardinality(seats) = 2 /\ seats \subseteq ToSet(rooms[r].playerIds)
  <2>1. /\ rooms[r].blackPlayerId # rooms[r].whitePlayerId
        /\ {rooms[r].blackPlayerId, rooms[r].whitePlayerId} \subseteq ToSet(rooms[r].playerIds)
    BY <1>2 DEF HInv, RoomsAreGood, GoodRoom
  <2> QED  BY <1>1, <2>1
<1>3. HInv => PlayingHasTwoPlayers  BY <1>2 DEF PlayingHasTwoPlayers
<1> QED  BY <1>3, HandlerIInv, PTL

\* A packet that leaves the stones of every room alone, or takes them away.
NoNewStone ==
  \A r \in DOMAIN rooms : \A c \in Cells(rooms[r].game.boardSize) :
    /\ rooms[r].game.boardSize = rooms'[r].game.boardSize
    /\ rooms[r].game.board[c] = "EMPTY"
    => rooms'[r].game.board[c] = "EMPTY"

LEMMA EmptyBoard ==
  ASSUME NEW n, NEW c \in Cells(n)
  PROVE  NewGame(n).board[c] = "EMPTY" /\ NewGame(n).boardSize = n
BY DEF NewGame

\* Whether a changed room has new stones is seen by looking at it alone.
LEMMA ChangeRoomStones ==
  ASSUME HInv, NEW s, InARoom(s), NEW p, ChangeRoom(s, p),
         p.game = CallersRoom(s).game \/ \E n : p.game = NewGame(n)
  PROVE  NoNewStone
<1>1. ASSUME NEW r \in DOMAIN rooms, NEW c \in Cells(rooms[r].game.boardSize),
             rooms[r].game.boardSize = rooms'[r].game.boardSize,
             rooms[r].game.board[c] = "EMPTY"
      PROVE  rooms'[r].game.board[c] = "EMPTY"
  <2>1. rooms' = [rooms EXCEPT ![RoomOf(s)] = p]  BY DEF ChangeRoom
  <2>2. CASE r # RoomOf(s)
    <3>1. rooms'[r] = rooms[r]  BY <2>1, <2>2
    <3> QED  BY <1>1, <3>1
  <2>3. CASE r = RoomOf(s) /\ p.game = CallersRoom(s).game
    <3>1. rooms'[r] = p  BY <2>1, <2>3
    <3> QED  BY <1>1, <2>3, <3>1 DEF CallersRoom
  <2>4. CASE r = RoomOf(s) /\ \E n : p.game = NewGame(n)
    <3>1. rooms'[r] = p  BY <2>1, <2>4
    <3>2. PICK n : p.game = NewGame(n)  BY <2>4
    <3>3. n = rooms[r].game.boardSize  BY <1>1, <3>1, <3>2 DEF NewGame
    <3> QED  BY <3>1, <3>2, <3>3, EmptyBoard
  <2> QED  BY <2>2, <2>3, <2>4
<1> QED  BY <1>1 DEF NoNewStone

\* Stones are placed by the player who has their colour, from a session logged
\* in as that player, in the room the player is mapped to and nowhere else.
AuthorisedStones ==
  \A r \in DOMAIN rooms : \A c \in Cells(rooms[r].game.boardSize) :
    /\ rooms[r].game.boardSize = rooms'[r].game.boardSize
    /\ rooms[r].game.board[c] = "EMPTY"
    /\ rooms'[r].game.board[c] # "EMPTY"
    => LET player == IF rooms'[r].game.board[c] = "BLACK"
                     THEN rooms[r].blackPlayerId ELSE rooms[r].whitePlayerId
       IN  /\ \E s \in Sessions : Caller(s) = player
           /\ userIdToRoomIdMap[player] = r

LEMMA MoveIsAuthorised ==
  ASSUME HInv, NEW s \in Sessions, NEW d, MakeMovePacket(s, d)
  PROVE  AuthorisedStones
<1> DEFINE k == RoomOf(s)
           u == Caller(s)
           q == rooms[k]
           p == MakeMoveInRoom(q, u, d)
           color == ColorOf(q, u)
<1>1. /\ k \in DOMAIN rooms /\ u \in Users /\ GoodRoom(q)
      /\ MakeMoveOk(q, u, d)
      /\ rooms' = [rooms EXCEPT ![k] = p]
  BY CallerFacts DEF MakeMovePacket, InARoom, CallersRoom, ChangeRoom
<1>2. PICK n \in BoardSizes : n \in Nat /\ q \in RoomType(n) /\ q.game.boardSize = n
  BY <1>1, GoodRoomType
<1>3. /\ d \in Cells(q.game.boardSize) /\ p.game = MakeMove(q.game, d, color)
  BY <1>1, MakeMoveGood
<1>4. q.game \in GameType(n)  BY <1>2, RoomFields
<1>5. color \in Stone  BY DEF ColorOf, Stone
<1>6. p.game.board = [q.game.board EXCEPT ![d] = color]
  BY <1>2, <1>3, <1>4, <1>5, MoveType
<1>7. /\ color = "BLACK" => u = q.blackPlayerId
      /\ color # "BLACK" => u = q.whitePlayerId
  BY <1>1 DEF MakeMoveOk, Plays, ColorOf
<1>8. userIdToRoomIdMap[u] = k /\ \E t \in Sessions : Caller(t) = u
  BY DEF RoomOf
<1>9. q.game.board \in [Cells(n) -> Piece]  BY <1>4 DEF GameType
<1> HIDE DEF p, u, color, k
<1>10. ASSUME NEW r \in DOMAIN rooms, NEW c \in Cells(rooms[r].game.boardSize),
              rooms[r].game.board[c] = "EMPTY", rooms'[r].game.board[c] # "EMPTY"
       PROVE  LET player == IF rooms'[r].game.board[c] = "BLACK"
                            THEN rooms[r].blackPlayerId ELSE rooms[r].whitePlayerId
              IN  /\ \E t \in Sessions : Caller(t) = player
                  /\ userIdToRoomIdMap[player] = r
  <2>1. r = k  BY <1>1, <1>10
  <2>2. rooms'[r] = p  BY <1>1, <2>1
  <2>3. c = d  BY <1>2, <1>3, <1>6, <1>9, <1>10, <2>1, <2>2
  <2>4. rooms'[r].game.board[c] = color  BY <1>2, <1>3, <1>6, <1>9, <2>2, <2>3
  <2> QED  BY <1>7, <1>8, <2>1, <2>4
<1> QED  BY <1>10 DEF AuthorisedStones

THEOREM StonesAreAuthorisedCorrect == Spec => StonesAreAuthorised
<1>1. ASSUME HInv, NEW s \in Sessions, HandlePacket(s)
      PROVE  NoNewStone \/ AuthorisedStones
  <2>1. CASE UNCHANGED rooms  BY <2>1 DEF NoNewStone
  <2>2. CASE CreateRoom(s)
    <3>1. PICK n \in Nat : DOMAIN rooms = 1 .. n /\ NextRoomId = n + 1
      BY <1>1, NumberOfRooms DEF HInv
    <3>2. \A r \in DOMAIN rooms : rooms'[r] = rooms[r]
      BY <2>2, <3>1 DEF CreateRoom, CreateRoomOf
    <3> QED  BY <3>2 DEF NoNewStone
  <2>3. ASSUME NEW k \in RoomIds, JoinRoom(s, k) PROVE NoNewStone
    <3>1. /\ k \in DOMAIN rooms /\ Caller(s) \in Users
          /\ rooms' = [rooms EXCEPT ![k] = AddPlayer(rooms[k], Caller(s))]
      BY <1>1, <2>3 DEF JoinRoom, LoggedIn, HInv, TypeOK, ObjectsTypeOK
    <3>2. AddPlayer(rooms[k], Caller(s)).game = rooms[k].game
      BY <1>1, <3>1, AddPlayerGood DEF HInv, RoomsAreGood
    <3>3. \A r \in DOMAIN rooms : rooms'[r].game = rooms[r].game  BY <3>1, <3>2
    <3> QED  BY <3>3 DEF NoNewStone
  <2>4. ASSUME NEW black \in users \cup {NoUser}, NEW white \in users \cup {NoUser},
               SyncSeatPacket(s, black, white)
        PROVE  NoNewStone
    <3>1. /\ InARoom(s) /\ SyncSeatOk(CallersRoom(s), Caller(s), black, white)
          /\ ChangeRoom(s, SyncSeat(CallersRoom(s), Caller(s), black, white))
      BY <2>4 DEF SyncSeatPacket
    <3>2. black \in Users \cup {NoUser} /\ white \in Users \cup {NoUser}
      BY <1>1 DEF HInv, TypeOK, ObjectsTypeOK
    <3>3. SyncSeat(CallersRoom(s), Caller(s), black, white).game = CallersRoom(s).game
      BY <1>1, <3>1, <3>2, CallerFacts, SyncSeatGood
    <3> QED  BY <1>1, <3>1, <3>3, ChangeRoomStones
  <2>5. ASSUME NEW size \in BoardSizes, SyncRoomSetting(s, size) PROVE NoNewStone
    <3>1. /\ InARoom(s) /\ ~Playing(CallersRoom(s))
          /\ ChangeRoom(s, EditRoomSetting(CallersRoom(s), size))
      BY <2>5 DEF SyncRoomSetting, EditRoomSettingOk
    <3>2. EditRoomSetting(CallersRoom(s), size).game = NewGame(size)
      BY <1>1, <3>1, CallerFacts, EditRoomSettingGood
    <3> QED  BY <1>1, <3>1, <3>2, ChangeRoomStones
  <2>6. CASE StartGamePacket(s)
    <3>1. /\ InARoom(s) /\ StartGameOk(CallersRoom(s))
          /\ ChangeRoom(s, StartGame(CallersRoom(s)))
      BY <2>6 DEF StartGamePacket
    <3>2. StartGame(CallersRoom(s)).game = NewGame(CallersRoom(s).game.boardSize)
      BY <1>1, <3>1, CallerFacts, StartGameGood
    <3> QED  BY <1>1, <3>1, <3>2, ChangeRoomStones
  <2>7. ASSUME NEW c, MakeMovePacket(s, c) PROVE AuthorisedStones
    BY <1>1, <2>7, MoveIsAuthorised
  <2>8. CASE GiveUpPacket(s) \/ DrawPacket(s)
    <3>1. InARoom(s) /\ ChangeRoom(s, EndGame(CallersRoom(s)))
      BY <2>8 DEF GiveUpPacket, DrawPacket
    <3>2. EndGame(CallersRoom(s)).game = CallersRoom(s).game
      BY <1>1, <3>1, CallerFacts, EndGameGood
    <3> QED  BY <1>1, <3>1, <3>2, ChangeRoomStones
  <2>9. HandleAuthPacket(s) \/ ExitRoom(s) => UNCHANGED rooms
    BY DEF HandleAuthPacket, Login, SignIn, LoginAsGuest, LogOut, ExitRoom
  <2> QED
    BY <1>1, <2>1, <2>2, <2>3, <2>4, <2>5, <2>6, <2>7, <2>8, <2>9
    DEF HandlePacket, HandleLobbyPacket, HandleRoomPacket, HandleGamePacket
<1>2. NoNewStone => AuthorisedStones  BY DEF NoNewStone, AuthorisedStones
<1>3. HInv /\ [Next]_objects => [AuthorisedStones]_objects
  BY <1>1, <1>2 DEF Next
<1>4. AuthorisedStones =>
        \A r \in DOMAIN rooms : \A c \in Cells(rooms[r].game.boardSize) :
          /\ rooms[r].game.boardSize = rooms'[r].game.boardSize
          /\ rooms[r].game.board[c] = "EMPTY"
          /\ rooms'[r].game.board[c] # "EMPTY"
          => LET player == IF rooms'[r].game.board[c] = "BLACK"
                           THEN rooms[r].blackPlayerId ELSE rooms[r].whitePlayerId
             IN  /\ \E s \in Sessions : Caller(s) = player
                 /\ userIdToRoomIdMap[player] = r
  BY DEF AuthorisedStones
<1> QED  BY <1>3, <1>4, HandlerIInv, PTL DEF Spec, StonesAreAuthorised

-----------------------------------------------------------------------------
(* What holds while clients are polite. *)

PInv == HInv /\ SessionMapsAreInverse

LEMMA PoliteIsNext == [PoliteNext]_objects => [Next]_objects
BY DEF PoliteNext, PoliteAuth, PoliteLobby, Next, HandlePacket, HandleAuthPacket

LEMMA InitPInv == Init => SessionMapsAreInverse
BY NoUserAssumption, NoSessionAssumption, GuestsAssumption
DEF Init, InitObjects, SessionMapsAreInverse

LEMMA FreshLoginIsInverse ==
  ASSUME HInv, SessionMapsAreInverse, NEW s \in Sessions, NEW u \in Users \cup Guests,
         Fresh(s, u), MapSessionToUser(s, u)
  PROVE  SessionMapsAreInverse'
<1>1. u # NoUser /\ NoUser \notin Users \cup Guests /\ NoSession \notin Sessions
  BY NoUserAssumption, NoSessionAssumption, GuestsAssumption
<1>2. SessionMapsTyped  BY DEF HInv, TypeOK, ObjectsTypeOK, SessionMapsTyped
<1> QED
  BY <1>1, <1>2 DEF SessionMapsTyped, SessionMapsAreInverse, Fresh, Caller, MapSessionToUser

LEMMA LogOutIsInverse ==
  ASSUME HInv, SessionMapsAreInverse, NEW s \in Sessions, LogOut(s)
  PROVE  SessionMapsAreInverse'
<1>1. NoUser \notin Users \cup Guests /\ NoSession \notin Sessions
  BY NoUserAssumption, NoSessionAssumption, GuestsAssumption
<1>2. SessionMapsTyped  BY DEF HInv, TypeOK, ObjectsTypeOK, SessionMapsTyped
<1> QED
  BY <1>1, <1>2 DEF SessionMapsTyped, SessionMapsAreInverse, LogOut, Caller, UnmapSession

LEMMA PoliteAuthPInv ==
  ASSUME PInv, NEW s \in Sessions, PoliteAuth(s)
  PROVE  SessionMapsAreInverse'
<1>1. HInv /\ SessionMapsAreInverse  BY DEF PInv
<1>2. ASSUME NEW u \in Users, Fresh(s, u), Login(s, u) \/ SignIn(s, u)
      PROVE  SessionMapsAreInverse'
  BY <1>1, <1>2, FreshLoginIsInverse DEF Login, SignIn
<1>3. CASE Fresh(s, Guest(s)) /\ LoginAsGuest(s)
  <2>1. Guest(s) \in Users \cup Guests  BY DEF Guests
  <2> QED  BY <1>1, <1>3, <2>1, FreshLoginIsInverse DEF LoginAsGuest
<1>4. CASE LogOut(s)  BY <1>1, <1>4, LogOutIsInverse
<1> QED  BY <1>2, <1>3, <1>4 DEF PoliteAuth

\* No other packet writes the maps of the sessions.
LEMMA SessionMapsStay ==
  ASSUME NEW s, HandleLobbyPacket(s) \/ HandleRoomPacket(s) \/ HandleGamePacket(s)
  PROVE  UNCHANGED <<sessionIdToUserIdMap, userIdToSessionIdMap>>
<1>1. HandleLobbyPacket(s) => UNCHANGED sessionMaps
  BY DEF HandleLobbyPacket, CreateRoom, JoinRoom
<1>2. HandleRoomPacket(s) => UNCHANGED sessionMaps
  BY DEF HandleRoomPacket, SyncSeatPacket, SyncRoomSetting, ExitRoom, ChangeRoom
<1>3. HandleGamePacket(s) => UNCHANGED sessionMaps
  BY DEF HandleGamePacket, StartGamePacket, MakeMovePacket, GiveUpPacket, DrawPacket,
         ChangeRoom
<1> QED  BY <1>1, <1>2, <1>3 DEF sessionMaps

LEMMA PoliteIInv == PoliteSpec => []PInv
<1>1. Init => PInv  BY InitHInv, InitPInv DEF PInv
<1>2. PInv /\ [PoliteNext]_objects => PInv'
  <2> SUFFICES ASSUME PInv, [PoliteNext]_objects PROVE PInv'  OBVIOUS
  <2>1. HInv'  BY PoliteIsNext, NextHInv DEF PInv
  <2>2. SessionMapsAreInverse'
    <3>1. CASE UNCHANGED <<sessionIdToUserIdMap, userIdToSessionIdMap>>
      BY <3>1 DEF PInv, SessionMapsAreInverse
    <3>2. UNCHANGED objects => UNCHANGED <<sessionIdToUserIdMap, userIdToSessionIdMap>>
      BY DEF objects, sessionMaps
    <3> QED
      BY <3>1, <3>2, PoliteAuthPInv, SessionMapsStay DEF PoliteNext, PoliteLobby
  <2> QED  BY <2>1, <2>2 DEF PInv
<1> QED  BY <1>1, <1>2, PTL DEF PoliteSpec

\* Publishing changes no object: with its pushes the server of Notifier is the
\* server that polite clients see.
THEOREM NotifierImplementsPolite == NotifierSpec => PoliteSpec
<1>1. NotifierInit => Init  BY DEF NotifierInit
<1>2. [NotifierNext]_vars => [PoliteNext]_objects
  <2> SUFFICES ASSUME [NotifierNext]_vars PROVE [PoliteNext]_objects  OBVIOUS
  <2>1. CASE UNCHANGED vars  BY <2>1 DEF vars
  <2>2. ASSUME NEW s \in Sessions, NotifyAuth(s) PROVE PoliteNext
    BY <2>2 DEF NotifyAuth, PoliteAuth, PoliteNext
  <2>3. ASSUME NEW s \in Sessions, NotifyLobby(s) PROVE PoliteNext
    BY <2>3 DEF NotifyLobby, PoliteLobby, HandleLobbyPacket, PoliteNext
  <2>4. ASSUME NEW s \in Sessions, NotifyRoom(s) PROVE PoliteNext \/ UNCHANGED objects
    BY <2>4 DEF NotifyRoom, HandleRoomPacket, PoliteNext
  <2>5. ASSUME NEW s \in Sessions, NotifyGame(s) PROVE PoliteNext \/ UNCHANGED objects
    BY <2>5 DEF NotifyGame, HandleGamePacket, PoliteNext
  <2> QED  BY <2>1, <2>2, <2>3, <2>4, <2>5 DEF NotifierNext
<1> QED  BY <1>1, <1>2, PTL DEF NotifierSpec, PoliteSpec

\* While nobody logs in over a login the two maps of sessions name each other.
THEOREM SessionMapsInverseWhenPolite == NotifierSpec => []SessionMapsAreInverse
BY NotifierImplementsPolite, PoliteIInv, PTL DEF PInv


-----------------------------------------------------------------------------
(* Each room implements Match: a packet is a step of the match in the room  *)
(* it acts on, and leaves the matches in all other rooms alone.             *)

\* The rule of the game reads the board and its size only.
LEMMA SameRuleIn ==
  ASSUME NEW r, NEW g, NEW p, g.boardSize = p.boardSize, g.board = p.board, NEW color
  PROVE  MatchIn(r)!HasLine(p, color) <=> HasLine(g, color)
BY DEF HasLine, MatchIn!HasLine, LineFrom, MatchIn!LineFrom,
       HasColor, MatchIn!HasColor, Shift, MatchIn!Shift,
       Cells, MatchIn!Cells, Directions, MatchIn!Directions

\* What a room may do to the match in it: a room q becomes p.
KeepsMatch(q, p) ==
  /\ p.status = q.status /\ p.game = q.game
  /\ p.blackPlayerId = q.blackPlayerId /\ p.whitePlayerId = q.whitePlayerId

KeepsSeats(q, p) ==
  p.blackPlayerId = q.blackPlayerId /\ p.whitePlayerId = q.whitePlayerId

MovesSeats(q, p) ==
  /\ ~Playing(q) /\ p.status = q.status /\ p.game = q.game
  /\ {p.blackPlayerId, p.whitePlayerId} \subseteq Users \cup {NoUser}
  /\ p.blackPlayerId = p.whitePlayerId => p.blackPlayerId = NoUser

NewBoard(q, p) ==
  /\ ~Playing(q) /\ KeepsSeats(q, p) /\ p.status = q.status
  /\ \E n \in BoardSizes : p.game = NewGame(n)

NewMatch(q, p) ==
  /\ ~Playing(q) /\ KeepsSeats(q, p) /\ p.status = "Playing"
  /\ q.blackPlayerId # NoUser /\ q.whitePlayerId # NoUser
  /\ p.game = NewGame(q.game.boardSize)

NewStone(q, p) ==
  /\ Playing(q) /\ KeepsSeats(q, p)
  /\ q.blackPlayerId # NoUser /\ q.whitePlayerId # NoUser
  /\ \E c \in Cells(q.game.boardSize), color \in Stone :
       /\ q.game.board[c] = "EMPTY"
       /\ p.game.boardSize = q.game.boardSize
       /\ p.game.board = [q.game.board EXCEPT ![c] = color]
       /\ p.status = IF HasLine(p.game, color) THEN "End" ELSE "Playing"

EndsMatch(q, p) ==
  /\ Playing(q) /\ KeepsSeats(q, p) /\ p.status = "End" /\ p.game = q.game
  /\ q.blackPlayerId # NoUser

RoomStep(q, p) ==
  \/ KeepsMatch(q, p)
  \/ MovesSeats(q, p)
  \/ NewBoard(q, p)
  \/ NewMatch(q, p)
  \/ NewStone(q, p)
  \/ EndsMatch(q, p)

\* Each of them is a step of the match.
LEMMA RoomStepIsMatchStep ==
  ASSUME NEW r, RoomStep(RoomOrNew(r), RoomOrNew(r)')
  PROVE  MatchIn(r)!Next \/ UNCHANGED MatchIn(r)!vars
<1> DEFINE q == RoomOrNew(r)
<1>1. CASE KeepsMatch(q, q')  BY <1>1 DEF KeepsMatch, MatchIn!vars
<1>2. CASE MovesSeats(q, q')
  <2>1. MatchIn(r)!ChangeSeats
    BY <1>2 DEF MovesSeats, Playing, MatchIn!ChangeSeats
  <2> QED  BY <2>1 DEF MatchIn!Next
<1>3. CASE NewBoard(q, q')
  <2>1. PICK n \in BoardSizes : q'.game = NewGame(n)  BY <1>3 DEF NewBoard
  <2>2. [boardSize |-> q'.game.boardSize, board |-> q'.game.board] = MatchIn(r)!Empty(n)
    BY <2>1 DEF NewGame, MatchIn!Empty, MatchIn!Cells, Cells
  <2>3. MatchIn(r)!ChangeBoard
    BY <1>3, <2>2 DEF NewBoard, KeepsSeats, Playing, MatchIn!ChangeBoard
  <2> QED  BY <2>3 DEF MatchIn!Next
<1>4. CASE NewMatch(q, q')
  <2>1. [boardSize |-> q'.game.boardSize, board |-> q'.game.board]
          = MatchIn(r)!Empty(q.game.boardSize)
    BY <1>4 DEF NewMatch, NewGame, MatchIn!Empty, MatchIn!Cells, Cells
  <2>2. MatchIn(r)!Start
    BY <1>4, <2>1 DEF NewMatch, KeepsSeats, Playing, MatchIn!Start
  <2> QED  BY <2>2 DEF MatchIn!Next
<1>5. CASE NewStone(q, q')
  <2> DEFINE b == [boardSize |-> q.game.boardSize, board |-> q.game.board]
             d == [boardSize |-> q'.game.boardSize, board |-> q'.game.board]
  <2>1. PICK c \in Cells(q.game.boardSize), color \in Stone :
          /\ q.game.board[c] = "EMPTY"
          /\ q'.game.boardSize = q.game.boardSize
          /\ q'.game.board = [q.game.board EXCEPT ![c] = color]
          /\ q'.status = IF HasLine(q'.game, color) THEN "End" ELSE "Playing"
    BY <1>5 DEF NewStone
  <2>2. d = [b EXCEPT !.board = [b.board EXCEPT ![c] = color]]  BY <2>1
  <2>3. MatchIn(r)!HasLine(d, color) <=> HasLine(q'.game, color)  BY SameRuleIn
  <2>4. MatchIn(r)!Place(c, color)
    BY <1>5, <2>1, <2>2, <2>3 DEF NewStone, KeepsSeats, Playing, MatchIn!Place
  <2>5. c \in MatchIn(r)!Cells(b.boardSize) /\ color \in MatchIn(r)!Stone
    BY <2>1 DEF MatchIn!Cells, Cells, MatchIn!Stone, Stone
  <2> QED  BY <2>4, <2>5 DEF MatchIn!Next
<1>6. CASE EndsMatch(q, q')
  <2>1. MatchIn(r)!Stop  BY <1>6 DEF EndsMatch, KeepsSeats, Playing, MatchIn!Stop
  <2> QED  BY <2>1 DEF MatchIn!Next
<1> QED  BY <1>1, <1>2, <1>3, <1>4, <1>5, <1>6 DEF RoomStep

-----------------------------------------------------------------------------
(* Each packet is such a step in every room. *)

EveryRoomSteps == \A r \in RoomIds : RoomStep(RoomOrNew(r), RoomOrNew(r)')

LEMMA ChangeRoomSteps ==
  ASSUME HInv, NEW s, InARoom(s), NEW p, ChangeRoom(s, p),
         RoomStep(CallersRoom(s), p)
  PROVE  EveryRoomSteps
<1> DEFINE k == RoomOf(s)
<1>1. k \in DOMAIN rooms /\ rooms' = [rooms EXCEPT ![k] = p]
  BY DEF InARoom, ChangeRoom
<1>2. RoomStep(rooms[k], p)  BY DEF CallersRoom
<1> HIDE DEF k
<1>3. /\ DOMAIN rooms' = DOMAIN rooms
      /\ \A r \in DOMAIN rooms : rooms'[r] = IF r = k THEN p ELSE rooms[r]
  BY <1>1
<1> SUFFICES ASSUME NEW r \in RoomIds PROVE RoomStep(RoomOrNew(r), RoomOrNew(r)')
  BY DEF EveryRoomSteps
<1>4. CASE r = k
  <2>1. RoomOrNew(r) = rooms[k] /\ RoomOrNew(r)' = p  BY <1>1, <1>3, <1>4 DEF RoomOrNew
  <2> QED  BY <1>2, <2>1
<1>5. CASE r # k
  <2>1. RoomOrNew(r)' = RoomOrNew(r)  BY <1>3, <1>5 DEF RoomOrNew
  <2> QED  BY <2>1 DEF RoomStep, KeepsMatch
<1> QED  BY <1>4, <1>5

LEMMA UnchangedRoomsStep ==
  ASSUME UNCHANGED rooms
  PROVE  EveryRoomSteps
<1>1. ASSUME NEW r PROVE RoomOrNew(r)' = RoomOrNew(r)  BY DEF RoomOrNew
<1> QED  BY <1>1 DEF EveryRoomSteps, RoomStep, KeepsMatch

\* A room is a match that has not begun before it is created and after.
LEMMA CreateRoomSteps ==
  ASSUME HInv, NEW s \in Sessions, CreateRoom(s)
  PROVE  EveryRoomSteps
<1> DEFINE q == NewRoom(DefaultSize)
           p == AddPlayer(q, Caller(s))
<1>1. PICK n \in Nat : DOMAIN rooms = 1 .. n /\ NextRoomId = n + 1
  BY NumberOfRooms DEF HInv
<1>2. Caller(s) \in Users  BY DEF CreateRoom, LoggedIn, HInv, TypeOK, ObjectsTypeOK
<1>3. KeepsMatch(q, p)  BY <1>2, NewRoomGood, AddPlayerGood DEF KeepsMatch
<1>4. rooms' = [r \in 1 .. n + 1 |-> IF r = n + 1 THEN p ELSE rooms[r]]
  BY <1>1 DEF CreateRoom, CreateRoomOf
<1> HIDE DEF p
<1>5. /\ DOMAIN rooms' = DOMAIN rooms \cup {n + 1} /\ n + 1 \notin DOMAIN rooms
      /\ \A r \in DOMAIN rooms' : rooms'[r] = IF r = n + 1 THEN p ELSE rooms[r]
  BY <1>1, <1>4
<1> SUFFICES ASSUME NEW r \in RoomIds PROVE RoomStep(RoomOrNew(r), RoomOrNew(r)')
  BY DEF EveryRoomSteps
<1> DEFINE k == n + 1
<1> HIDE DEF k
<1>6. CASE r = k
  <2>1. RoomOrNew(r) = q /\ RoomOrNew(r)' = p  BY <1>5, <1>6 DEF RoomOrNew, k
  <2> QED  BY <1>3, <2>1 DEF RoomStep
<1>7. CASE r # k
  <2>1. RoomOrNew(r)' = RoomOrNew(r)  BY <1>5, <1>7 DEF RoomOrNew, k
  <2> QED  BY <2>1 DEF RoomStep, KeepsMatch
<1> QED  BY <1>6, <1>7

LEMMA JoinRoomSteps ==
  ASSUME HInv, NEW s \in Sessions, NEW k \in RoomIds, JoinRoom(s, k)
  PROVE  EveryRoomSteps
<1> DEFINE p == AddPlayer(rooms[k], Caller(s))
<1>1. k \in DOMAIN rooms /\ Caller(s) \in Users
  BY DEF JoinRoom, LoggedIn, HInv, TypeOK, ObjectsTypeOK
<1>2. KeepsMatch(rooms[k], p)
  BY <1>1, AddPlayerGood DEF KeepsMatch, HInv, RoomsAreGood
<1>3. rooms' = [rooms EXCEPT ![k] = p]  BY DEF JoinRoom
<1> HIDE DEF p
<1> SUFFICES ASSUME NEW r \in RoomIds PROVE KeepsMatch(RoomOrNew(r), RoomOrNew(r)')
  BY DEF EveryRoomSteps, RoomStep
<1>4. CASE r = k
  <2>1. RoomOrNew(r) = rooms[k] /\ RoomOrNew(r)' = p  BY <1>1, <1>3, <1>4 DEF RoomOrNew
  <2> QED  BY <1>2, <2>1
<1>5. CASE r # k
  <2>1. RoomOrNew(r)' = RoomOrNew(r)  BY <1>1, <1>3, <1>5 DEF RoomOrNew
  <2> QED  BY <2>1 DEF KeepsMatch
<1> QED  BY <1>4, <1>5

LEMMA RoomPacketSteps ==
  ASSUME HInv, NEW s \in Sessions, HandleRoomPacket(s)
  PROVE  EveryRoomSteps
<1>1. ASSUME NEW black \in users \cup {NoUser}, NEW white \in users \cup {NoUser},
             SyncSeatPacket(s, black, white)
      PROVE  EveryRoomSteps
  <2> DEFINE q == CallersRoom(s)
             p == SyncSeat(q, Caller(s), black, white)
  <2>1. /\ InARoom(s) /\ SyncSeatOk(q, Caller(s), black, white) /\ ChangeRoom(s, p)
    BY <1>1 DEF SyncSeatPacket
  <2>2. black \in Users \cup {NoUser} /\ white \in Users \cup {NoUser}
    BY DEF HInv, TypeOK, ObjectsTypeOK
  <2>3. GoodRoom(p) /\ p.status = q.status /\ p.game = q.game
    BY <2>1, <2>2, CallerFacts, SyncSeatGood
  <2> HIDE DEF p
  <2>4. PICK n \in BoardSizes : n \in Nat /\ p \in RoomType(n)  BY <2>3, GoodRoomType
  <2>5. {p.blackPlayerId, p.whitePlayerId} \subseteq Users \cup {NoUser}
    BY <2>4, RoomFields
  <2>6. ~Playing(q)  BY <2>1 DEF SyncSeatOk
  <2>7. MovesSeats(q, p)  BY <2>3, <2>5, <2>6 DEF MovesSeats, GoodRoom
  <2> QED  BY <2>1, <2>7, ChangeRoomSteps DEF RoomStep
<1>2. ASSUME NEW size \in BoardSizes, SyncRoomSetting(s, size) PROVE EveryRoomSteps
  <2> DEFINE q == CallersRoom(s)
             p == EditRoomSetting(q, size)
  <2>1. InARoom(s) /\ ~Playing(q) /\ ChangeRoom(s, p)
    BY <1>2 DEF SyncRoomSetting, EditRoomSettingOk
  <2>2. SamePeople(p, q) /\ p.status = q.status /\ p.game = NewGame(size)
    BY <2>1, CallerFacts, EditRoomSettingGood
  <2> HIDE DEF p
  <2>3. NewBoard(q, p)  BY <2>1, <2>2 DEF NewBoard, KeepsSeats, SamePeople
  <2> QED  BY <2>1, <2>3, ChangeRoomSteps DEF RoomStep
<1>3. CASE ExitRoom(s)  BY <1>3, UnchangedRoomsStep DEF ExitRoom
<1> QED  BY <1>1, <1>2, <1>3 DEF HandleRoomPacket

LEMMA GamePacketSteps ==
  ASSUME HInv, NEW s \in Sessions, HandleGamePacket(s)
  PROVE  EveryRoomSteps
<1> DEFINE q == CallersRoom(s)
<1>1. CASE StartGamePacket(s)
  <2> DEFINE p == StartGame(q)
  <2>1. InARoom(s) /\ StartGameOk(q) /\ ChangeRoom(s, p)  BY <1>1 DEF StartGamePacket
  <2>2. SamePeople(p, q) /\ p.status = "Playing" /\ p.game = NewGame(q.game.boardSize)
    BY <2>1, CallerFacts, StartGameGood
  <2> HIDE DEF p, q
  <2>3. NewMatch(q, p)  BY <2>1, <2>2 DEF NewMatch, KeepsSeats, SamePeople, StartGameOk
  <2> QED  BY <2>1, <2>3, ChangeRoomSteps DEF RoomStep, q
<1>2. ASSUME NEW c, MakeMovePacket(s, c) PROVE EveryRoomSteps
  <2> DEFINE u == Caller(s)
             p == MakeMoveInRoom(q, u, c)
             color == ColorOf(q, u)
  <2>1. InARoom(s) /\ MakeMoveOk(q, u, c) /\ ChangeRoom(s, p)
    BY <1>2 DEF MakeMovePacket
  <2>2. GoodRoom(q) /\ u \in Users  BY <2>1, CallerFacts
  <2>3. /\ SamePeople(p, q) /\ c \in Cells(q.game.boardSize) /\ color \in Stone
        /\ p.game = MakeMove(q.game, c, color)
        /\ p.status = IF HasLine(p.game, color) THEN "End" ELSE "Playing"
    BY <2>1, <2>2, MakeMoveGood
  <2>4. PICK n \in BoardSizes : n \in Nat /\ q \in RoomType(n) /\ q.game.boardSize = n
    BY <2>2, GoodRoomType
  <2>5. q.game \in GameType(n)  BY <2>4, RoomFields
  <2> HIDE DEF p, q, color
  <2>6. /\ p.game.boardSize = q.game.boardSize
        /\ p.game.board = [q.game.board EXCEPT ![c] = color]
    BY <2>3, <2>4, <2>5, MoveType
  <2>7. Playing(q) /\ q.game.board[c] = "EMPTY"
    BY <2>1 DEF MakeMoveOk, CanMove
  <2>8. q.blackPlayerId # NoUser /\ q.whitePlayerId # NoUser  BY <2>2, <2>7 DEF GoodRoom
  <2>9. NewStone(q, p)
    BY <2>3, <2>6, <2>7, <2>8 DEF NewStone, KeepsSeats, SamePeople
  <2> QED  BY <2>1, <2>9, ChangeRoomSteps DEF RoomStep, q
<1>3. CASE GiveUpPacket(s) \/ DrawPacket(s)
  <2> DEFINE p == EndGame(q)
  <2>1. InARoom(s) /\ EndGameOk(q, Caller(s)) /\ ChangeRoom(s, p)
    BY <1>3 DEF GiveUpPacket, DrawPacket
  <2>2. GoodRoom(q)  BY <2>1, CallerFacts
  <2>3. SamePeople(p, q) /\ p.status = "End" /\ p.game = q.game  BY <2>2, EndGameGood
  <2>4. Playing(q) /\ q.blackPlayerId # NoUser  BY <2>1, <2>2 DEF EndGameOk, GoodRoom
  <2> HIDE DEF p, q
  <2>5. EndsMatch(q, p)  BY <2>3, <2>4 DEF EndsMatch, KeepsSeats, SamePeople
  <2> QED  BY <2>1, <2>5, ChangeRoomSteps DEF RoomStep, q
<1> QED  BY <1>1, <1>2, <1>3 DEF HandleGamePacket

LEMMA PacketSteps ==
  ASSUME HInv, NEW s \in Sessions, HandlePacket(s)
  PROVE  EveryRoomSteps
<1>1. CASE HandleAuthPacket(s)
  BY <1>1, UnchangedRoomsStep DEF HandleAuthPacket, Login, SignIn, LoginAsGuest, LogOut
<1>2. CASE HandleLobbyPacket(s)
  BY <1>2, CreateRoomSteps, JoinRoomSteps DEF HandleLobbyPacket
<1>3. CASE HandleRoomPacket(s)  BY <1>3, RoomPacketSteps
<1>4. CASE HandleGamePacket(s)  BY <1>4, GamePacketSteps
<1> QED  BY <1>1, <1>2, <1>3, <1>4 DEF HandlePacket

LEMMA InitRefinesIn ==
  ASSUME Init, NEW r \in RoomIds
  PROVE  MatchIn(r)!Init
<1>1. RoomOrNew(r) = NewRoom(DefaultSize) /\ DefaultSize \in BoardSizes
  BY BoardSizesAssumption DEF Init, InitObjects, RoomOrNew
<1>2. [boardSize |-> RoomOrNew(r).game.boardSize, board |-> RoomOrNew(r).game.board]
        = MatchIn(r)!Empty(DefaultSize)
  BY <1>1, SMTT(40) DEF NewRoom, NewGame, MatchIn!Empty, MatchIn!Cells, Cells
<1> QED  BY <1>1, <1>2 DEF NewRoom, MatchIn!Init

\* Every room keeps the promise of Match whatever the packets for other rooms
\* do, in whatever order clients log in, take over sessions, move to another
\* room or leave the map: there, too, a game ends exactly by the rule or when
\* somebody stops it, and nobody loses a seat.
THEOREM HandlerImplementsMatches == Spec => RoomsImplementMatch
<1>1. Init => \A r \in RoomIds : MatchIn(r)!Init  BY InitRefinesIn
<1>2. HInv /\ [Next]_objects =>
        [\A r \in RoomIds : MatchIn(r)!Next \/ UNCHANGED MatchIn(r)!vars]_objects
  <2>1. ASSUME HInv, NEW s \in Sessions, HandlePacket(s)
        PROVE  \A r \in RoomIds : MatchIn(r)!Next \/ UNCHANGED MatchIn(r)!vars
    <3>1. EveryRoomSteps  BY <2>1, PacketSteps
    <3> QED  BY <3>1, RoomStepIsMatchStep DEF EveryRoomSteps
  <2> QED  BY <2>1 DEF Next
<1> QED  BY <1>1, <1>2, HandlerIInv, PTL DEF Spec, RoomsImplementMatch
-----------------------------------------------------------------------------
(* What clients were told.  An event of a room reaches the sessions of its  *)
(* players, the others reach sessions of the first users.                   *)

RoomEvent(r, event) == Event(r, event, PassedByRoom[event[1]])

\* The user of session s is a player of room r.
Member(s, r) == LoggedIn(s) /\ r \in RoomsOf(s)

\* The users and rooms on lists that may be pushed now.
Fits(l) ==
  /\ l.to \in FirstOf(users', BroadcastLimit)
  /\ l.users \in FirstOf(users', ListLimit)
  /\ l.rooms \in FirstOf(DOMAIN rooms', ListLimit)

LEMMA SessionIsCallers ==
  ASSUME PInv', NEW s \in Sessions, NEW us, us \subseteq users'
  PROVE  s \in SessionsOf(us) <=> LoggedIn(s)' /\ Caller(s)' \in us
<1>1. /\ users' \subseteq Users /\ s # NoSession
  BY NoSessionAssumption DEF PInv, HInv, TypeOK, ObjectsTypeOK
<1>2. \A u \in Users : sessionIdToUserIdMap'[s] = u <=> userIdToSessionIdMap'[u] = s
  BY DEF PInv, SessionMapsAreInverse
<1>3. s \in SessionsOf(us) <=> \E u \in us : userIdToSessionIdMap'[u] = s
  BY <1>1 DEF SessionsOf
<1> QED  BY <1>1, <1>2, <1>3 DEF LoggedIn, Caller

LEMMA ReachedInRoom ==
  ASSUME PInv', NEW s \in Sessions, NEW r
  PROVE  s \in BroadcastToRoom(r) <=> Member(s, r)'
<1>1. CASE r \notin DOMAIN rooms'
  BY <1>1 DEF BroadcastToRoom, Member, RoomsOf
<1>2. CASE r \in DOMAIN rooms'
  <2> DEFINE players == ToSet(rooms'[r].playerIds)
  <2>1. players \subseteq users'  BY <1>2 DEF PInv, HInv, RoomsAreGood
  <2>2. BroadcastToRoom(r) = SessionsOf(players)  BY <1>2 DEF BroadcastToRoom
  <2>3. Member(s, r)' <=> LoggedIn(s)' /\ Caller(s)' \in players
    BY <1>2 DEF Member, RoomsOf, InRoom
  <2> HIDE DEF players
  <2> QED  BY <2>1, <2>2, <2>3, SessionIsCallers
<1> QED  BY <1>1, <1>2

\* When the users are few enough everybody is sent the lists.
LEMMA FirstOfAll ==
  ASSUME NEW S, IsFiniteSet(S), NEW n \in Nat, Cardinality(S) <= n,
         NEW T, T \in FirstOf(S, n)
  PROVE  T = S
<1>1. T \subseteq S /\ Cardinality(T) <= n /\ (Cardinality(T) = n \/ T = S)
  BY DEF FirstOf
<1>2. /\ Cardinality(S) \in Nat /\ Cardinality(T) \in Nat
      /\ Cardinality(T) <= Cardinality(S)
      /\ Cardinality(T) = Cardinality(S) => T = S
  BY <1>1, FS_Subset, FS_CardinalityType
<1> QED  BY <1>1, <1>2

Small == Cardinality(users) <= BroadcastLimit

LEMMA ListedToAll ==
  ASSUME PInv', Small', NEW l, Fits(l)
  PROVE  l.to = users'
<1>1. users' \subseteq Users /\ IsFiniteSet(Users)
  BY UsersAssumption DEF PInv, HInv, TypeOK, ObjectsTypeOK
<1>2. IsFiniteSet(users')  BY <1>1, FS_Subset
<1>3. BroadcastLimit \in Nat  BY LimitsAssumption
<1> QED  BY <1>2, <1>3, FirstOfAll DEF Small, Fits

\* Rooms publish all their events with the types of the subscriptions but one.
LEMMA RoomEventsHeard ==
  /\ PassedByRoom["RoomStatusChanged"] # Subscribed["RoomStatusChanged"]
  /\ \A name \in {"PlayerJoined", "PiecePlaced", "GameEnded", "DrawRequested",
                  "GiveUpRequested", "RoomListUpdated", "GameStarted", "SyncSeat"} :
       PassedByRoom[name] = Subscribed[name]
<1>1. \A name \in DOMAIN Subscribed : name # "RoomStatusChanged" =>
        PassedByRoom[name] = Subscribed[name]
  BY DEF PassedByRoom
<1>2. {"PlayerJoined", "PiecePlaced", "GameEnded", "DrawRequested",
       "GiveUpRequested", "RoomListUpdated", "GameStarted", "SyncSeat"}
        \subseteq DOMAIN Subscribed
  BY DEF Subscribed
<1>3. "RoomStatusChanged" \in DOMAIN Subscribed  BY DEF Subscribed
<1>4. PassedByRoom["RoomStatusChanged"] = <<U64, U64, "const char*">>
  BY <1>3 DEF PassedByRoom
<1>5. Subscribed["RoomStatusChanged"] = <<U64, U64, "std::string">>  BY DEF Subscribed
<1>6. <<U64, U64, "const char*">> # <<U64, U64, "std::string">>  OBVIOUS
<1> QED  BY <1>1, <1>2, <1>4, <1>5, <1>6

\* The kinds of events of a room that are heard: it publishes them the way a
\* handler would.
OfRooms ==
  {"PlayerJoined", "PiecePlaced", "GameEnded", "DrawRequested", "GiveUpRequested",
   "RoomListUpdated", "GameStarted", "SyncSeat"}

LEMMA RoomEventIs ==
  ASSUME NEW r, NEW event, event[1] \in OfRooms
  PROVE  RoomEvent(r, event) = FromHandler(r, event)
BY RoomEventsHeard DEF RoomEvent, FromHandler, OfRooms

-----------------------------------------------------------------------------
(* What one event tells a session.                                          *)

\* What a session knows has the fields of Blank.
IsView(v) ==
  /\ v = [about |-> v.about, seats |-> v.seats, players |-> v.players, stage |-> v.stage,
          cells |-> v.cells, synced |-> v.synced, list |-> v.list, online |-> v.online]
  /\ v.players \in Int

NoRoomNews(v) == v.seats = <<>> /\ v.players = Untold /\ v.stage = "None"

SameRoomNews(v, w) ==
  /\ w.seats = v.seats /\ w.players = v.players /\ w.stage = v.stage /\ w.cells = v.cells
  /\ w.about = v.about

SameLists(v, w) == w.list = v.list /\ w.online = v.online

LEMMA BlankIsView ==
  /\ IsView(Blank) /\ NoRoomNews(Blank) /\ Blank.list = <<>> /\ Blank.online = <<>>
  /\ Blank.about = {}
BY DEF Blank, IsView, NoRoomNews, Untold

\* News of room r for its players: the lists stay, and so does everything for
\* all other sessions.
IsRoomNews(v, w, s, r) ==
  /\ IsView(w) /\ SameLists(v, w)
  /\ ~Member(s, r)' => w = v
  /\ Member(s, r)' => w.about = v.about \cup {r}

LEMMA HearsInRoom ==
  ASSUME PInv', NEW s \in Sessions, NEW r, NEW v, NEW event, NEW types, NEW l,
         event[1] \notin {"UserLoggedIn", "RoomListUpdated"}
  PROVE  Hears(v, s, Event(r, event, types), l)
           = IF types = Subscribed[event[1]] /\ Member(s, r)'
             THEN [Told(v, Event(r, event, types), l) EXCEPT !.about = v.about \cup {r}]
             ELSE v
<1> DEFINE e == Event(r, event, types)
<1>1. e.room = r /\ e.event = event /\ e.types = types  BY DEF Event
<1> HIDE DEF e
<1>2. Reached(e, l) = BroadcastToRoom(r) /\ AboutAfter(v, e) = v.about \cup {r}
  BY <1>1 DEF Reached, AboutAfter, Listing
<1>3. s \in Reached(e, l) <=> Member(s, r)'  BY <1>2, ReachedInRoom
<1>4. Heard(e) <=> types = Subscribed[event[1]]  BY <1>1 DEF Heard
<1>5. Hears(v, s, e, l) = IF types = Subscribed[event[1]] /\ Member(s, r)'
                          THEN [Told(v, e, l) EXCEPT !.about = v.about \cup {r}] ELSE v
  BY <1>2, <1>3, <1>4 DEF Hears
<1> QED  BY <1>5 DEF e

\* The kinds of events that are about a room and heard.
News ==
  {"PlayerJoined", "PlayerLeft", "PiecePlaced", "GameEnded", "DrawRequested",
   "GiveUpRequested", "GameStarted", "SyncSeat", "RoomCreated", "DrawAccepted",
   "ChatMessageRecv"}

LEMMA HearsNews ==
  ASSUME PInv', NEW s \in Sessions, NEW r, NEW v, IsView(v), NEW event, NEW l,
         event[1] \in News
  PROVE  LET w == Hears(v, s, FromHandler(r, event), l)
             x == Told(v, FromHandler(r, event), l)
         IN  /\ FromHandler(r, event).event = event /\ FromHandler(r, event).room = r
             /\ w = IF Member(s, r)' THEN [x EXCEPT !.about = v.about \cup {r}] ELSE v
<1> DEFINE types == Subscribed[event[1]]
<1>1. FromHandler(r, event) = Event(r, event, types)  BY DEF FromHandler
<1>2. types = Subscribed[event[1]] /\ event[1] \notin {"UserLoggedIn", "RoomListUpdated"}
  BY DEF News
<1>3. Event(r, event, types).event = event /\ Event(r, event, types).room = r
  BY DEF Event
<1> HIDE DEF types
<1>4. Hears(v, s, Event(r, event, types), l)
        = IF Member(s, r)'
          THEN [Told(v, Event(r, event, types), l) EXCEPT !.about = v.about \cup {r}] ELSE v
  BY <1>2, HearsInRoom
<1> QED  BY <1>1, <1>3, <1>4

\* A push changes the fields it is about.
Differs(v, w, f) ==
  /\ IsView(w)
  /\ f # "about"   => w.about = v.about
  /\ f # "seats"   => w.seats = v.seats
  /\ f # "players" => w.players = v.players
  /\ f # "stage"   => w.stage = v.stage
  /\ f # "cells"   => w.cells = v.cells
  /\ f # "synced"  => w.synced = v.synced
  /\ f # "list"    => w.list = v.list
  /\ f # "online"  => w.online = v.online

LEMMA PushAbout ==
  ASSUME NEW v, IsView(v), NEW x, NEW w, w = [v EXCEPT !.about = x]
  PROVE  Differs(v, w, "about") /\ w.about = x
BY DEF IsView, Differs

LEMMA PushSeats ==
  ASSUME NEW v, IsView(v), NEW x, NEW w, w = [v EXCEPT !.seats = x]
  PROVE  Differs(v, w, "seats") /\ w.seats = x
BY DEF IsView, Differs

LEMMA PushPlayers ==
  ASSUME NEW v, IsView(v), NEW x \in Int, NEW w, w = [v EXCEPT !.players = x]
  PROVE  Differs(v, w, "players") /\ w.players = x
BY DEF IsView, Differs

LEMMA PushStage ==
  ASSUME NEW v, IsView(v), NEW x, NEW w, w = [v EXCEPT !.stage = x]
  PROVE  Differs(v, w, "stage") /\ w.stage = x
BY DEF IsView, Differs

LEMMA PushCells ==
  ASSUME NEW v, IsView(v), NEW x, NEW w, w = [v EXCEPT !.cells = x]
  PROVE  Differs(v, w, "cells") /\ w.cells = x
BY DEF IsView, Differs

LEMMA PushSynced ==
  ASSUME NEW v, IsView(v), NEW x, NEW w, w = [v EXCEPT !.synced = x]
  PROVE  Differs(v, w, "synced")
BY DEF IsView, Differs

LEMMA PushList ==
  ASSUME NEW v, IsView(v), NEW x, NEW w, w = [v EXCEPT !.list = x]
  PROVE  Differs(v, w, "list") /\ w.list = x
BY DEF IsView, Differs

LEMMA PushOnline ==
  ASSUME NEW v, IsView(v), NEW x, NEW w, w = [v EXCEPT !.online = x]
  PROVE  Differs(v, w, "online") /\ w.online = x
BY DEF IsView, Differs

\* One field changes, and the room the push was about is noted.
LEMMA PushedNews ==
  ASSUME NEW v, IsView(v), NEW u, NEW f, f \notin {"about", "list", "online"},
         Differs(v, u, f), NEW a,
         NEW w, w = [u EXCEPT !.about = a]
  PROVE  /\ IsView(w) /\ SameLists(v, w) /\ w.about = a
         /\ w.seats = u.seats /\ w.players = u.players
         /\ w.stage = u.stage /\ w.cells = u.cells
<1>1. IsView(u)  BY DEF Differs
<1>2. Differs(u, w, "about") /\ w.about = a  BY <1>1, PushAbout
<1>3. IsView(w) /\ w.list = u.list /\ w.online = u.online
      /\ w.seats = u.seats /\ w.players = u.players /\ w.stage = u.stage /\ w.cells = u.cells
  BY <1>2 DEF Differs
<1>4. u.list = v.list /\ u.online = v.online  BY DEF Differs
<1> QED  BY <1>2, <1>3, <1>4 DEF SameLists

LEMMA HearsSyncSeat ==
  ASSUME PInv', NEW s \in Sessions, NEW r, NEW v, IsView(v), NEW b, NEW c, NEW l,
         NEW w, w = Hears(v, s, RoomEvent(r, <<"SyncSeat", b, c>>), l)
  PROVE  /\ IsRoomNews(v, w, s, r)
         /\ Member(s, r)' => /\ w.seats = <<b, c>> /\ w.players = v.players
                             /\ w.stage = v.stage /\ w.cells = v.cells
<1> DEFINE event == <<"SyncSeat", b, c>>
           e == FromHandler(r, event)
           u == [v EXCEPT !.seats = <<b, c>>]
           x == Told(v, e, l)
<1>1. event[1] = "SyncSeat" /\ event[2] = b /\ event[3] = c  OBVIOUS
<1> HIDE DEF event
<1>0. event[1] \in News /\ event[1] \in OfRooms  BY <1>1 DEF News, OfRooms
<1>2. /\ RoomEvent(r, event) = e /\ e.event = event
      /\ Hears(v, s, e, l)
           = IF Member(s, r)' THEN [x EXCEPT !.about = v.about \cup {r}] ELSE v
  BY <1>0, RoomEventIs, HearsNews
<1> HIDE DEF e
<1>3. x = u  BY <1>1, <1>2 DEF Told
<1>4. w = IF Member(s, r)' THEN [u EXCEPT !.about = v.about \cup {r}] ELSE v
  BY <1>2, <1>3 DEF event
<1>5. Differs(v, u, "seats") /\ u.seats = <<b, c>>  BY PushSeats
<1> HIDE DEF u
<1>6. u.players = v.players /\ u.stage = v.stage /\ u.cells = v.cells  BY <1>5 DEF Differs
<1>7. CASE Member(s, r)'
  <2>1. "seats" \notin {"about", "list", "online"}  OBVIOUS
  <2>2. w = [u EXCEPT !.about = v.about \cup {r}]  BY <1>4, <1>7
  <2>3. /\ IsView(w) /\ SameLists(v, w) /\ w.about = v.about \cup {r}
        /\ w.seats = u.seats /\ w.players = u.players
        /\ w.stage = u.stage /\ w.cells = u.cells
    BY <1>5, <2>1, <2>2, PushedNews
  <2> QED  BY <1>5, <1>6, <1>7, <2>3 DEF IsRoomNews
<1>8. CASE ~Member(s, r)'  BY <1>4, <1>8 DEF IsRoomNews, SameLists
<1> QED  BY <1>7, <1>8

\* One player more, or one less.
More(event) == IF event[1] = "PlayerJoined" THEN 1 ELSE -1

LEMMA HearsPlayer ==
  ASSUME PInv', NEW s \in Sessions, NEW r, NEW v, IsView(v), NEW event, NEW l,
         event[1] \in {"PlayerJoined", "PlayerLeft"},
         NEW w, w = Hears(v, s, FromHandler(r, event), l)
  PROVE  /\ IsRoomNews(v, w, s, r)
         /\ Member(s, r)' => /\ w.players = Counted(v.players, More(event)) /\ w.seats = v.seats
                             /\ w.stage = v.stage /\ w.cells = v.cells
<1> DEFINE n == More(event)
           e == FromHandler(r, event)
           m == Counted(v.players, n)
           u == [v EXCEPT !.players = m]
           x == Told(v, e, l)
<1>0. event[1] \in News  BY DEF News
<1>1. /\ e.event = event
      /\ w = IF Member(s, r)' THEN [x EXCEPT !.about = v.about \cup {r}] ELSE v
  BY <1>0, HearsNews
<1> HIDE DEF e
<1>2. x = [v EXCEPT !.players = Counted(@, n)]  BY <1>1 DEF Told, More
<1>3. x = u  BY <1>2
<1>4. m \in Int  BY DEF Counted, IsView, Untold, More
<1> HIDE DEF m, n
<1>5. Differs(v, u, "players") /\ u.players = m  BY <1>4, PushPlayers
<1> HIDE DEF u, x
<1>6. u.seats = v.seats /\ u.stage = v.stage /\ u.cells = v.cells  BY <1>5 DEF Differs
<1>7. CASE Member(s, r)'
  BY <1>1, <1>3, <1>5, <1>6, <1>7, PushedNews DEF IsRoomNews, m, n
<1>8. CASE ~Member(s, r)'  BY <1>1, <1>8 DEF IsRoomNews, SameLists
<1> QED  BY <1>7, <1>8

\* Among the news of room r is how many are in it.
IsNumberNews(v, w, s, r, n) ==
  /\ IsRoomNews(v, w, s, r)
  /\ Member(s, r)' => /\ w.players = n /\ w.seats = v.seats
                      /\ w.stage = v.stage /\ w.cells = v.cells

\* A room publishes it when somebody joins.
LEMMA HearsJoined ==
  ASSUME PInv', NEW s \in Sessions, NEW r, NEW v, IsView(v), NEW p, NEW l,
         NEW w, w = Hears(v, s, RoomEvent(r, PlayerJoined(p)), l)
  PROVE  IsNumberNews(v, w, s, r, Counted(v.players, 1))
<1> DEFINE event == PlayerJoined(p)
<1>1. event[1] = "PlayerJoined"  BY DEF PlayerJoined
<1> HIDE DEF event
<1>2. RoomEvent(r, event) = FromHandler(r, event)  BY <1>1, RoomEventIs DEF OfRooms
<1>3. w = Hears(v, s, FromHandler(r, event), l)  BY <1>2 DEF event
<1>4. More(event) = 1  BY <1>1 DEF More
<1>5. /\ IsRoomNews(v, w, s, r)
      /\ Member(s, r)' => /\ w.players = Counted(v.players, More(event))
                          /\ w.seats = v.seats
                          /\ w.stage = v.stage /\ w.cells = v.cells
  BY <1>1, <1>3, HearsPlayer
<1> QED  BY <1>4, <1>5 DEF IsNumberNews

\* A game begins, or is over.
StageAfter(event) == IF event[1] = "GameStarted" THEN "Playing" ELSE "End"

LEMMA HearsGame ==
  ASSUME PInv', NEW s \in Sessions, NEW r, NEW v, IsView(v), NEW event, NEW l,
         event[1] \in {"GameStarted", "GameEnded"},
         NEW w, w = Hears(v, s, RoomEvent(r, event), l)
  PROVE  /\ IsRoomNews(v, w, s, r)
         /\ Member(s, r)' => /\ w.stage = StageAfter(event) /\ w.cells = {}
                             /\ w.seats = v.seats /\ w.players = v.players
<1> DEFINE stage == StageAfter(event)
           e == FromHandler(r, event)
           t == [v EXCEPT !.stage = stage]
           u == [t EXCEPT !.cells = {}]
           a == v.about \cup {r}
           x == Told(v, e, l)
           y == [u EXCEPT !.about = a]
<1>0. event[1] \in News /\ event[1] \in OfRooms  BY DEF News, OfRooms
<1>1. /\ RoomEvent(r, event) = e /\ e.event = event
      /\ Hears(v, s, e, l) = IF Member(s, r)' THEN [x EXCEPT !.about = a] ELSE v
  BY <1>0, RoomEventIs, HearsNews
<1> HIDE DEF e
<1>2. x = u  BY <1>1 DEF Told, StageAfter
<1>3. w = IF Member(s, r)' THEN y ELSE v  BY <1>1, <1>2
<1>4. Differs(v, t, "stage") /\ t.stage = stage  BY PushStage
<1> HIDE DEF t, x, stage
<1>5. IsView(t)  BY <1>4 DEF Differs
<1>6. Differs(t, u, "cells") /\ u.cells = {}  BY <1>5, PushCells
<1> HIDE DEF u
<1>7. IsView(u)  BY <1>6 DEF Differs
<1>8. Differs(u, y, "about") /\ y.about = a  BY <1>7, PushAbout
<1> HIDE DEF y
<1>9. /\ IsView(y) /\ y.list = v.list /\ y.online = v.online
      /\ y.seats = v.seats /\ y.players = v.players
      /\ y.stage = stage /\ y.cells = {}
  BY <1>4, <1>6, <1>8 DEF Differs
<1> QED  BY <1>3, <1>8, <1>9 DEF IsRoomNews, SameLists, stage

LEMMA HearsPiecePlaced ==
  ASSUME PInv', NEW s \in Sessions, NEW r, NEW v, IsView(v), NEW p, NEW c, NEW l,
         NEW w, w = Hears(v, s, RoomEvent(r, PiecePlaced(p, c)), l)
  PROVE  /\ IsRoomNews(v, w, s, r)
         /\ Member(s, r)' =>
              /\ v.stage = "Playing" => w.cells = v.cells \cup {c}
              /\ w.seats = v.seats /\ w.players = v.players /\ w.stage = v.stage
<1> DEFINE event == PiecePlaced(p, c)
           e == FromHandler(r, event)
           d == IF v.stage \in {"Playing", "DrawAsked"} THEN v.cells \cup {c} ELSE v.cells
           u == [v EXCEPT !.cells = d]
           x == Told(v, e, l)
<1>1. event[1] = "PiecePlaced" /\ event[3] = c  BY DEF PiecePlaced
<1> HIDE DEF event
<1>0. event[1] \in News /\ event[1] \in OfRooms  BY <1>1 DEF News, OfRooms
<1>2. /\ RoomEvent(r, event) = e /\ e.event = event
      /\ Hears(v, s, e, l)
           = IF Member(s, r)' THEN [x EXCEPT !.about = v.about \cup {r}] ELSE v
  BY <1>0, RoomEventIs, HearsNews
<1> HIDE DEF e
<1>3. x = [v EXCEPT !.cells = IF v.stage \in {"Playing", "DrawAsked"} THEN @ \cup {c} ELSE @]
  BY <1>1, <1>2 DEF Told
<1>4. x = u  BY <1>3
<1>5. w = IF Member(s, r)' THEN [u EXCEPT !.about = v.about \cup {r}] ELSE v
  BY <1>2, <1>4 DEF event
<1> HIDE DEF d
<1>6. Differs(v, u, "cells") /\ u.cells = d  BY PushCells
<1> HIDE DEF u, x
<1>7. u.seats = v.seats /\ u.players = v.players /\ u.stage = v.stage  BY <1>6 DEF Differs
<1>8. CASE Member(s, r)'
  BY <1>5, <1>6, <1>7, <1>8, PushedNews DEF IsRoomNews, d
<1>9. CASE ~Member(s, r)'  BY <1>5, <1>9 DEF IsRoomNews, SameLists
<1> QED  BY <1>8, <1>9

LEMMA HearsDraw ==
  ASSUME PInv', NEW s \in Sessions, NEW r, NEW v, IsView(v), NEW p, NEW l,
         NEW w, w = Hears(v, s, RoomEvent(r, DrawRequested(p)), l)
  PROVE  /\ IsRoomNews(v, w, s, r)
         /\ Member(s, r)' =>
              /\ w.stage = IF v.stage = "Playing" THEN "DrawAsked" ELSE v.stage
              /\ w.seats = v.seats /\ w.players = v.players /\ w.cells = v.cells
<1> DEFINE event == DrawRequested(p)
           e == FromHandler(r, event)
           d == IF v.stage = "Playing" THEN "DrawAsked" ELSE v.stage
           u == [v EXCEPT !.stage = d]
           x == Told(v, e, l)
<1>1. event[1] = "DrawRequested"  BY DEF DrawRequested
<1> HIDE DEF event
<1>0. event[1] \in News /\ event[1] \in OfRooms  BY <1>1 DEF News, OfRooms
<1>2. /\ RoomEvent(r, event) = e /\ e.event = event
      /\ Hears(v, s, e, l)
           = IF Member(s, r)' THEN [x EXCEPT !.about = v.about \cup {r}] ELSE v
  BY <1>0, RoomEventIs, HearsNews
<1> HIDE DEF e
<1>3. x = [v EXCEPT !.stage = IF @ = "Playing" THEN "DrawAsked" ELSE @]
  BY <1>1, <1>2 DEF Told
<1>4. x = u  BY <1>3
<1>5. w = IF Member(s, r)' THEN [u EXCEPT !.about = v.about \cup {r}] ELSE v
  BY <1>2, <1>4 DEF event
<1> HIDE DEF d
<1>6. Differs(v, u, "stage") /\ u.stage = d  BY PushStage
<1> HIDE DEF u, x
<1>7. u.seats = v.seats /\ u.players = v.players /\ u.cells = v.cells  BY <1>6 DEF Differs
<1>8. CASE Member(s, r)'
  BY <1>5, <1>6, <1>7, <1>8, PushedNews DEF IsRoomNews, d
<1>9. CASE ~Member(s, r)'  BY <1>5, <1>9 DEF IsRoomNews, SameLists
<1> QED  BY <1>8, <1>9

\* Three events that only say which room they are about.
Bare == {"GiveUpRequested", "DrawAccepted", "ChatMessageRecv"}

LEMMA HearsNothingNew ==
  ASSUME PInv', NEW s \in Sessions, NEW r, NEW v, IsView(v), NEW event, NEW l,
         event[1] \in Bare,
         NEW w, w = Hears(v, s, FromHandler(r, event), l)
  PROVE  /\ IsRoomNews(v, w, s, r)
         /\ w.seats = v.seats /\ w.players = v.players
         /\ w.stage = v.stage /\ w.cells = v.cells
<1> DEFINE e == FromHandler(r, event)
           x == Told(v, e, l)
<1>0. event[1] \in News  BY DEF News, Bare
<1>1. w = IF Member(s, r)' THEN [x EXCEPT !.about = v.about \cup {r}] ELSE v
  BY <1>0, HearsNews
<1>2. e.event = event  BY DEF FromHandler, Event
<1> HIDE DEF e
<1>3. x = v  BY <1>2 DEF Told, Bare
<1>4. Differs(v, v, "seats")  BY DEF Differs
<1>5. CASE Member(s, r)'
  BY <1>1, <1>3, <1>4, <1>5, PushedNews DEF IsRoomNews
<1>6. CASE ~Member(s, r)'  BY <1>1, <1>6 DEF IsRoomNews, SameLists
<1> QED  BY <1>5, <1>6

LEMMA HearsRoomCreated ==
  ASSUME PInv', NEW s \in Sessions, NEW r, NEW v, IsView(v), NEW p, NEW l,
         Len(rooms'[r].playerIds) = 1,
         NEW w, w = Hears(v, s, FromHandler(r, RoomCreated(p)), l)
  PROVE  IsNumberNews(v, w, s, r, 1)
<1> DEFINE n == Len(rooms'[r].playerIds)
           event == RoomCreated(p)
           e == FromHandler(r, event)
           t == [v EXCEPT !.players = n]
           u == [t EXCEPT !.synced = "created"]
           a == v.about \cup {r}
           x == Told(v, e, l)
           y == [u EXCEPT !.about = a]
<1>1. event[1] = "RoomCreated"  BY DEF RoomCreated
<1> HIDE DEF event
<1>0. event[1] \in News  BY <1>1 DEF News
<1>2. /\ e.event = event /\ e.room = r
      /\ w = IF Member(s, r)' THEN [x EXCEPT !.about = a] ELSE v
  <2>1. /\ FromHandler(r, event).event = event /\ FromHandler(r, event).room = r
        /\ Hears(v, s, FromHandler(r, event), l)
             = IF Member(s, r)'
               THEN [Told(v, FromHandler(r, event), l) EXCEPT !.about = v.about \cup {r}]
               ELSE v
    BY <1>0, HearsNews
  <2>2. w = Hears(v, s, e, l)  BY DEF event
  <2> QED  BY <2>1, <2>2
<1> HIDE DEF e
<1>3. x = u  BY <1>1, <1>2 DEF Told
<1>4. w = IF Member(s, r)' THEN y ELSE v  BY <1>2, <1>3
<1>5. Differs(v, t, "players") /\ t.players = n  BY PushPlayers
<1> HIDE DEF t, x, n
<1>6. IsView(t)  BY <1>5 DEF Differs
<1>7. Differs(t, u, "synced")  BY <1>6, PushSynced
<1> HIDE DEF u
<1>8. IsView(u)  BY <1>7 DEF Differs
<1>9. Differs(u, y, "about") /\ y.about = a  BY <1>8, PushAbout
<1> HIDE DEF y
<1>10. /\ IsView(y) /\ y.list = v.list /\ y.online = v.online
       /\ y.seats = v.seats /\ y.players = n
       /\ y.stage = v.stage /\ y.cells = v.cells
  BY <1>5, <1>7, <1>9 DEF Differs
<1>11. /\ IsRoomNews(v, w, s, r)
       /\ Member(s, r)' => /\ w.players = n /\ w.seats = v.seats
                           /\ w.stage = v.stage /\ w.cells = v.cells
  BY <1>4, <1>9, <1>10 DEF IsRoomNews, SameLists
<1> QED  BY <1>11 DEF IsNumberNews, n

\* Two events whose argument types nobody subscribed for.
LEMMA HearsNot ==
  ASSUME PInv', NEW s \in Sessions, NEW r, NEW v, NEW u, NEW l
  PROVE  /\ Hears(v, s, RoomEvent(r, RoomStatusChanged(u)), l) = v
         /\ Hears(v, s, JoinedOnceMore(r, u), l) = v
<1>1. Hears(v, s, RoomEvent(r, RoomStatusChanged(u)), l) = v
  <2> DEFINE event == RoomStatusChanged(u)
             types == PassedByRoom[event[1]]
  <2>1. event[1] = "RoomStatusChanged"  BY DEF RoomStatusChanged
  <2> HIDE DEF event
  <2>2. types # Subscribed[event[1]]  BY <2>1, RoomEventsHeard
  <2> HIDE DEF types
  <2>3. Hears(v, s, Event(r, event, types), l) = v  BY <2>1, <2>2, HearsInRoom
  <2> QED  BY <2>3 DEF RoomEvent, event, types
<1>2. Hears(v, s, JoinedOnceMore(r, u), l) = v
  <2> DEFINE event == PlayerJoined(u)
             types == <<"uint32_t", U64>>
  <2>1. event[1] = "PlayerJoined"  BY DEF PlayerJoined
  <2>2. types # Subscribed[event[1]]
    <3>1. Subscribed["PlayerJoined"] = <<U64, U64>>  BY DEF Subscribed
    <3>2. types # <<U64, U64>>  BY DEF U64
    <3> QED  BY <2>1, <3>1, <3>2
  <2> HIDE DEF event, types
  <2>3. Hears(v, s, Event(r, event, types), l) = v  BY <2>1, <2>2, HearsInRoom
  <2> QED  BY <2>3 DEF JoinedOnceMore, event, types
<1> QED  BY <1>1, <1>2

\* Either list: of the rooms that fit, or of the users that fit.
ListOf(R) == [r \in R |-> RoomLine(rooms[r])]

OnlineOf(U) == [u \in U |-> userIdToSessionIdMap[u] # NoSession]

\* A push of a list, to whoever it reaches, and to all if there are few users.
LEMMA HearsLists ==
  ASSUME PInv', NEW s \in Sessions, NEW r, NEW v, IsView(v), NEW event, NEW l, Fits(l),
         event[1] \in {"RoomListUpdated", "UserLoggedIn"},
         NEW w, w = Hears(v, s, FromHandler(r, event), l)
  PROVE  /\ IsView(w) /\ SameRoomNews(v, w)
         /\ ~LoggedIn(s)' => w = v
         /\ event[1] = "RoomListUpdated" =>
              /\ w.online = v.online
              /\ w.list = v.list \/ w.list = ListOf(l.rooms)'
              /\ Small' /\ LoggedIn(s)' => w.list = ListOf(l.rooms)'
         /\ event[1] = "UserLoggedIn" =>
              /\ w.list = v.list
              /\ w.online = v.online \/ w.online = OnlineOf(l.users)'
              /\ Small' /\ LoggedIn(s)' => w.online = OnlineOf(l.users)'
<1> DEFINE e == FromHandler(r, event)
           hear == LoggedIn(s)' /\ Caller(s)' \in l.to
           x == Told(v, e, l)
           y == [x EXCEPT !.about = v.about]
<1>1. e.room = r /\ e.event = event /\ e.types = Subscribed[event[1]]
  BY DEF FromHandler, Event
<1> HIDE DEF e
<1>2. /\ Reached(e, l) = SessionsOf(l.to) /\ AboutAfter(v, e) = v.about /\ Heard(e)
  BY <1>1 DEF Reached, AboutAfter, Listing, Heard
<1>3. l.to \subseteq users'  BY DEF Fits, FirstOf
<1>4. w = IF hear THEN y ELSE v
  BY <1>2, <1>3, SessionIsCallers DEF Hears, e
<1>5. Small' /\ LoggedIn(s)' => hear
  BY ListedToAll DEF LoggedIn
<1>6. \/ event[1] = "RoomListUpdated" /\ x = [v EXCEPT !.list = ListOf(l.rooms)']
      \/ event[1] = "UserLoggedIn" /\ x = [v EXCEPT !.online = OnlineOf(l.users)']
  BY <1>1 DEF Told, ListOf, OnlineOf
<1>7. \/ event[1] = "RoomListUpdated" /\ Differs(v, x, "list") /\ x.list = ListOf(l.rooms)'
      \/ event[1] = "UserLoggedIn" /\ Differs(v, x, "online") /\ x.online = OnlineOf(l.users)'
  BY <1>6, PushList, PushOnline, SMTT(40)
<1> HIDE DEF x
<1>8. IsView(x)  BY <1>7 DEF Differs
<1>9. Differs(x, y, "about") /\ y.about = v.about  BY <1>8, PushAbout
<1> HIDE DEF y, hear
<1>10. /\ IsView(y) /\ SameRoomNews(v, y) /\ y.list = x.list /\ y.online = x.online
  BY <1>7, <1>9 DEF Differs, SameRoomNews
<1>11. SameRoomNews(v, v)  BY DEF SameRoomNews
<1>12. \/ event[1] = "RoomListUpdated" /\ y.list = ListOf(l.rooms)' /\ y.online = v.online
       \/ event[1] = "UserLoggedIn" /\ y.online = OnlineOf(l.users)' /\ y.list = v.list
  BY <1>7, <1>10 DEF Differs
<1>13. hear => LoggedIn(s)'  BY DEF hear
<1> QED  BY <1>4, <1>5, <1>10, <1>11, <1>12, <1>13

-----------------------------------------------------------------------------
(* The events of a packet are heard one after the other.                    *)

LEMMA PublishIs ==
  ASSUME NEW known, NEW events, NEW n \in 0 .. 4, DOMAIN events = 1 .. n,
         Publish(known, events), NEW s \in Watched
  PROVE  \E l : LET v1 == Hears(known[s], s, events[1], l)
                    v2 == Hears(v1, s, events[2], l)
                    v3 == Hears(v2, s, events[3], l)
                    v4 == Hears(v3, s, events[4], l)
                IN  /\ (\E i \in 1 .. n : Listing(events[i])) => Fits(l)
                    /\ n = 0 => view'[s] = known[s]
                    /\ n = 1 => view'[s] = v1
                    /\ n = 2 => view'[s] = v2
                    /\ n = 3 => view'[s] = v3
                    /\ n = 4 => view'[s] = v4
<1>1. PICK l \in Lists(events) :
        view'[s] = After(After(After(After(known[s], s, events, 1, l), s, events, 2, l),
                               s, events, 3, l), s, events, 4, l)
  BY DEF Publish
<1>2. (\E i \in 1 .. n : Listing(events[i])) => Fits(l)
  BY DEF Lists, Fits
<1>3. ASSUME NEW v, NEW i \in 1 .. 4
      PROVE  After(v, s, events, i, l) = IF i <= n THEN Hears(v, s, events[i], l) ELSE v
  BY DEF After
<1> QED  BY <1>1, <1>2, <1>3

LEMMA PublishOne ==
  ASSUME NEW known, NEW e, Publish(known, <<e>>), NEW s \in Watched
  PROVE  \E l : /\ Listing(e) => Fits(l)
                /\ view'[s] = Hears(known[s], s, e, l)
<1> DEFINE events == <<e>>
<1>1. DOMAIN events = 1 .. 1 /\ events[1] = e /\ Publish(known, events)  OBVIOUS
<1> HIDE DEF events
<1> QED  BY <1>1, PublishIs

LEMMA FromRoomIs ==
  ASSUME NEW r, NEW events
  PROVE  /\ DOMAIN FromRoom(r, events) = DOMAIN events
         /\ \A i \in DOMAIN events : FromRoom(r, events)[i] = RoomEvent(r, events[i])
         /\ FromRoom(r, events) \in
              [DOMAIN events -> {RoomEvent(r, events[i]) : i \in DOMAIN events}]
BY DEF FromRoom, RoomEvent

LEMMA PublishFromRoom1 ==
  ASSUME NEW r, NEW a, Publish(view, FromRoom(r, <<a>>)), NEW s \in Watched
  PROVE  \E l : view'[s] = Hears(view[s], s, RoomEvent(r, a), l)
<1> DEFINE events == FromRoom(r, <<a>>)
<1>1. DOMAIN <<a>> = 1 .. 1 /\ <<a>>[1] = a  OBVIOUS
<1>2. DOMAIN events = 1 .. 1 /\ events[1] = RoomEvent(r, a)  BY <1>1, FromRoomIs
<1> HIDE DEF events
<1>3. Publish(view, events)  BY DEF events
<1> QED  BY <1>2, <1>3, PublishIs

LEMMA PublishFromRoom2 ==
  ASSUME NEW r, NEW a, NEW b, Publish(view, FromRoom(r, <<a, b>>)), NEW s \in Watched
  PROVE  \E l : /\ Listing(RoomEvent(r, b)) => Fits(l)
                /\ view'[s] = Hears(Hears(view[s], s, RoomEvent(r, a), l),
                                    s, RoomEvent(r, b), l)
<1> DEFINE events == FromRoom(r, <<a, b>>)
<1>1. DOMAIN <<a, b>> = 1 .. 2 /\ <<a, b>>[1] = a /\ <<a, b>>[2] = b  OBVIOUS
<1>2. /\ DOMAIN events = 1 .. 2
      /\ events[1] = RoomEvent(r, a) /\ events[2] = RoomEvent(r, b)
  BY <1>1, FromRoomIs
<1> HIDE DEF events
<1>3. Publish(view, events)  BY DEF events
<1> QED  BY <1>2, <1>3, PublishIs

LEMMA PublishFromRoom3 ==
  ASSUME NEW r, NEW a, NEW b, NEW c, Publish(view, FromRoom(r, <<a, b, c>>)),
         NEW s \in Watched
  PROVE  \E l : /\ Listing(RoomEvent(r, c)) => Fits(l)
                /\ view'[s] = Hears(Hears(Hears(view[s], s, RoomEvent(r, a), l),
                                          s, RoomEvent(r, b), l), s, RoomEvent(r, c), l)
<1> DEFINE t == <<a, b, c>>
           events == FromRoom(r, t)
<1>1. DOMAIN t = 1 .. 3 /\ t[1] = a /\ t[2] = b /\ t[3] = c  OBVIOUS
<1> HIDE DEF t
<1>2. /\ DOMAIN events = 1 .. 3 /\ events[1] = RoomEvent(r, a)
      /\ events[2] = RoomEvent(r, b) /\ events[3] = RoomEvent(r, c)
  BY <1>1, FromRoomIs
<1> HIDE DEF events
<1>3. Publish(view, events)  BY DEF events, t
<1> QED  BY <1>2, <1>3, PublishIs

\* Two events of a room followed by one or two of the handler.
LEMMA PublishFromRoomThenOne ==
  ASSUME NEW r, NEW a, NEW b, NEW c, Publish(view, FromRoom(r, <<a, b>>) \o <<c>>),
         NEW s \in Watched
  PROVE  \E l : /\ Listing(RoomEvent(r, b)) => Fits(l)
                /\ view'[s] = Hears(Hears(Hears(view[s], s, RoomEvent(r, a), l),
                                          s, RoomEvent(r, b), l), s, c, l)
<1> DEFINE p == RoomEvent(r, a)
           q == RoomEvent(r, b)
           first == FromRoom(r, <<a, b>>)
           then == <<c>>
           all == <<p, q, c>>
           S == {p, q, c}
<1>1. DOMAIN <<a, b>> = 1 .. 2 /\ <<a, b>>[1] = a /\ <<a, b>>[2] = b  OBVIOUS
<1>2. /\ DOMAIN first = 1 .. 2 /\ first[1] = p /\ first[2] = q
      /\ first \in [1 .. 2 -> {RoomEvent(r, <<a, b>>[i]) : i \in 1 .. 2}]
  BY <1>1, FromRoomIs
<1>3. \A i \in 1 .. 2 : RoomEvent(r, <<a, b>>[i]) \in S  BY <1>1
<1> HIDE DEF first, p, q, S
<1>4. first \in [1 .. 2 -> S]  BY <1>2, <1>3, ZenonT(40)
<1>5. first \in Seq(S) /\ Len(first) = 2
  <2>1. first \in Seq(S)  BY <1>4, SeqDef
  <2>2. Len(first) \in Nat /\ 1 .. Len(first) = 1 .. 2  BY <1>2, <2>1, LenProperties
  <2>3. 2 \in 1 .. Len(first) /\ 3 \notin 1 .. Len(first)  BY <2>2
  <2> QED  BY <2>1, <2>2, <2>3
<1>6. /\ then \in Seq(S) /\ Len(then) = 1 /\ then[1] = c
      /\ all \in Seq(S) /\ Len(all) = 3 /\ DOMAIN all = 1 .. 3
      /\ all[1] = p /\ all[2] = q /\ all[3] = c
  BY DEF S
<1> HIDE DEF then, all
<1>7. /\ \A i \in 1 .. Len(first) : all[i] = first[i]
      /\ \A i \in 1 .. Len(then) : all[Len(first) + i] = then[i]
      /\ Len(all) = Len(first) + Len(then)
  BY <1>2, <1>5, <1>6
<1>8. first \o then = all  BY <1>5, <1>6, <1>7, ConcatIs
<1>9. Publish(view, all)  BY <1>8 DEF first, then
<1>10. \E l : /\ Listing(q) => Fits(l)
              /\ view'[s] = Hears(Hears(Hears(view[s], s, p, l), s, q, l), s, c, l)
  BY <1>6, <1>9, PublishIs
<1> QED  BY <1>10 DEF p, q

LEMMA PublishFromRoomThenTwo ==
  ASSUME NEW r, NEW a, NEW b, NEW c, NEW d,
         Publish(view, FromRoom(r, <<a, b>>) \o <<c, d>>), NEW s \in Watched
  PROVE  \E l : /\ Listing(d) => Fits(l)
                /\ view'[s] = Hears(Hears(Hears(Hears(view[s], s, RoomEvent(r, a), l),
                                    s, RoomEvent(r, b), l), s, c, l), s, d, l)
<1> DEFINE p == RoomEvent(r, a)
           q == RoomEvent(r, b)
           first == FromRoom(r, <<a, b>>)
           then == <<c, d>>
           all == <<p, q, c, d>>
           S == {p, q, c, d}
<1>1. DOMAIN <<a, b>> = 1 .. 2 /\ <<a, b>>[1] = a /\ <<a, b>>[2] = b  OBVIOUS
<1>2. /\ DOMAIN first = 1 .. 2 /\ first[1] = p /\ first[2] = q
      /\ first \in [1 .. 2 -> {RoomEvent(r, <<a, b>>[i]) : i \in 1 .. 2}]
  BY <1>1, FromRoomIs
<1>3. \A i \in 1 .. 2 : RoomEvent(r, <<a, b>>[i]) \in S  BY <1>1
<1> HIDE DEF first, p, q, S
<1>4. first \in [1 .. 2 -> S]  BY <1>2, <1>3, ZenonT(40)
<1>5. first \in Seq(S) /\ Len(first) = 2
  <2>1. first \in Seq(S)  BY <1>4, SeqDef
  <2>2. Len(first) \in Nat /\ 1 .. Len(first) = 1 .. 2  BY <1>2, <2>1, LenProperties
  <2>3. 2 \in 1 .. Len(first) /\ 3 \notin 1 .. Len(first)  BY <2>2
  <2> QED  BY <2>1, <2>2, <2>3
<1>6. /\ then \in Seq(S) /\ Len(then) = 2 /\ then[1] = c /\ then[2] = d
      /\ all \in Seq(S) /\ Len(all) = 4 /\ DOMAIN all = 1 .. 4
      /\ all[1] = p /\ all[2] = q /\ all[3] = c /\ all[4] = d
  BY DEF S
<1> HIDE DEF then, all
<1>7. /\ \A i \in 1 .. Len(first) : all[i] = first[i]
      /\ \A i \in 1 .. Len(then) : all[Len(first) + i] = then[i]
      /\ Len(all) = Len(first) + Len(then)
  BY <1>2, <1>5, <1>6
<1>8. first \o then = all  BY <1>5, <1>6, <1>7, ConcatIs
<1>9. Publish(view, all)  BY <1>8 DEF first, then
<1>10. \E l : /\ Listing(d) => Fits(l)
              /\ view'[s] = Hears(Hears(Hears(Hears(view[s], s, p, l), s, q, l), s, c, l),
                                  s, d, l)
  BY <1>6, <1>9, PublishIs
<1> QED  BY <1>10 DEF p, q

\* The list of rooms, whether a room publishes it or the handler.
LEMMA ListingEvents ==
  /\ \A r : Listing(RoomEvent(r, RoomListUpdated))
  /\ \A r : RoomEvent(r, RoomListUpdated) = FromHandler(r, RoomListUpdated)
  /\ \A r : Listing(FromHandler(r, RoomListUpdated))
  /\ \A r, u : Listing(FromHandler(r, UserLoggedIn(u)))
  /\ RoomListUpdated[1] = "RoomListUpdated"
  /\ \A u : UserLoggedIn(u)[1] = "UserLoggedIn"
<1>1. RoomListUpdated[1] = "RoomListUpdated"  BY DEF RoomListUpdated
<1>2. \A u : UserLoggedIn(u)[1] = "UserLoggedIn"  BY DEF UserLoggedIn
<1>3. \A r, event : FromHandler(r, event).event = event  BY DEF FromHandler, Event
<1>4. \A r : RoomEvent(r, RoomListUpdated) = FromHandler(r, RoomListUpdated)
  BY <1>1, RoomEventIs DEF OfRooms
<1>5. \A r : Listing(FromHandler(r, RoomListUpdated))  BY <1>1, <1>3 DEF Listing
<1>6. \A r, u : Listing(FromHandler(r, UserLoggedIn(u)))  BY <1>2, <1>3 DEF Listing
<1> QED  BY <1>1, <1>2, <1>4, <1>5, <1>6

-----------------------------------------------------------------------------
(* The inductive invariant of the pushes. *)

\* How many users the room map has in room r.
Mapped(r) == Cardinality({u \in Users : userIdToRoomIdMap[u] = r})

Occupied(q) == {c \in Cells(q.game.boardSize) : q.game.board[c] # "EMPTY"}

\* What v says of room q, which n users are mapped to, if anything.
Sees(v, q, n) ==
  /\ v.seats # <<>> => v.seats = <<q.blackPlayerId, q.whitePlayerId>>
  /\ v.players # Untold => v.players = n
  /\ v.players # Untold => (Playing(q) => v.stage = "Playing")
  /\ v.stage = "Playing" => Playing(q) /\ v.cells = Occupied(q)
  /\ v.stage \in {"End", "DrawAsked"} => q.status = "End"

SeesList(v, rs) ==
  v.list # <<>> =>
    /\ DOMAIN v.list \in FirstOf(DOMAIN rs, ListLimit)
    /\ \A r \in DOMAIN v.list :
         \/ v.list[r] = RoomLine(rs[r])
         \/ v.list[r].status = "Playing" /\ rs[r].status = "End"

SeesOnline(v) ==
  v.online # <<>> =>
    /\ DOMAIN v.online \in FirstOf(users, ListLimit)
    /\ \A u \in DOMAIN v.online : userIdToSessionIdMap[u] # NoSession => v.online[u]

Knows(s, v) ==
  /\ IsView(v)
  /\ ~LoggedIn(s) => v = Blank
  /\ v.about \subseteq RoomsOf(s)
  /\ v.about = {} => NoRoomNews(v)
  /\ \A r : Listens(s, r) => Sees(v, rooms[r], Mapped(r))
  /\ Small => SeesList(v, rooms) /\ SeesOnline(v)

ViewInv ==
  /\ DOMAIN view = Watched
  /\ \A s \in Watched : Knows(s, view[s])

\* News of the room depends on the fields of the room only.
LEMMA SameNewsSees ==
  ASSUME NEW v, NEW w, SameRoomNews(v, w), NEW q, NEW p, NEW n,
         p.blackPlayerId = q.blackPlayerId, p.whitePlayerId = q.whitePlayerId,
         p.status = q.status, p.game = q.game, Sees(v, q, n)
  PROVE  Sees(w, p, n)
BY DEF SameRoomNews, Sees, Playing, Occupied

LEMMA NoNewsSees ==
  ASSUME NEW v, NoRoomNews(v), NEW q, NEW n
  PROVE  Sees(v, q, n)
BY DEF NoRoomNews, Sees

LEMMA NewsAddUp ==
  ASSUME NEW v, NEW u, NEW w, NEW s, NEW r, IsRoomNews(v, u, s, r), IsRoomNews(u, w, s, r)
  PROVE  IsRoomNews(v, w, s, r)
BY DEF IsRoomNews, SameLists

\* The users in a room by the room map, when the map of user c changes.
LEMMA MappedChanges ==
  ASSUME HInv, NEW c \in Users, NEW k,
         userIdToRoomIdMap' = [userIdToRoomIdMap EXCEPT ![c] = k], NEW r
  PROVE  /\ Mapped(r) \in Nat
         /\ Mapped(r)' = CASE userIdToRoomIdMap[c] = r /\ k # r -> Mapped(r) - 1
                           [] userIdToRoomIdMap[c] # r /\ k = r -> Mapped(r) + 1
                           [] OTHER -> Mapped(r)
<1> DEFINE S == {u \in Users : userIdToRoomIdMap[u] = r}
           T == {u \in Users : userIdToRoomIdMap'[u] = r}
<1>1. \A u \in Users : userIdToRoomIdMap'[u] = IF u = c THEN k ELSE userIdToRoomIdMap[u]
  BY DEF HInv, TypeOK, ObjectsTypeOK
<1>2. IsFiniteSet(S)  BY UsersAssumption, FS_Subset
<1>3. Cardinality(S) \in Nat  BY <1>2, FS_CardinalityType
<1>4. CASE userIdToRoomIdMap[c] = r /\ k # r
  <2>1. T = S \ {c} /\ c \in S  BY <1>1, <1>4
  <2>2. Cardinality(T) = Cardinality(S) - 1
    <3> HIDE DEF S, T
    <3> QED  BY <1>2, <2>1, FS_RemoveElement
  <2> QED  BY <1>3, <1>4, <2>2 DEF Mapped
<1>5. CASE userIdToRoomIdMap[c] # r /\ k = r
  <2>1. T = S \cup {c} /\ c \notin S  BY <1>1, <1>5
  <2>2. Cardinality(T) = Cardinality(S) + 1
    <3> HIDE DEF S, T
    <3> QED  BY <1>2, <2>1, FS_AddElement
  <2> QED  BY <1>3, <1>5, <2>2 DEF Mapped
<1>6. CASE userIdToRoomIdMap[c] = r <=> k = r
  <2>1. T = S  BY <1>1, <1>6
  <2> QED  BY <1>3, <1>6, <2>1 DEF Mapped
<1> QED  BY <1>4, <1>5, <1>6

\* A packet of somebody in the lobby, a room or a game: nobody logs in or out.
LEMMA StepSeen ==
  ASSUME ViewInv, UNCHANGED <<users, sessionMaps>>, DOMAIN view' = Watched,
         \A s \in Watched :
           LET v == view[s]
               w == view'[s]
           IN  /\ IsView(w)
               /\ w.online = v.online
               /\ ~LoggedIn(s) => w = v
               /\ RoomsOf(s) \subseteq RoomsOf(s)'
               /\ w.about \subseteq v.about \cup RoomsOf(s)'
               /\ w.about = {} => SameRoomNews(v, w)
               /\ \A r : Listens(s, r)' => Sees(w, rooms'[r], Mapped(r)')
               /\ Small => SeesList(w, rooms')
  PROVE  ViewInv'
<1> SUFFICES ASSUME NEW s \in Watched PROVE Knows(s, view[s])'
  BY DEF ViewInv
<1>1. PICK v, w : v = view[s] /\ w = view'[s]  OBVIOUS
<1>2. Knows(s, v)  BY <1>1 DEF ViewInv
<1>3. /\ IsView(w)
      /\ w.online = v.online
      /\ ~LoggedIn(s) => w = v
      /\ RoomsOf(s) \subseteq RoomsOf(s)'
      /\ w.about \subseteq v.about \cup RoomsOf(s)'
      /\ w.about = {} => SameRoomNews(v, w)
      /\ \A r : Listens(s, r)' => Sees(w, rooms'[r], Mapped(r)')
      /\ Small => SeesList(w, rooms')
  BY <1>1
<1>4. LoggedIn(s)' = LoggedIn(s) /\ Small' = Small
  BY DEF LoggedIn, Caller, Small, sessionMaps
<1>5. ~LoggedIn(s)' => w = Blank  BY <1>2, <1>3, <1>4 DEF Knows
<1>6. w.about \subseteq RoomsOf(s)'  BY <1>2, <1>3 DEF Knows
<1>7. w.about = {} => NoRoomNews(w)
  BY <1>2, <1>3 DEF Knows, SameRoomNews, NoRoomNews
<1>8. Small => SeesOnline(w)'
  <2>1. Small => SeesOnline(v)  BY <1>2 DEF Knows
  <2>2. UNCHANGED <<users, userIdToSessionIdMap>>  BY DEF sessionMaps
  <2> QED  BY <1>3, <2>1, <2>2 DEF SeesOnline
<1>9. Knows(s, w)'  BY <1>3, <1>4, <1>5, <1>6, <1>7, <1>8 DEF Knows
<1> QED  BY <1>1, <1>9 DEF Knows

LineKept(q, p) ==
  RoomLine(p) = RoomLine(q) \/ (q.status = "Playing" /\ p.status = "End")

\* A list that was right stays right.
LEMMA ListKept ==
  ASSUME NEW v, NEW w, w.list = v.list, SeesList(v, rooms), DOMAIN rooms' = DOMAIN rooms,
         \A r \in DOMAIN rooms : LineKept(rooms[r], rooms'[r])
  PROVE  SeesList(w, rooms')
<1> SUFFICES ASSUME v.list # <<>>
             PROVE  /\ DOMAIN v.list \in FirstOf(DOMAIN rooms, ListLimit)
                    /\ \A r \in DOMAIN v.list :
                         \/ v.list[r] = RoomLine(rooms'[r])
                         \/ v.list[r].status = "Playing" /\ rooms'[r].status = "End"
  BY DEF SeesList
<1>1. /\ DOMAIN v.list \in FirstOf(DOMAIN rooms, ListLimit)
      /\ \A r \in DOMAIN v.list :
           \/ v.list[r] = RoomLine(rooms[r])
           \/ v.list[r].status = "Playing" /\ rooms[r].status = "End"
  BY DEF SeesList
<1>2. DOMAIN v.list \subseteq DOMAIN rooms  BY <1>1 DEF FirstOf
<1>3. ASSUME NEW r \in DOMAIN v.list
      PROVE  \/ v.list[r] = RoomLine(rooms'[r])
             \/ v.list[r].status = "Playing" /\ rooms'[r].status = "End"
  <2>1. RoomLine(rooms[r]).status = rooms[r].status
        /\ RoomLine(rooms'[r]).status = rooms'[r].status
    BY DEF RoomLine
  <2>2. LineKept(rooms[r], rooms'[r])  BY <1>2
  <2>3. CASE RoomLine(rooms'[r]) = RoomLine(rooms[r])
    BY <1>1, <2>1, <2>3
  <2>4. CASE rooms[r].status = "Playing" /\ rooms'[r].status = "End"
    BY <1>1, <2>1, <2>4
  <2> QED  BY <2>2, <2>3, <2>4 DEF LineKept
<1> QED  BY <1>1, <1>3

\* A list that was pushed is right.
LEMMA ListPushed ==
  ASSUME NEW R, R \in FirstOf(DOMAIN rooms, ListLimit), NEW v, v.list = ListOf(R)
  PROVE  SeesList(v, rooms)
BY DEF SeesList, ListOf

\* Session s is told all there is to tell when room k becomes p.
ListTold(v, w, s, kept) ==
  \/ kept /\ w.list = v.list
  \/ \E R \in FirstOf(DOMAIN rooms', ListLimit) : w.list = ListOf(R)'
  \/ ~(Small /\ LoggedIn(s))

IsTold(s, k, p) ==
  LET v == view[s]
      w == view'[s]
  IN  /\ IsView(w)
      /\ w.online = v.online
      /\ ~LoggedIn(s) => w = v
      /\ w.about \in {v.about, v.about \cup {k}}
      /\ ~Member(s, k) \/ w.about = {} => SameRoomNews(v, w)
      /\ Listens(s, k) => Sees(w, p, Mapped(k))
      /\ ListTold(v, w, s, LineKept(rooms[k], p))

LEMMA SamePlaces ==
  ASSUME UNCHANGED <<users, sessionMaps>>, DOMAIN rooms' = DOMAIN rooms,
         \A r \in DOMAIN rooms : rooms'[r].playerIds = rooms[r].playerIds, NEW s
  PROVE  /\ LoggedIn(s)' = LoggedIn(s)
         /\ RoomsOf(s)' = RoomsOf(s)
         /\ \A r : Member(s, r)' = Member(s, r) /\ Listens(s, r)' = Listens(s, r)
<1>1. LoggedIn(s)' = LoggedIn(s) /\ Caller(s)' = Caller(s)
  BY DEF LoggedIn, Caller, sessionMaps
<1>2. RoomsOf(s)' = RoomsOf(s)  BY <1>1 DEF RoomsOf, InRoom
<1> QED  BY <1>1, <1>2 DEF Member, Listens

LEMMA RoomsOfAreRooms ==
  ASSUME NEW s, NEW r
  PROVE  /\ Listens(s, r) => Member(s, r)
         /\ Member(s, r) => LoggedIn(s) /\ r \in DOMAIN rooms
BY DEF Listens, Member, RoomsOf

\* Room k, so far q, becomes p, which has the same players, and events are
\* published.  Nothing else changes.
Becomes(k, q, p) ==
  /\ k \in DOMAIN rooms /\ rooms[k] = q /\ GoodRoom(q)
  /\ p.playerIds = q.playerIds
  /\ DOMAIN rooms' = DOMAIN rooms
  /\ \A r \in DOMAIN rooms : rooms'[r] = IF r = k THEN p ELSE rooms[r]
  /\ UNCHANGED <<users, sessionMaps, userIdToRoomIdMap>>

Changes(k, q, p) ==
  /\ Becomes(k, q, p)
  /\ DOMAIN view' = Watched
  /\ \A s \in Watched :
       /\ Member(s, k)' = Member(s, k)
       /\ LoggedIn(s)' = LoggedIn(s)
       /\ IsView(view[s])
       /\ Listens(s, k) => Sees(view[s], q, Mapped(k))

\* A packet that changes room k and nothing else.
LEMMA ChangeRoomSeen ==
  ASSUME ViewInv, NEW k, NEW q, NEW p, Changes(k, q, p),
         \A s \in Watched : IsTold(s, k, p)
  PROVE  ViewInv'
<1>1. /\ k \in DOMAIN rooms /\ rooms[k] = q
      /\ DOMAIN rooms' = DOMAIN rooms
      /\ \A r \in DOMAIN rooms : rooms'[r] = IF r = k THEN p ELSE rooms[r]
      /\ \A r \in DOMAIN rooms : rooms'[r].playerIds = rooms[r].playerIds
      /\ UNCHANGED <<users, sessionMaps, userIdToRoomIdMap>>
      /\ DOMAIN view' = Watched
  BY DEF Changes, Becomes
<1>2. \A r : Mapped(r)' = Mapped(r)  BY <1>1 DEF Mapped
<1>3. ASSUME NEW s \in Watched, NEW v, NEW w, v = view[s], w = view'[s]
      PROVE  /\ IsView(w)
             /\ w.online = v.online
             /\ ~LoggedIn(s) => w = v
             /\ RoomsOf(s) \subseteq RoomsOf(s)'
             /\ w.about \subseteq v.about \cup RoomsOf(s)'
             /\ w.about = {} => SameRoomNews(v, w)
             /\ \A r : Listens(s, r)' => Sees(w, rooms'[r], Mapped(r)')
             /\ Small => SeesList(w, rooms')
  <2>1. /\ IsView(w)
        /\ w.online = v.online
        /\ ~LoggedIn(s) => w = v
        /\ w.about \in {v.about, v.about \cup {k}}
        /\ ~Member(s, k) \/ w.about = {} => SameRoomNews(v, w)
        /\ Listens(s, k) => Sees(w, p, Mapped(k))
        /\ ListTold(v, w, s, LineKept(rooms[k], p))
    BY <1>3 DEF IsTold
  <2>2. Knows(s, v)  BY <1>3 DEF ViewInv
  <2>3. /\ RoomsOf(s)' = RoomsOf(s)
        /\ \A r : Listens(s, r)' = Listens(s, r)
    BY <1>1, SamePlaces
  <2>4. w.about \subseteq v.about \cup RoomsOf(s)'
    <3>1. CASE Member(s, k)  BY <2>1, <2>3, <3>1 DEF Member
    <3>2. CASE ~Member(s, k)  BY <2>1, <3>2 DEF SameRoomNews
    <3> QED  BY <3>1, <3>2
  <2>5. ASSUME NEW r, Listens(s, r) PROVE Sees(w, rooms'[r], Mapped(r)')
    <3>1. CASE r = k  BY <1>1, <1>2, <2>1, <2>5, <3>1
    <3>2. CASE r # k
      <4>1. r \in DOMAIN rooms /\ ~Member(s, k)
        BY <2>5, <3>2 DEF Listens, Member, RoomsOf
      <4>2. Sees(v, rooms[r], Mapped(r)) /\ rooms'[r] = rooms[r]
        BY <1>1, <2>2, <2>5, <3>2, <4>1 DEF Knows
      <4>3. SameRoomNews(v, w)  BY <2>1, <4>1
      <4> QED  BY <1>2, <4>2, <4>3, SameNewsSees
    <3> QED  BY <3>1, <3>2
  <2>6. ASSUME Small PROVE SeesList(w, rooms')
    <3>1. CASE LineKept(rooms[k], p) /\ w.list = v.list
      <4>1. \A r \in DOMAIN rooms : LineKept(rooms[r], rooms'[r])
        BY <1>1, <3>1 DEF LineKept
      <4> QED  BY <1>1, <2>2, <2>6, <3>1, <4>1, ListKept DEF Knows
    <3>2. CASE \E R \in FirstOf(DOMAIN rooms', ListLimit) : w.list = ListOf(R)'
      BY <3>2 DEF SeesList, ListOf
    <3>3. CASE ~LoggedIn(s)
      <4>1. w.list = <<>>  BY <2>1, <2>2, <3>3, BlankIsView DEF Knows
      <4> QED  BY <4>1 DEF SeesList
    <3> QED  BY <2>1, <2>6, <3>1, <3>2, <3>3 DEF ListTold
  <2> QED  BY <2>1, <2>3, <2>4, <2>5, <2>6
<1> QED  BY <1>1, <1>3, StepSeen

\* What session s is told if the list of rooms is not pushed, and if it is.
LEMMA ToldByNews ==
  ASSUME NEW k, NEW q, NEW p, Changes(k, q, p), NEW s \in Watched,
         LineKept(q, p), IsRoomNews(view[s], view'[s], s, k),
         Listens(s, k) => Sees(view'[s], p, Mapped(k))
  PROVE  IsTold(s, k, p)
<1>1. Member(s, k)' = Member(s, k) /\ IsView(view[s]) /\ rooms[k] = q
  BY DEF Changes, Becomes
<1> QED
  BY <1>1, RoomsOfAreRooms DEF IsRoomNews, IsTold, SameRoomNews, SameLists, ListTold

LEMMA ToldByList ==
  ASSUME PInv', NEW k, NEW q, NEW p, Changes(k, q, p), NEW s \in Watched,
         NEW u, IsRoomNews(view[s], u, s, k) \/ u = view[s], NEW l,
         Listing(RoomEvent(k, RoomListUpdated)) => Fits(l),
         view'[s] = Hears(u, s, RoomEvent(k, RoomListUpdated), l),
         Listens(s, k) => Sees(u, p, Mapped(k))
  PROVE  IsTold(s, k, p)
<1>1. PICK v, w : v = view[s] /\ w = view'[s]  OBVIOUS
<1>2. /\ Member(s, k)' = Member(s, k) /\ IsView(v) /\ rooms[k] = q
      /\ LoggedIn(s)' = LoggedIn(s) /\ Small' = Small /\ s \in Sessions
  BY <1>1, WatchedAssumption DEF Changes, Becomes, Small
<1>3. /\ IsView(u) /\ SameLists(v, u)
      /\ ~Member(s, k) => u = v
      /\ u.about = v.about \cup {k} \/ u = v
  BY <1>1, <1>2 DEF IsRoomNews, SameLists
<1>4. /\ IsView(w) /\ SameRoomNews(u, w)
      /\ ~LoggedIn(s) => w = u
      /\ w.online = u.online
      /\ Small /\ LoggedIn(s) => w.list = ListOf(l.rooms)'
      /\ Fits(l)
  <2>1. Fits(l) /\ w = Hears(u, s, FromHandler(k, RoomListUpdated), l)
    BY <1>1, ListingEvents
  <2> QED  BY <1>2, <1>3, <2>1, ListingEvents, HearsLists
<1>5. /\ w.about \in {v.about, v.about \cup {k}}
      /\ ~Member(s, k) \/ w.about = {} => SameRoomNews(v, w)
      /\ Member(s, k) => LoggedIn(s)
  BY <1>3, <1>4, RoomsOfAreRooms DEF SameRoomNews
<1>6. Listens(s, k) => Sees(w, p, Mapped(k))  BY <1>4, SameNewsSees
<1>7. ListTold(v, w, s, LineKept(rooms[k], p))  BY <1>4 DEF ListTold, Fits
<1>8. ~LoggedIn(s) => w = v  BY <1>3, <1>4, <1>5
<1> QED  BY <1>1, <1>3, <1>4, <1>5, <1>6, <1>7, <1>8 DEF IsTold, SameLists


-----------------------------------------------------------------------------
(* Packets that change one room, or none.                                   *)

LEMMA PublishDomain ==
  ASSUME NEW known, NEW events, Publish(known, events)
  PROVE  DOMAIN view' = Watched
BY DEF Publish

LEMMA BecomesChanges ==
  ASSUME ViewInv, NEW k, NEW q, NEW p, Becomes(k, q, p), DOMAIN view' = Watched
  PROVE  Changes(k, q, p)
<1>1. /\ k \in DOMAIN rooms /\ rooms[k] = q /\ p.playerIds = q.playerIds
      /\ DOMAIN rooms' = DOMAIN rooms
      /\ \A r \in DOMAIN rooms : rooms'[r] = IF r = k THEN p ELSE rooms[r]
      /\ UNCHANGED <<users, sessionMaps, userIdToRoomIdMap>>
  BY DEF Becomes
<1>2. \A r \in DOMAIN rooms : rooms'[r].playerIds = rooms[r].playerIds  BY <1>1
<1>3. ASSUME NEW s \in Watched
      PROVE  /\ Member(s, k)' = Member(s, k)
             /\ LoggedIn(s)' = LoggedIn(s)
             /\ IsView(view[s])
             /\ Listens(s, k) => Sees(view[s], q, Mapped(k))
  <2>1. Member(s, k)' = Member(s, k) /\ LoggedIn(s)' = LoggedIn(s)
    BY <1>1, <1>2, SamePlaces
  <2>2. Knows(s, view[s])  BY DEF ViewInv
  <2> QED  BY <1>1, <2>1, <2>2 DEF Knows
<1> QED  BY <1>3 DEF Changes

\* A packet that changes the caller's room, and one that changes nothing.
LEMMA RoomPacketFacts ==
  ASSUME ViewInv, PInv, NEW s0 \in Sessions, InARoom(s0), NEW q, q = CallersRoom(s0),
         NEW p, p.playerIds = q.playerIds,
         ChangeRoom(s0, p) \/ (UNCHANGED objects /\ p = q), DOMAIN view' = Watched
  PROVE  GoodRoom(q) /\ Caller(s0) \in Users /\ Changes(RoomOf(s0), q, p)
<1>1. PICK k : k = RoomOf(s0)  OBVIOUS
<1>2. k \in DOMAIN rooms /\ rooms[k] = q  BY <1>1 DEF InARoom, CallersRoom
<1>3. GoodRoom(q) /\ Caller(s0) \in Users
  BY <1>2 DEF PInv, HInv, RoomsAreGood, InARoom, LoggedIn, TypeOK, ObjectsTypeOK
<1>4. /\ DOMAIN rooms' = DOMAIN rooms
      /\ \A r \in DOMAIN rooms : rooms'[r] = IF r = k THEN p ELSE rooms[r]
      /\ UNCHANGED <<users, sessionMaps, userIdToRoomIdMap>>
  <2>1. CASE ChangeRoom(s0, p)
    <3>1. rooms' = [rooms EXCEPT ![k] = p]  BY <1>1, <2>1 DEF ChangeRoom
    <3> QED  BY <2>1, <3>1 DEF ChangeRoom
  <2>2. CASE UNCHANGED objects /\ p = q  BY <1>2, <2>2 DEF objects
  <2> QED  BY <2>1, <2>2
<1>5. Becomes(k, q, p)  BY <1>2, <1>3, <1>4 DEF Becomes
<1> QED  BY <1>1, <1>3, <1>5, BecomesChanges

\* The seats.
LEMMA SyncSeatSeen ==
  ASSUME ViewInv, PInv, PInv', NEW s0 \in Sessions,
         NEW black \in users \cup {NoUser}, NEW white \in users \cup {NoUser},
         SyncSeatPacket(s0, black, white),
         Notify(s0, SyncSeatEvents(CallersRoom(s0), Caller(s0), black, white))
  PROVE  ViewInv'
<1>1. PICK q, u, p, k : /\ q = CallersRoom(s0) /\ u = Caller(s0) /\ k = RoomOf(s0)
                        /\ p = SyncSeat(q, u, black, white)
  OBVIOUS
<1>2. /\ InARoom(s0) /\ SyncSeatOk(q, u, black, white) /\ ChangeRoom(s0, p)
      /\ Publish(view, FromRoom(k, <<SyncSeatEvent(p)>>))
  BY <1>1 DEF SyncSeatPacket, SyncSeatEvents, Notify
<1>3. /\ black \in Users \cup {NoUser} /\ white \in Users \cup {NoUser}
      /\ u \in Users /\ GoodRoom(q)
  BY <1>1, <1>2 DEF PInv, HInv, TypeOK, ObjectsTypeOK, RoomsAreGood, InARoom, LoggedIn,
                    CallersRoom
<1>4. p.playerIds = q.playerIds /\ p.status = q.status /\ p.game = q.game
  BY <1>1, <1>2, <1>3, SyncSeatGood
<1>5. Changes(k, q, p)  BY <1>1, <1>2, <1>4, PublishDomain, RoomPacketFacts
<1>6. LineKept(q, p)
  <2>1. PICK n \in BoardSizes : n \in Nat /\ q \in RoomType(n)  BY <1>3, GoodRoomType
  <2>2. q.status \in {"Free", "End"}  BY <1>2, <2>1, RoomFields DEF SyncSeatOk, Playing, Status
  <2>3. q.blackPlayerId = q.whitePlayerId => q.blackPlayerId = NoUser  BY <1>3 DEF GoodRoom
  <2>4. p.ownerId = q.ownerId  BY <1>1, <1>2, <1>3, <2>1, <2>3, SyncSeatFacts
  <2>5. CASE q.status = "Free"  BY <1>4, <2>4, <2>5 DEF LineKept, RoomLine
  <2>6. CASE q.status = "End"  BY <1>4, <2>6 DEF LineKept, RoomLine
  <2> QED  BY <2>2, <2>5, <2>6
<1>7. ASSUME NEW s \in Watched PROVE IsTold(s, k, p)
  <2>1. PICK v, w : v = view[s] /\ w = view'[s]  OBVIOUS
  <2>2. IsView(v) /\ s \in Sessions /\ Member(s, k)' = Member(s, k)
        /\ (Listens(s, k) => Sees(v, q, Mapped(k)))
    BY <1>5, <2>1, WatchedAssumption DEF Changes
  <2>3. PICK b, c : b = p.blackPlayerId /\ c = p.whitePlayerId  OBVIOUS
  <2>4. SyncSeatEvent(p) = <<"SyncSeat", b, c>>  BY <2>3 DEF SyncSeatEvent
  <2>5. PICK l : w = Hears(v, s, RoomEvent(k, <<"SyncSeat", b, c>>), l)
    BY <1>2, <2>1, <2>4, PublishFromRoom1
  <2>6. /\ IsRoomNews(v, w, s, k)
        /\ Member(s, k)' => /\ w.seats = <<b, c>> /\ w.players = v.players
                            /\ w.stage = v.stage /\ w.cells = v.cells
    BY <2>2, <2>5, HearsSyncSeat
  <2>7. Listens(s, k) => Sees(w, p, Mapped(k))
    BY <1>4, <2>2, <2>3, <2>6, RoomsOfAreRooms DEF Sees, Playing, Occupied
  <2> QED  BY <1>5, <1>6, <2>1, <2>6, <2>7, ToldByNews
<1> QED  BY <1>5, <1>7, ChangeRoomSeen

\* The settings, with or without a new board.
LEMMA SyncRoomSettingSeen ==
  ASSUME ViewInv, PInv, PInv', NEW s0 \in Sessions, InARoom(s0),
         EditRoomSettingOk(CallersRoom(s0), Caller(s0)),
         NEW p,
         \/ ChangeRoom(s0, p) /\ \E size \in BoardSizes :
                                   p = EditRoomSetting(CallersRoom(s0), size)
         \/ UNCHANGED objects /\ p = CallersRoom(s0),
         Notify(s0, EditRoomSettingEvents(Caller(s0)))
  PROVE  ViewInv'
<1>1. PICK q, u, k : /\ q = CallersRoom(s0) /\ u = Caller(s0) /\ k = RoomOf(s0)
  OBVIOUS
<1>2. /\ EditRoomSettingOk(q, u)
      /\ Publish(view, FromRoom(k, <<RoomStatusChanged(u), RoomListUpdated>>))
  BY <1>1 DEF EditRoomSettingEvents, Notify
<1>3. GoodRoom(q) /\ ~Playing(q)
  BY <1>1, <1>2 DEF PInv, HInv, RoomsAreGood, InARoom, CallersRoom, EditRoomSettingOk
<1>4. SamePeople(p, q) /\ p.status = q.status
  BY <1>1, <1>3, EditRoomSettingGood DEF SamePeople
<1>5. Changes(k, q, p)
  BY <1>1, <1>2, <1>4, PublishDomain, RoomPacketFacts DEF SamePeople
<1>6. ASSUME NEW s \in Watched PROVE IsTold(s, k, p)
  <2>1. PICK v, w : v = view[s] /\ w = view'[s]  OBVIOUS
  <2>2. IsView(v) /\ s \in Sessions /\ (Listens(s, k) => Sees(v, q, Mapped(k)))
    BY <1>5, <2>1, WatchedAssumption DEF Changes
  <2>3. PICK l, x :
           /\ Listing(RoomEvent(k, RoomListUpdated)) => Fits(l)
           /\ x = Hears(v, s, RoomEvent(k, RoomStatusChanged(u)), l)
           /\ w = Hears(x, s, RoomEvent(k, RoomListUpdated), l)
    BY <1>2, <2>1, PublishFromRoom2
  <2>4. x = v  BY <2>2, <2>3, HearsNot
  <2>5. Listens(s, k) => Sees(v, p, Mapped(k))
    <3> SUFFICES ASSUME Sees(v, q, Mapped(k)) PROVE Sees(v, p, Mapped(k))
      BY <2>2
    <3> QED  BY <1>3, <1>4 DEF Sees, Playing, Occupied, SamePeople
  <2> QED  BY <1>5, <2>1, <2>2, <2>3, <2>4, <2>5, ToldByList
<1> QED  BY <1>5, <1>6, ChangeRoomSeen

\* A chat message, or a draw accepted.
LEMMA NothingNewSeen ==
  ASSUME ViewInv, PInv, PInv', NEW s0 \in Sessions, InARoom(s0), UNCHANGED objects,
         NEW event, event[1] \in {"DrawAccepted", "ChatMessageRecv"},
         NotifyHimself(s0, event)
  PROVE  ViewInv'
<1>1. PICK q, k : q = CallersRoom(s0) /\ k = RoomOf(s0)  OBVIOUS
<1>2. Publish(view, <<FromHandler(k, event)>>)  BY <1>1 DEF NotifyHimself
<1>3. Changes(k, q, q)  BY <1>1, <1>2, PublishDomain, RoomPacketFacts
<1>4. ASSUME NEW s \in Watched PROVE IsTold(s, k, q)
  <2>1. PICK v, w : v = view[s] /\ w = view'[s]  OBVIOUS
  <2>2. IsView(v) /\ s \in Sessions /\ (Listens(s, k) => Sees(v, q, Mapped(k)))
    BY <1>3, <2>1, WatchedAssumption DEF Changes
  <2>3. PICK l : w = Hears(v, s, FromHandler(k, event), l)
    BY <1>2, <2>1, PublishOne
  <2>4. /\ IsRoomNews(v, w, s, k)
        /\ w.seats = v.seats /\ w.players = v.players
        /\ w.stage = v.stage /\ w.cells = v.cells
    BY <2>2, <2>3, HearsNothingNew DEF Bare
  <2>5. Listens(s, k) => Sees(w, q, Mapped(k))  BY <2>2, <2>4 DEF Sees
  <2>6. LineKept(q, q)  BY DEF LineKept
  <2> QED  BY <1>3, <2>1, <2>4, <2>5, <2>6, ToldByNews
<1> QED  BY <1>3, <1>4, ChangeRoomSeen

LEMMA StartGameSeen ==
  ASSUME ViewInv, PInv, PInv', NEW s0 \in Sessions,
         StartGamePacket(s0), Notify(s0, StartGameEvents(Caller(s0)))
  PROVE  ViewInv'
<1>1. PICK q, u, p, k : /\ q = CallersRoom(s0) /\ u = Caller(s0) /\ k = RoomOf(s0)
                        /\ p = StartGame(q)
  OBVIOUS
<1>2. /\ InARoom(s0) /\ StartGameOk(q) /\ ChangeRoom(s0, p)
      /\ Publish(view, FromRoom(k, <<GameStarted, RoomStatusChanged(u), RoomListUpdated>>))
  BY <1>1 DEF StartGamePacket, StartGameEvents, Notify
<1>3. GoodRoom(q)
  BY <1>1, <1>2 DEF PInv, HInv, RoomsAreGood, InARoom, CallersRoom
<1>4. SamePeople(p, q) /\ p.status = "Playing" /\ p.game = NewGame(q.game.boardSize)
  BY <1>1, <1>2, <1>3, StartGameGood
<1>5. Occupied(p) = {}
  BY <1>4 DEF NewGame, Occupied
<1>6. Changes(k, q, p)
  BY <1>1, <1>2, <1>4, PublishDomain, RoomPacketFacts DEF SamePeople
<1>7. ASSUME NEW s \in Watched PROVE IsTold(s, k, p)
  <2>1. PICK v, w : v = view[s] /\ w = view'[s]  OBVIOUS
  <2>2. IsView(v) /\ s \in Sessions /\ Member(s, k)' = Member(s, k)
        /\ (Listens(s, k) => Sees(v, q, Mapped(k)))
    BY <1>6, <2>1, WatchedAssumption DEF Changes
  <2>3. PICK l, x, y :
           /\ Listing(RoomEvent(k, RoomListUpdated)) => Fits(l)
           /\ x = Hears(v, s, RoomEvent(k, GameStarted), l)
           /\ y = Hears(x, s, RoomEvent(k, RoomStatusChanged(u)), l)
           /\ w = Hears(y, s, RoomEvent(k, RoomListUpdated), l)
    BY <1>2, <2>1, PublishFromRoom3
  <2>4. y = x  BY <2>2, <2>3, HearsNot
  <2>5. /\ IsRoomNews(v, x, s, k)
        /\ Member(s, k)' => /\ x.stage = "Playing" /\ x.cells = {}
                            /\ x.seats = v.seats /\ x.players = v.players
    <3>1. GameStarted[1] = "GameStarted"  BY DEF GameStarted
    <3> QED  BY <2>2, <2>3, <3>1, HearsGame DEF StageAfter
  <2>6. Listens(s, k) => Sees(x, p, Mapped(k))
    BY <1>4, <1>5, <2>2, <2>5, RoomsOfAreRooms DEF Sees, Playing, SamePeople
  <2> QED  BY <1>6, <2>1, <2>3, <2>4, <2>5, <2>6, ToldByList
<1> QED  BY <1>6, <1>7, ChangeRoomSeen

\* A game that is given up is over for whoever listens.
LEMMA GiveUpSeen ==
  ASSUME ViewInv, PInv, PInv', NEW s0 \in Sessions, GiveUpPacket(s0),
         Notify(s0, GiveUpEvents(CallersRoom(s0), Caller(s0)))
  PROVE  ViewInv'
<1>1. PICK q, u, p, k : /\ q = CallersRoom(s0) /\ u = Caller(s0) /\ k = RoomOf(s0)
                        /\ p = EndGame(q)
  OBVIOUS
<1>2. /\ InARoom(s0) /\ EndGameOk(q, u) /\ ChangeRoom(s0, p)
      /\ Publish(view, FromRoom(k, GiveUpEvents(q, u)))
  BY <1>1 DEF GiveUpPacket, Notify
<1>3. GoodRoom(q)
  BY <1>1, <1>2 DEF PInv, HInv, RoomsAreGood, InARoom, CallersRoom
<1>4. Playing(q) /\ OpponentOf(q, u) # NoUser
  BY <1>2, <1>3 DEF EndGameOk, GoodRoom, OpponentOf
<1>5. SamePeople(p, q) /\ p.status = "End" /\ p.game = q.game
  BY <1>1, <1>3, EndGameGood
<1>6. Changes(k, q, p)
  BY <1>1, <1>2, <1>5, PublishDomain, RoomPacketFacts DEF SamePeople
<1> DEFINE ended == GameEnded(OpponentOf(q, u))
<1>7. ended[1] = "GameEnded"  BY DEF GameEnded
<1> HIDE DEF ended
<1>8. GiveUpEvents(q, u) = <<GiveUpRequested(u), ended, RoomStatusChanged(u)>>
  BY <1>4, ThreeEvents DEF GiveUpEvents, ended
<1>9. ASSUME NEW s \in Watched PROVE IsTold(s, k, p)
  <2>1. PICK v, w : v = view[s] /\ w = view'[s]  OBVIOUS
  <2>2. IsView(v) /\ s \in Sessions /\ Member(s, k)' = Member(s, k)
        /\ (Listens(s, k) => Sees(v, q, Mapped(k)))
    BY <1>6, <2>1, WatchedAssumption DEF Changes
  <2>3. PICK l, x, y :
           /\ x = Hears(v, s, RoomEvent(k, GiveUpRequested(u)), l)
           /\ y = Hears(x, s, RoomEvent(k, ended), l)
           /\ w = Hears(y, s, RoomEvent(k, RoomStatusChanged(u)), l)
    BY <1>2, <1>8, <2>1, PublishFromRoom3
  <2>4. w = y  BY <2>2, <2>3, HearsNot
  <2>5. /\ IsRoomNews(v, x, s, k)
        /\ x.seats = v.seats /\ x.players = v.players
    <3> DEFINE event == GiveUpRequested(u)
    <3>1. event[1] = "GiveUpRequested"  BY DEF GiveUpRequested
    <3> HIDE DEF event
    <3>2. RoomEvent(k, event) = FromHandler(k, event)  BY <3>1, RoomEventIs DEF OfRooms
    <3>3. x = Hears(v, s, FromHandler(k, event), l)  BY <2>3, <3>2 DEF event
    <3> QED  BY <2>2, <3>1, <3>3, HearsNothingNew DEF Bare
  <2>6. /\ IsRoomNews(x, w, s, k)
        /\ Member(s, k)' => /\ w.stage = "End" /\ w.cells = {}
                            /\ w.seats = x.seats /\ w.players = x.players
    <3>1. IsView(x)  BY <2>5 DEF IsRoomNews
    <3> QED  BY <1>7, <2>2, <2>3, <2>4, <3>1, HearsGame DEF StageAfter
  <2>7. Listens(s, k) => Sees(w, p, Mapped(k))
    BY <1>5, <2>2, <2>5, <2>6, RoomsOfAreRooms DEF Sees, Playing, SamePeople
  <2>8. LineKept(q, p)  BY <1>4, <1>5 DEF LineKept, Playing
  <2> QED  BY <1>6, <2>1, <2>5, <2>6, <2>7, <2>8, NewsAddUp, ToldByNews
<1> QED  BY <1>6, <1>9, ChangeRoomSeen

\* A request for a draw: the game is over, and nobody is told more than that it
\* was asked for.
LEMMA DrawSeen ==
  ASSUME ViewInv, PInv, PInv', NEW s0 \in Sessions, DrawPacket(s0),
         Notify(s0, DrawEvents(Caller(s0)))
  PROVE  ViewInv'
<1>1. PICK q, u, p, k : /\ q = CallersRoom(s0) /\ u = Caller(s0) /\ k = RoomOf(s0)
                        /\ p = EndGame(q)
  OBVIOUS
<1>2. /\ InARoom(s0) /\ EndGameOk(q, u) /\ ChangeRoom(s0, p)
      /\ Publish(view, FromRoom(k, <<DrawRequested(u), RoomStatusChanged(u)>>))
  BY <1>1 DEF DrawPacket, DrawEvents, Notify
<1>3. GoodRoom(q) /\ Playing(q)
  BY <1>1, <1>2 DEF PInv, HInv, RoomsAreGood, InARoom, CallersRoom, EndGameOk
<1>4. SamePeople(p, q) /\ p.status = "End" /\ p.game = q.game
  BY <1>1, <1>3, EndGameGood
<1>5. Changes(k, q, p)
  BY <1>1, <1>2, <1>4, PublishDomain, RoomPacketFacts DEF SamePeople
<1>6. ASSUME NEW s \in Watched PROVE IsTold(s, k, p)
  <2>1. PICK v, w : v = view[s] /\ w = view'[s]  OBVIOUS
  <2>2. IsView(v) /\ s \in Sessions /\ Member(s, k)' = Member(s, k)
        /\ (Listens(s, k) => Sees(v, q, Mapped(k)))
    BY <1>5, <2>1, WatchedAssumption DEF Changes
  <2>3. PICK l, x :
           /\ x = Hears(v, s, RoomEvent(k, DrawRequested(u)), l)
           /\ w = Hears(x, s, RoomEvent(k, RoomStatusChanged(u)), l)
    BY <1>2, <2>1, PublishFromRoom2
  <2>4. w = x  BY <2>2, <2>3, HearsNot
  <2>5. /\ IsRoomNews(v, w, s, k)
        /\ Member(s, k)' =>
             /\ w.stage = IF v.stage = "Playing" THEN "DrawAsked" ELSE v.stage
             /\ w.seats = v.seats /\ w.players = v.players
    BY <2>2, <2>3, <2>4, HearsDraw
  <2>6. Listens(s, k) => Sees(w, p, Mapped(k))
    BY <1>4, <2>2, <2>5, RoomsOfAreRooms DEF Sees, Playing, SamePeople
  <2>7. LineKept(q, p)  BY <1>3, <1>4 DEF LineKept, Playing
  <2> QED  BY <1>5, <2>1, <2>5, <2>6, <2>7, ToldByNews
<1> QED  BY <1>5, <1>6, ChangeRoomSeen

\* A stone that does not win adds one square, one that wins ends the game.
LEMMA MakeMoveSeen ==
  ASSUME ViewInv, PInv, PInv', NEW s0 \in Sessions, NEW c, MakeMovePacket(s0, c),
         Notify(s0, MakeMoveEvents(CallersRoom(s0), Caller(s0), c))
  PROVE  ViewInv'
<1>1. PICK q, u, p, k : /\ q = CallersRoom(s0) /\ u = Caller(s0) /\ k = RoomOf(s0)
                        /\ p = MakeMoveInRoom(q, u, c)
  OBVIOUS
<1>2. /\ InARoom(s0) /\ MakeMoveOk(q, u, c) /\ ChangeRoom(s0, p)
      /\ Publish(view, FromRoom(k, MakeMoveEvents(q, u, c)))
  BY <1>1 DEF MakeMovePacket, Notify
<1>3. GoodRoom(q) /\ u \in Users
  BY <1>1, <1>2 DEF PInv, HInv, TypeOK, ObjectsTypeOK, RoomsAreGood, InARoom, LoggedIn,
                    CallersRoom
<1> DEFINE color == ColorOf(q, u)
<1>4. /\ SamePeople(p, q) /\ c \in Cells(q.game.boardSize) /\ color \in Stone
      /\ p.game = MakeMove(q.game, c, color)
  BY <1>1, <1>2, <1>3, MakeMoveGood
<1>5. Changes(k, q, p)
  BY <1>1, <1>2, <1>4, PublishDomain, RoomPacketFacts DEF SamePeople
<1>6. PICK n \in BoardSizes : n \in Nat /\ q \in RoomType(n) /\ q.game.boardSize = n
  BY <1>3, GoodRoomType
<1>7. Playing(q)  BY <1>2 DEF MakeMoveOk
<1>8. p.status = IF WinsBy(q, u, c) THEN "End" ELSE "Playing"
  BY <1>1, <1>6, <1>7 DEF MakeMoveInRoom, RoomType, Playing
<1>9. Occupied(p) = Occupied(q) \cup {c}
  <2>1. q.game \in GameType(n)  BY <1>6, RoomFields
  <2> HIDE DEF color
  <2>2. /\ p.game.boardSize = n /\ p.game.board = [q.game.board EXCEPT ![c] = color]
    BY <1>4, <1>6, <2>1, MoveType
  <2>3. q.game.board \in [Cells(n) -> Piece] /\ color # "EMPTY"
    BY <1>4, <2>1 DEF GameType, Stone
  <2> QED  BY <1>4, <1>6, <2>2, <2>3 DEF Occupied
<1> HIDE DEF color
<1>10. LineKept(q, p)
  BY <1>4, <1>7, <1>8 DEF LineKept, RoomLine, Playing, SamePeople
<1>11. ASSUME NEW s \in Watched PROVE IsTold(s, k, p)
  <2>1. PICK v, w : v = view[s] /\ w = view'[s]  OBVIOUS
  <2>2. IsView(v) /\ s \in Sessions /\ Member(s, k)' = Member(s, k)
        /\ (Listens(s, k) => Sees(v, q, Mapped(k)))
    BY <1>5, <2>1, WatchedAssumption DEF Changes
  <2>3. CASE WinsBy(q, u, c)
    <3> DEFINE ended == GameEnded(u)
    <3>1. ended[1] = "GameEnded"  BY DEF GameEnded
    <3> HIDE DEF ended
    <3>2. MakeMoveEvents(q, u, c) = <<PiecePlaced(u, c), ended>>
      BY <2>3, TwoEvents DEF MakeMoveEvents, ended
    <3>3. PICK l, x : /\ x = Hears(v, s, RoomEvent(k, PiecePlaced(u, c)), l)
                      /\ w = Hears(x, s, RoomEvent(k, ended), l)
      BY <1>2, <2>1, <3>2, PublishFromRoom2
    <3>4. /\ IsRoomNews(v, x, s, k)
          /\ Member(s, k)' => x.seats = v.seats /\ x.players = v.players
      BY <2>2, <3>3, HearsPiecePlaced
    <3>5. /\ IsRoomNews(x, w, s, k)
          /\ Member(s, k)' => /\ w.stage = "End"
                              /\ w.seats = x.seats /\ w.players = x.players
      <4>1. IsView(x)  BY <3>4 DEF IsRoomNews
      <4> QED  BY <2>2, <3>1, <3>3, <4>1, HearsGame DEF StageAfter
    <3>6. Listens(s, k) => Sees(w, p, Mapped(k))
      BY <1>4, <1>8, <2>2, <2>3, <3>4, <3>5, RoomsOfAreRooms DEF Sees, Playing, SamePeople
    <3> QED  BY <1>5, <1>10, <2>1, <3>4, <3>5, <3>6, NewsAddUp, ToldByNews
  <2>4. CASE ~WinsBy(q, u, c)
    <3>1. MakeMoveEvents(q, u, c) = <<PiecePlaced(u, c)>>
      <4>1. <<PiecePlaced(u, c)>> \in Seq({PiecePlaced(u, c)})  OBVIOUS
      <4> QED  BY <2>4, <4>1, ConcatEmptySeq DEF MakeMoveEvents
    <3>2. PICK l : w = Hears(v, s, RoomEvent(k, PiecePlaced(u, c)), l)
      BY <1>2, <2>1, <3>1, PublishFromRoom1
    <3>3. /\ IsRoomNews(v, w, s, k)
          /\ Member(s, k)' =>
               /\ v.stage = "Playing" => w.cells = v.cells \cup {c}
               /\ w.seats = v.seats /\ w.players = v.players /\ w.stage = v.stage
      BY <2>2, <3>2, HearsPiecePlaced
    <3>4. Listens(s, k) => Sees(w, p, Mapped(k))
      <4> SUFFICES ASSUME Listens(s, k), Sees(v, q, Mapped(k)) PROVE Sees(w, p, Mapped(k))
        BY <2>2
      <4>1. Member(s, k)  BY RoomsOfAreRooms
      <4>2. v.stage \notin {"End", "DrawAsked"}  BY <1>7 DEF Sees, Playing
      <4> QED
        BY <1>4, <1>7, <1>8, <1>9, <2>2, <2>4, <3>3, <4>1, <4>2 DEF Sees, Playing, SamePeople
    <3> QED  BY <1>5, <1>10, <2>1, <3>3, <3>4, ToldByNews
  <2> QED  BY <2>3, <2>4
<1> QED  BY <1>5, <1>11, ChangeRoomSeen

-----------------------------------------------------------------------------
(* Packets of users who leave a room or come into one.                      *)

\* The pushes for an exit go to whoever is a player of the room, the one who
\* left it included.
LEMMA ExitRoomSeen ==
  ASSUME ViewInv, PInv, PInv', NEW s0 \in Sessions, ExitRoom(s0),
         NotifyHimself(s0, PlayerLeft(Caller(s0)))
  PROVE  ViewInv'
<1>0. HInv  BY DEF PInv
<1>1. PICK u, k : u = Caller(s0) /\ k = RoomOf(s0)  OBVIOUS
<1>2. Publish(view, <<FromHandler(k, PlayerLeft(u))>>)  BY <1>1 DEF NotifyHimself
<1>3. /\ u \in Users /\ userIdToRoomIdMap[u] = k /\ NoRoom \notin DOMAIN rooms
      /\ UNCHANGED <<users, rooms, sessionMaps>>
      /\ userIdToRoomIdMap' = [userIdToRoomIdMap EXCEPT ![u] = NoRoom]
  BY <1>1 DEF ExitRoom, UnmapUserFromRoom, LoggedIn, RoomOf, PInv, HInv, TypeOK,
              ObjectsTypeOK, NoRoom
<1>4. \A r \in DOMAIN rooms : /\ Mapped(r) \in Nat
                              /\ Mapped(r)' = IF r = k THEN Mapped(r) - 1 ELSE Mapped(r)
  <2> DEFINE out == NoRoom
  <2> HIDE DEF out
  <2>1. userIdToRoomIdMap' = [userIdToRoomIdMap EXCEPT ![u] = out]  BY <1>3 DEF out
  <2>2. \A r : /\ Mapped(r) \in Nat
               /\ r = k /\ out # r => Mapped(r)' = Mapped(r) - 1
               /\ r # k /\ out # r => Mapped(r)' = Mapped(r)
    BY <1>0, <1>3, <2>1, MappedChanges
  <2> QED  BY <1>3, <2>2 DEF out
<1>5. ASSUME NEW s \in Watched, NEW v, NEW w, v = view[s], w = view'[s]
      PROVE  /\ IsView(w)
             /\ w.online = v.online
             /\ ~LoggedIn(s) => w = v
             /\ RoomsOf(s) \subseteq RoomsOf(s)'
             /\ w.about \subseteq v.about \cup RoomsOf(s)'
             /\ w.about = {} => SameRoomNews(v, w)
             /\ \A r : Listens(s, r)' => Sees(w, rooms'[r], Mapped(r)')
             /\ Small => SeesList(w, rooms')
  <2>1. Knows(s, v) /\ IsView(v) /\ s \in Sessions
    BY <1>5, WatchedAssumption DEF ViewInv, Knows
  <2>2. /\ RoomsOf(s)' = RoomsOf(s) /\ Member(s, k)' = Member(s, k)
        /\ \A r : Listens(s, r)' = Listens(s, r)
    BY <1>3, SamePlaces
  <2>3. PICK l : w = Hears(v, s, FromHandler(k, PlayerLeft(u)), l)
    BY <1>2, <1>5, PublishOne
  <2>4. /\ IsRoomNews(v, w, s, k)
        /\ Member(s, k)' => /\ w.players = Counted(v.players, -1) /\ w.seats = v.seats
                            /\ w.stage = v.stage /\ w.cells = v.cells
    <3> DEFINE event == PlayerLeft(u)
    <3>1. event[1] = "PlayerLeft"  BY DEF PlayerLeft
    <3> HIDE DEF event
    <3>2. w = Hears(v, s, FromHandler(k, event), l)  BY <2>3 DEF event
    <3>3. More(event) = -1  BY <3>1 DEF More
    <3>4. /\ IsRoomNews(v, w, s, k)
          /\ Member(s, k)' => /\ w.players = Counted(v.players, More(event))
                              /\ w.seats = v.seats
                              /\ w.stage = v.stage /\ w.cells = v.cells
      BY <2>1, <3>1, <3>2, HearsPlayer
    <3> QED  BY <3>3, <3>4
  <2>5. /\ IsView(w) /\ SameLists(v, w)
        /\ ~Member(s, k) => w = v
        /\ Member(s, k) => w.about = v.about \cup {k} /\ k \in RoomsOf(s) /\ LoggedIn(s)
    BY <2>2, <2>4 DEF IsRoomNews, Member
  <2>6. w.about = {} => SameRoomNews(v, w)  BY <2>5 DEF SameRoomNews
  <2>7. ASSUME NEW r, Listens(s, r) PROVE Sees(w, rooms[r], Mapped(r)')
    <3>1. r \in DOMAIN rooms  BY <2>7, RoomsOfAreRooms
    <3>2. Sees(v, rooms[r], Mapped(r))  BY <2>1, <2>7 DEF Knows
    <3>3. CASE r = k
      <4>1. Member(s, k)  BY <2>7, <3>3, RoomsOfAreRooms
      <4>2. Mapped(r) \in Nat /\ Mapped(r)' = Mapped(r) - 1  BY <1>4, <3>1, <3>3
      <4>3. /\ w.players = IF v.players = Untold THEN Untold ELSE v.players - 1
            /\ w.seats = v.seats /\ w.stage = v.stage /\ w.cells = v.cells
        <5>1. v.players + -1 = v.players - 1  BY <2>1 DEF IsView
        <5> QED  BY <2>2, <2>4, <4>1, <5>1 DEF Counted
      <4> QED  BY <3>2, <4>2, <4>3 DEF Sees
    <3>4. CASE r # k
      <4>1. ~Member(s, k)  BY <2>7, <3>4 DEF Listens, Member
      <4> QED  BY <1>4, <2>5, <3>1, <3>2, <3>4, <4>1
    <3> QED  BY <3>3, <3>4
  <2>8. Small => SeesList(w, rooms)  BY <2>1, <2>5 DEF Knows, SameLists, SeesList
  <2> QED  BY <1>3, <2>2, <2>5, <2>6, <2>7, <2>8 DEF SameLists
<1>6. DOMAIN view' = Watched  BY <1>2, PublishDomain
<1> QED  BY <1>3, <1>5, <1>6, StepSeen

\* The players of room k before a user comes into it: of none, if it is new.
PlayersBefore(k) == IF k \in DOMAIN rooms THEN ToSet(rooms[k].playerIds) ELSE {}

\* User u, who was mapped to no room, is now in room k, which is p.
Enters(u, k, p) ==
  /\ u \in Users /\ userIdToRoomIdMap[u] = NoRoom
  /\ k # NoRoom /\ k \in Int
  /\ userIdToRoomIdMap' = [userIdToRoomIdMap EXCEPT ![u] = k]
  /\ DOMAIN rooms' = DOMAIN rooms \cup {k}
  /\ \A r \in DOMAIN rooms' : rooms'[r] = IF r = k THEN p ELSE rooms[r]
  /\ u \notin PlayersBefore(k)
  /\ ToSet(p.playerIds) = PlayersBefore(k) \cup {u}
  /\ UNCHANGED <<users, sessionMaps>>

LEMMA EnterPlaces ==
  ASSUME HInv, NEW u, NEW k, NEW p, Enters(u, k, p), NEW s
  PROVE  /\ LoggedIn(s)' = LoggedIn(s) /\ Caller(s)' = Caller(s)
         /\ RoomsOf(s)' = IF Caller(s) = u THEN RoomsOf(s) \cup {k} ELSE RoomsOf(s)
         /\ Caller(s) = u => k \notin RoomsOf(s)
         /\ Mapped(k) \in Nat /\ Mapped(k)' = Mapped(k) + 1
         /\ k \notin DOMAIN rooms => Mapped(k) = 0
         /\ \A r \in DOMAIN rooms : r # k => Mapped(r)' = Mapped(r)
<1>1. Caller(s)' = Caller(s) /\ LoggedIn(s)' = LoggedIn(s)
  BY DEF Caller, LoggedIn, sessionMaps, Enters
<1>2. \A r : r \in RoomsOf(s) <=> r \in DOMAIN rooms /\ Caller(s) \in ToSet(rooms[r].playerIds)
  BY DEF RoomsOf, InRoom
<1>3. \A r : r \in RoomsOf(s)' <=>
               r \in DOMAIN rooms' /\ Caller(s) \in ToSet(rooms'[r].playerIds)
  BY <1>1 DEF RoomsOf, InRoom
<1>4. k \in RoomsOf(s) <=> Caller(s) \in PlayersBefore(k)  BY <1>2 DEF PlayersBefore
<1>5. k \in RoomsOf(s)' <=> Caller(s) \in PlayersBefore(k) \cup {u}
  BY <1>3 DEF Enters
<1>6. \A r : r # k => (r \in RoomsOf(s)' <=> r \in RoomsOf(s))
  BY <1>2, <1>3 DEF Enters
<1>7. RoomsOf(s)' = IF Caller(s) = u THEN RoomsOf(s) \cup {k} ELSE RoomsOf(s)
  BY <1>4, <1>5, <1>6
<1>8. Caller(s) = u => k \notin RoomsOf(s)  BY <1>4 DEF Enters
<1>9. NoRoom \notin DOMAIN rooms  BY DEF HInv, TypeOK, ObjectsTypeOK, NoRoom
<1>10. \A r : /\ Mapped(r) \in Nat
              /\ r = k => Mapped(r)' = Mapped(r) + 1
              /\ r # k /\ r # NoRoom => Mapped(r)' = Mapped(r)
  BY MappedChanges DEF Enters
<1>11. k \notin DOMAIN rooms => Mapped(k) = 0
  <2> SUFFICES ASSUME k \notin DOMAIN rooms PROVE Mapped(k) = 0  OBVIOUS
  <2>1. {x \in Users : userIdToRoomIdMap[x] = k} = {}
    BY DEF Enters, HInv, MappedRoomHasUser
  <2> QED  BY <2>1, FS_EmptySet DEF Mapped
<1> QED  BY <1>1, <1>7, <1>8, <1>9, <1>10, <1>11

\* What session s is told of it.
HeardEnter(s, k, p) ==
  LET v == view[s]
      w == view'[s]
  IN  /\ IsView(w)
      /\ w.online = v.online
      /\ ~LoggedIn(s) => w = v
      /\ w.about \in {v.about, v.about \cup {k}}
      /\ ~Member(s, k)' \/ w.about = {} => SameRoomNews(v, w)
      /\ Listens(s, k)' => Sees(w, p, Mapped(k)')
      /\ ListTold(v, w, s, FALSE)

LEMMA EnterSeen ==
  ASSUME ViewInv, HInv, NEW u, NEW k, NEW p, Enters(u, k, p), DOMAIN view' = Watched,
         \A s \in Watched : HeardEnter(s, k, p)
  PROVE  ViewInv'
<1>1. /\ k \in DOMAIN rooms'
      /\ \A r \in DOMAIN rooms' : rooms'[r] = IF r = k THEN p ELSE rooms[r]
      /\ UNCHANGED <<users, sessionMaps>>
  BY DEF Enters
<1>2. ASSUME NEW s \in Watched, NEW v, NEW w, v = view[s], w = view'[s]
      PROVE  /\ IsView(w)
             /\ w.online = v.online
             /\ ~LoggedIn(s) => w = v
             /\ RoomsOf(s) \subseteq RoomsOf(s)'
             /\ w.about \subseteq v.about \cup RoomsOf(s)'
             /\ w.about = {} => SameRoomNews(v, w)
             /\ \A r : Listens(s, r)' => Sees(w, rooms'[r], Mapped(r)')
             /\ Small => SeesList(w, rooms')
  <2>1. /\ IsView(w)
        /\ w.online = v.online
        /\ ~LoggedIn(s) => w = v
        /\ w.about \in {v.about, v.about \cup {k}}
        /\ ~Member(s, k)' \/ w.about = {} => SameRoomNews(v, w)
        /\ Listens(s, k)' => Sees(w, p, Mapped(k)')
        /\ ListTold(v, w, s, FALSE)
    BY <1>2 DEF HeardEnter
  <2>2. Knows(s, v)  BY <1>2 DEF ViewInv
  <2>3. /\ LoggedIn(s)' = LoggedIn(s) /\ RoomsOf(s) \subseteq RoomsOf(s)'
        /\ RoomsOf(s)' = IF Caller(s) = u THEN RoomsOf(s) \cup {k} ELSE RoomsOf(s)
        /\ \A r \in DOMAIN rooms : r # k => Mapped(r)' = Mapped(r)
    BY EnterPlaces
  <2>4. w.about \subseteq v.about \cup RoomsOf(s)'
    <3>1. CASE Member(s, k)'
      <4>1. k \in RoomsOf(s)'  BY <3>1 DEF Member
      <4> QED  BY <2>1, <4>1
    <3>2. CASE ~Member(s, k)'  BY <2>1, <3>2 DEF SameRoomNews
    <3> QED  BY <3>1, <3>2
  <2>5. ASSUME NEW r, Listens(s, r)' PROVE Sees(w, rooms'[r], Mapped(r)')
    <3>1. CASE r = k
      <4>1. Listens(s, k)'  BY <2>5, <3>1
      <4>2. rooms'[r] = p /\ Mapped(r)' = Mapped(k)'  BY <1>1, <3>1
      <4> QED  BY <2>1, <4>1, <4>2
    <3>2. CASE r # k
      <4>1. LoggedIn(s) /\ RoomsOf(s)' = {r}  BY <2>3, <2>5 DEF Listens
      <4>2. k \notin RoomsOf(s)' /\ RoomsOf(s) = {r}  BY <2>3, <3>2, <4>1
      <4>3. ~Member(s, k)' /\ Listens(s, r)  BY <4>1, <4>2 DEF Member, Listens
      <4>4. r \in DOMAIN rooms /\ rooms'[r] = rooms[r]
        BY <1>1, <3>2, <4>3, RoomsOfAreRooms DEF Enters
      <4>5. Sees(v, rooms[r], Mapped(r)) /\ SameRoomNews(v, w)
        BY <2>1, <2>2, <4>3 DEF Knows
      <4>6. Mapped(r)' = Mapped(r)  BY <2>3, <3>2, <4>4
      <4> QED  BY <4>4, <4>5, <4>6, SameNewsSees
    <3> QED  BY <3>1, <3>2
  <2>6. ASSUME Small PROVE SeesList(w, rooms')
    <3>1. CASE \E R \in FirstOf(DOMAIN rooms', ListLimit) : w.list = ListOf(R)'
      BY <3>1 DEF SeesList, ListOf
    <3>2. CASE ~LoggedIn(s)
      <4>1. w.list = <<>>  BY <2>1, <2>2, <3>2, BlankIsView DEF Knows
      <4> QED  BY <4>1 DEF SeesList
    <3> QED  BY <2>1, <2>6, <3>1, <3>2 DEF ListTold
  <2> QED  BY <2>1, <2>3, <2>4, <2>5, <2>6
<1> QED  BY <1>1, <1>2, StepSeen

\* The two events of AddPlayer, and the two that follow when a room is created.
LEMMA HearsEntry ==
  ASSUME PInv', NEW s \in Sessions, NEW k, NEW v, IsView(v), NEW u, NEW l,
         Listing(RoomEvent(k, RoomListUpdated)) => Fits(l)
  PROVE  \A w : w = Hears(Hears(v, s, RoomEvent(k, PlayerJoined(u)), l),
                          s, RoomEvent(k, RoomListUpdated), l) =>
           /\ IsView(w) /\ w.online = v.online /\ Fits(l)
           /\ ~LoggedIn(s)' => w = v
           /\ ~Member(s, k)' => SameRoomNews(v, w)
           /\ Member(s, k)' => /\ w.players = Counted(v.players, 1) /\ w.seats = v.seats
                               /\ w.stage = v.stage /\ w.cells = v.cells
                               /\ w.about = v.about \cup {k}
           /\ Small' /\ LoggedIn(s)' => w.list = ListOf(l.rooms)'
<1>1. PICK x : x = Hears(v, s, RoomEvent(k, PlayerJoined(u)), l)  OBVIOUS
<1>0. IsNumberNews(v, x, s, k, Counted(v.players, 1))  BY <1>1, HearsJoined
<1>2. /\ IsRoomNews(v, x, s, k)
      /\ Member(s, k)' => /\ x.players = Counted(v.players, 1) /\ x.seats = v.seats
                          /\ x.stage = v.stage /\ x.cells = v.cells
  BY <1>0 DEF IsNumberNews
<1>3. /\ IsView(x) /\ SameLists(v, x)
      /\ ~Member(s, k)' => x = v
      /\ Member(s, k)' => x.about = v.about \cup {k} /\ LoggedIn(s)'
  BY <1>2 DEF IsRoomNews, Member
<1> SUFFICES ASSUME NEW w, w = Hears(x, s, FromHandler(k, RoomListUpdated), l)
             PROVE  /\ IsView(w) /\ w.online = v.online /\ Fits(l)
                    /\ ~LoggedIn(s)' => w = v
                    /\ ~Member(s, k)' => SameRoomNews(v, w)
                    /\ Member(s, k)' => /\ w.players = Counted(v.players, 1)
                                        /\ w.seats = v.seats
                                        /\ w.stage = v.stage /\ w.cells = v.cells
                                        /\ w.about = v.about \cup {k}
                    /\ Small' /\ LoggedIn(s)' => w.list = ListOf(l.rooms)'
  BY <1>1, ListingEvents
<1>4. Fits(l)  BY ListingEvents
<1>5. /\ IsView(w) /\ SameRoomNews(x, w) /\ w.online = x.online
      /\ ~LoggedIn(s)' => w = x
      /\ Small' /\ LoggedIn(s)' => w.list = ListOf(l.rooms)'
  BY <1>3, <1>4, ListingEvents, HearsLists
<1> QED  BY <1>2, <1>3, <1>4, <1>5 DEF SameRoomNews, SameLists

LEMMA HearsCreation ==
  ASSUME PInv', NEW s \in Sessions, NEW k, NEW v, IsView(v), NEW u, NEW l, Fits(l),
         Len(rooms'[k].playerIds) = 1
  PROVE  \A w : w = Hears(Hears(v, s, FromHandler(k, RoomCreated(u)), l),
                          s, FromHandler(NoRoom, RoomListUpdated), l) =>
           /\ IsView(w) /\ w.online = v.online
           /\ ~LoggedIn(s)' => w = v
           /\ ~Member(s, k)' => SameRoomNews(v, w)
           /\ Member(s, k)' => /\ w.players = 1 /\ w.seats = v.seats /\ w.stage = v.stage
                               /\ w.about = v.about \cup {k}
           /\ Small' /\ LoggedIn(s)' => w.list = ListOf(l.rooms)'
<1>1. PICK x : x = Hears(v, s, FromHandler(k, RoomCreated(u)), l)  OBVIOUS
<1>0. IsNumberNews(v, x, s, k, 1)  BY <1>1, HearsRoomCreated
<1>2. /\ IsRoomNews(v, x, s, k)
      /\ Member(s, k)' => /\ x.players = 1 /\ x.seats = v.seats
                          /\ x.stage = v.stage /\ x.cells = v.cells
  BY <1>0 DEF IsNumberNews
<1>3. /\ IsView(x) /\ SameLists(v, x)
      /\ ~Member(s, k)' => x = v
      /\ Member(s, k)' => x.about = v.about \cup {k} /\ LoggedIn(s)'
  BY <1>2 DEF IsRoomNews, Member
<1> SUFFICES ASSUME NEW w, w = Hears(x, s, FromHandler(NoRoom, RoomListUpdated), l)
             PROVE  /\ IsView(w) /\ w.online = v.online
                    /\ ~LoggedIn(s)' => w = v
                    /\ ~Member(s, k)' => SameRoomNews(v, w)
                    /\ Member(s, k)' => /\ w.players = 1 /\ w.seats = v.seats
                                        /\ w.stage = v.stage
                                        /\ w.about = v.about \cup {k}
                    /\ Small' /\ LoggedIn(s)' => w.list = ListOf(l.rooms)'
  BY <1>1
<1>4. w = Hears(x, s, FromHandler(NoRoom, RoomListUpdated), l)  OBVIOUS
<1>5. /\ IsView(w) /\ SameRoomNews(x, w) /\ w.online = x.online
      /\ ~LoggedIn(s)' => w = x
      /\ Small' /\ LoggedIn(s)' => w.list = ListOf(l.rooms)'
  BY <1>3, <1>4, ListingEvents, HearsLists
<1> QED  BY <1>2, <1>3, <1>4, <1>5 DEF SameRoomNews, SameLists

\* Whoever comes into a room hears nothing but the pushes for itself; whoever is
\* in it has one player more.
LEMMA JoinRoomSeen ==
  ASSUME ViewInv, PInv, PInv', NEW s0 \in Sessions, NEW k \in RoomIds,
         LoggedIn(s0), RoomOf(s0) = NoRoom, JoinRoom(s0, k),
         Publish(view, FromRoom(k, AddPlayerEvents(Caller(s0)))
                         \o <<JoinedOnceMore(k, Caller(s0))>>)
  PROVE  ViewInv'
<1>0. HInv  BY DEF PInv
<1>1. PICK u, q, p : u = Caller(s0) /\ q = rooms[k] /\ p = AddPlayer(q, u)
  OBVIOUS
<1>2. /\ u \in Users /\ userIdToRoomIdMap[u] = NoRoom /\ k \in DOMAIN rooms /\ GoodRoom(q)
      /\ k # NoRoom /\ k \in Int /\ u \notin ToSet(q.playerIds)
  BY <1>0, <1>1, MaxRoomsAssumption
  DEF JoinRoom, LoggedIn, RoomOf, HInv, TypeOK, ObjectsTypeOK, RoomsAreGood, AddPlayerOk,
      InRoom, RoomIds, NoRoom
<1>3. /\ rooms' = [rooms EXCEPT ![k] = p]
      /\ userIdToRoomIdMap' = [userIdToRoomIdMap EXCEPT ![u] = k]
      /\ UNCHANGED <<users, sessionMaps>>
  BY <1>1 DEF JoinRoom, MapUserToRoom
<1>4. /\ p.blackPlayerId = q.blackPlayerId /\ p.whitePlayerId = q.whitePlayerId
      /\ p.status = q.status /\ p.game = q.game
      /\ ToSet(p.playerIds) = ToSet(q.playerIds) \cup {u}
  BY <1>1, <1>2, AddPlayerGood
<1>5. Enters(u, k, p)
  <2>1. /\ DOMAIN rooms' = DOMAIN rooms \cup {k}
        /\ \A r \in DOMAIN rooms' : rooms'[r] = IF r = k THEN p ELSE rooms[r]
    BY <1>2, <1>3
  <2> QED  BY <1>1, <1>2, <1>3, <1>4, <2>1 DEF Enters, PlayersBefore
<1>6. Publish(view, FromRoom(k, <<PlayerJoined(u), RoomListUpdated>>)
                      \o <<JoinedOnceMore(k, u)>>)
  BY <1>1 DEF AddPlayerEvents
<1>7. DOMAIN view' = Watched  BY <1>6, PublishDomain
<1>8. ASSUME NEW s \in Watched PROVE HeardEnter(s, k, p)
  <2>1. PICK v, w : v = view[s] /\ w = view'[s]  OBVIOUS
  <2>2. Knows(s, v) /\ IsView(v) /\ s \in Sessions
    BY <2>1, WatchedAssumption DEF ViewInv, Knows
  <2>3. /\ LoggedIn(s)' = LoggedIn(s) /\ Small' = Small
        /\ RoomsOf(s)' = IF Caller(s) = u THEN RoomsOf(s) \cup {k} ELSE RoomsOf(s)
        /\ Caller(s) = u => k \notin RoomsOf(s)
        /\ Mapped(k) \in Nat /\ Mapped(k)' = Mapped(k) + 1
    BY <1>0, <1>3, <1>5, EnterPlaces DEF Small
  <2>4. PICK l, x :
           /\ Listing(RoomEvent(k, RoomListUpdated)) => Fits(l)
           /\ x = Hears(Hears(v, s, RoomEvent(k, PlayerJoined(u)), l),
                        s, RoomEvent(k, RoomListUpdated), l)
           /\ w = Hears(x, s, JoinedOnceMore(k, u), l)
    BY <1>6, <2>1, PublishFromRoomThenOne
  <2>5. w = x  BY <2>2, <2>4, HearsNot
  <2>6. /\ IsView(w) /\ w.online = v.online /\ Fits(l)
        /\ ~LoggedIn(s)' => w = v
        /\ ~Member(s, k)' => SameRoomNews(v, w)
        /\ Member(s, k)' => /\ w.players = Counted(v.players, 1) /\ w.seats = v.seats
                            /\ w.stage = v.stage /\ w.cells = v.cells
                            /\ w.about = v.about \cup {k}
        /\ Small' /\ LoggedIn(s)' => w.list = ListOf(l.rooms)'
    BY <2>2, <2>4, <2>5, HearsEntry
  <2>7. Listens(s, k)' => Sees(w, p, Mapped(k)')
    <3> SUFFICES ASSUME Listens(s, k)' PROVE Sees(w, p, Mapped(k)')  OBVIOUS
    <3>1. RoomsOf(s)' = {k} /\ LoggedIn(s) /\ Member(s, k)'
      BY <2>3 DEF Listens, Member
    <3>2. CASE Caller(s) = u
      <4>1. RoomsOf(s) = {}  BY <2>3, <3>1, <3>2
      <4>2. NoRoomNews(v)  BY <2>2, <4>1 DEF Knows
      <4>3. NoRoomNews(w)  BY <2>6, <3>1, <4>2 DEF NoRoomNews, Counted
      <4> QED  BY <4>3, NoNewsSees
    <3>3. CASE Caller(s) # u
      <4>1. Listens(s, k)  BY <2>3, <3>1, <3>3 DEF Listens
      <4>2. Sees(v, q, Mapped(k))  BY <1>1, <2>2, <4>1 DEF Knows
      <4>3. w.players = IF v.players = Untold THEN Untold ELSE v.players + 1
        BY <2>6, <3>1 DEF Counted
      <4> QED  BY <1>4, <2>3, <2>6, <3>1, <4>2, <4>3 DEF Sees, Playing, Occupied
    <3> QED  BY <3>2, <3>3
  <2>8. ListTold(v, w, s, FALSE)  BY <2>3, <2>6 DEF ListTold, Fits
  <2>9. /\ w.about \in {v.about, v.about \cup {k}}
        /\ ~Member(s, k)' \/ w.about = {} => SameRoomNews(v, w)
    BY <2>6 DEF SameRoomNews
  <2> QED  BY <2>1, <2>3, <2>6, <2>7, <2>8, <2>9 DEF HeardEnter
<1> QED  BY <1>0, <1>5, <1>7, <1>8, EnterSeen

\* The creator of a room is told how many are in it: itself.
LEMMA CreatorHears ==
  ASSUME ViewInv, PInv, PInv', NEW u, NEW k, NEW p, Enters(u, k, p), k \notin DOMAIN rooms,
         p.status = "Free", Len(p.playerIds) = 1, k \in DOMAIN rooms', rooms'[k] = p,
         NEW s \in Watched, NEW v, v = view[s], NEW w, w = view'[s], NEW l,
         Listing(RoomEvent(k, RoomListUpdated)) => Fits(l),
         NEW x, x = Hears(Hears(v, s, RoomEvent(k, PlayerJoined(u)), l),
                          s, RoomEvent(k, RoomListUpdated), l),
         w = Hears(Hears(x, s, FromHandler(k, RoomCreated(u)), l),
                   s, FromHandler(NoRoom, RoomListUpdated), l)
  PROVE  HeardEnter(s, k, p)
<1>1. Knows(s, v) /\ IsView(v) /\ s \in Sessions
  BY WatchedAssumption DEF ViewInv, Knows
<1>2. HInv /\ users' = users  BY DEF PInv, Enters
<1>3. /\ LoggedIn(s)' = LoggedIn(s) /\ Small' = Small
      /\ RoomsOf(s)' = IF Caller(s) = u THEN RoomsOf(s) \cup {k} ELSE RoomsOf(s)
      /\ Mapped(k)' = 1
  BY <1>2, EnterPlaces DEF Small
<1>4. /\ IsView(x) /\ x.online = v.online /\ Fits(l)
      /\ ~LoggedIn(s)' => x = v
      /\ ~Member(s, k)' => SameRoomNews(v, x)
      /\ Member(s, k)' => /\ x.players = Counted(v.players, 1) /\ x.seats = v.seats
                          /\ x.stage = v.stage /\ x.cells = v.cells
                          /\ x.about = v.about \cup {k}
  BY <1>1, HearsEntry
<1>5. Len(rooms'[k].playerIds) = 1  OBVIOUS
<1>6. /\ IsView(w) /\ w.online = x.online
      /\ ~LoggedIn(s)' => w = x
      /\ ~Member(s, k)' => SameRoomNews(x, w)
      /\ Member(s, k)' => /\ w.players = 1 /\ w.seats = x.seats /\ w.stage = x.stage
                          /\ w.about = x.about \cup {k}
      /\ Small' /\ LoggedIn(s)' => w.list = ListOf(l.rooms)'
  BY <1>1, <1>4, <1>5, HearsCreation
<1>7. Listens(s, k)' => Sees(w, p, Mapped(k)')
  <2> SUFFICES ASSUME Listens(s, k)' PROVE Sees(w, p, Mapped(k)')  OBVIOUS
  <2>1. RoomsOf(s)' = {k} /\ Member(s, k)'  BY DEF Listens, Member
  <2>2. k \notin RoomsOf(s)  BY DEF RoomsOf
  <2>3. RoomsOf(s) = {}  BY <1>3, <2>1, <2>2
  <2>4. NoRoomNews(v)  BY <1>1, <2>3 DEF Knows
  <2>5. w.seats = <<>> /\ w.players = 1 /\ w.stage = "None"
    BY <1>4, <1>6, <2>1, <2>4 DEF NoRoomNews
  <2> QED  BY <1>3, <2>5 DEF Sees, Playing
<1>8. ListTold(v, w, s, FALSE)  BY <1>3, <1>4, <1>6 DEF ListTold, Fits
<1>9. /\ w.about \in {v.about, v.about \cup {k}}
      /\ ~Member(s, k)' \/ w.about = {} => SameRoomNews(v, w)
  BY <1>4, <1>6 DEF SameRoomNews
<1> QED  BY <1>3, <1>4, <1>6, <1>7, <1>8, <1>9 DEF HeardEnter

LEMMA CreateRoomSeen ==
  ASSUME ViewInv, PInv, PInv', NEW s0 \in Sessions, LoggedIn(s0), RoomOf(s0) = NoRoom,
         CreateRoom(s0),
         Publish(view, FromRoom(NextRoomId, AddPlayerEvents(Caller(s0)))
                         \o <<FromHandler(NextRoomId, RoomCreated(Caller(s0))),
                              FromHandler(NoRoom, RoomListUpdated)>>)
  PROVE  ViewInv'
<1>0. HInv  BY DEF PInv
<1>1. PICK n \in Nat : DOMAIN rooms = 1 .. n /\ NextRoomId = n + 1
  BY <1>0, NumberOfRooms DEF HInv
<1>2. PICK u, k, q, p : /\ u = Caller(s0) /\ k = n + 1 /\ q = NewRoom(DefaultSize)
                        /\ p = AddPlayer(q, u)
  OBVIOUS
<1>3. u \in Users /\ userIdToRoomIdMap[u] = NoRoom
  BY <1>0, <1>2 DEF LoggedIn, RoomOf, HInv, TypeOK, ObjectsTypeOK
<1>4. /\ rooms' = [r \in 1 .. k |-> IF r = k THEN p ELSE rooms[r]]
      /\ userIdToRoomIdMap' = [userIdToRoomIdMap EXCEPT ![u] = k]
      /\ UNCHANGED <<users, sessionMaps>>
  BY <1>1, <1>2 DEF CreateRoom, CreateRoomOf, MapUserToRoom
<1>5. GoodRoom(q) /\ q.playerIds = <<>> /\ ToSet(q.playerIds) = {} /\ q.status = "Free"
  BY <1>2, NewRoomGood DEF ToSet, NewRoom
<1>6. ToSet(p.playerIds) = {u} /\ p.status = "Free" /\ Len(p.playerIds) = 1
  <2>1. p.playerIds = Append(<<>>, u) /\ p.status = "Free"
    BY <1>2 DEF AddPlayer, NewRoom
  <2>2. Append(<<>>, u) = <<u>>  OBVIOUS
  <2>3. ToSet(<<u>>) = {u}  BY DEF ToSet
  <2> QED  BY <2>1, <2>2, <2>3
<1>7. k \notin DOMAIN rooms /\ k # NoRoom /\ k \in Int /\ k \in DOMAIN rooms'
      /\ rooms'[k] = p
  BY <1>1, <1>2, <1>4 DEF NoRoom
<1>8. Enters(u, k, p)
  <2>1. /\ DOMAIN rooms' = DOMAIN rooms \cup {k}
        /\ \A r \in DOMAIN rooms' : rooms'[r] = IF r = k THEN p ELSE rooms[r]
    BY <1>1, <1>2, <1>4
  <2> QED  BY <1>3, <1>4, <1>6, <1>7, <2>1 DEF Enters, PlayersBefore
<1>9. Publish(view, FromRoom(k, <<PlayerJoined(u), RoomListUpdated>>)
                      \o <<FromHandler(k, RoomCreated(u)), FromHandler(NoRoom, RoomListUpdated)>>)
  BY <1>1, <1>2 DEF AddPlayerEvents
<1>10. DOMAIN view' = Watched  BY <1>9, PublishDomain
<1>11. ASSUME NEW s \in Watched PROVE HeardEnter(s, k, p)
  <2>1. PICK l, x :
           /\ Listing(FromHandler(NoRoom, RoomListUpdated)) => Fits(l)
           /\ x = Hears(Hears(view[s], s, RoomEvent(k, PlayerJoined(u)), l),
                        s, RoomEvent(k, RoomListUpdated), l)
           /\ view'[s] = Hears(Hears(x, s, FromHandler(k, RoomCreated(u)), l),
                               s, FromHandler(NoRoom, RoomListUpdated), l)
    BY <1>9, PublishFromRoomThenTwo
  <2>2. Fits(l)  BY <2>1, ListingEvents
  <2> QED  BY <1>6, <1>7, <1>8, <2>1, <2>2, CreatorHears
<1> QED  BY <1>0, <1>8, <1>10, <1>11, EnterSeen

\* The list of users is right when it was pushed, and stays right when somebody
\* logs out.
LEMMA OnlinePushed ==
  ASSUME NEW l, Fits(l), NEW w, w.online = OnlineOf(l.users)'
  PROVE  SeesOnline(w)'
BY DEF Fits, SeesOnline, OnlineOf

LEMMA OnlineKept ==
  ASSUME HInv, NEW s0 \in Sessions, LogOut(s0), NEW v, SeesOnline(v)
  PROVE  SeesOnline(v)'
<1>1. /\ users' = users /\ users \subseteq Users
      /\ userIdToSessionIdMap \in [Users \cup Guests -> Sessions \cup {NoSession}]
      /\ userIdToSessionIdMap' =
           [userIdToSessionIdMap EXCEPT ![sessionIdToUserIdMap[s0]] = NoSession]
  BY DEF HInv, TypeOK, ObjectsTypeOK, LogOut, UnmapSession
<1>2. \A u \in users : userIdToSessionIdMap'[u] # NoSession => userIdToSessionIdMap[u] # NoSession
  BY <1>1
<1>3. v.online # <<>> => DOMAIN v.online \subseteq users  BY DEF SeesOnline, FirstOf
<1> QED  BY <1>1, <1>2, <1>3 DEF SeesOnline

\* Session s0 logs in or out: nobody else's place changes.
LEMMA AuthPlaces ==
  ASSUME PInv, PInv', NEW s0 \in Sessions, PoliteAuth(s0)
  PROVE  /\ UNCHANGED <<rooms, userIdToRoomIdMap>> /\ users \subseteq users'
         /\ \A s \in Sessions : s # s0 =>
              LoggedIn(s)' = LoggedIn(s) /\ RoomsOf(s)' = RoomsOf(s)
<1>1. /\ SessionMapsAreInverse
      /\ sessionIdToUserIdMap \in [Sessions -> Users \cup Guests \cup {NoUser}]
      /\ \A s \in Sessions : s # NoSession
  BY NoSessionAssumption DEF PInv, HInv, TypeOK, ObjectsTypeOK
<1>2. UNCHANGED <<rooms, userIdToRoomIdMap>>
  BY DEF PoliteAuth, Login, SignIn, LoginAsGuest, LogOut
<1>3. \/ \E u \in Users \cup Guests :
           /\ Fresh(s0, u) /\ MapSessionToUser(s0, u)
           /\ users' = users \/ users' = users \cup {u}
      \/ LogOut(s0)
  <2>1. Guest(s0) \in Users \cup Guests  BY DEF Guests
  <2> QED  BY <2>1 DEF PoliteAuth, Login, SignIn, LoginAsGuest, CreateUser
<1>4. users \subseteq users'  BY <1>3 DEF LogOut
<1>5. ASSUME NEW s \in Sessions, s # s0
      PROVE  LoggedIn(s)' = LoggedIn(s) /\ RoomsOf(s)' = RoomsOf(s)
  <2>1. Caller(s)' = Caller(s)
    BY <1>1, <1>3, <1>5 DEF Caller, MapSessionToUser, LogOut, UnmapSession
  <2>2. ASSUME NEW u \in Users \cup Guests, Fresh(s0, u), users' = users \cup {u}
        PROVE  LoggedIn(s)' = LoggedIn(s)
    <3>1. Caller(s) # u  BY <1>1, <2>2 DEF SessionMapsAreInverse, Fresh, Caller
    <3> QED  BY <2>1, <2>2, <3>1 DEF LoggedIn
  <2>3. users' = users => LoggedIn(s)' = LoggedIn(s)  BY <2>1 DEF LoggedIn
  <2>4. RoomsOf(s)' = RoomsOf(s)  BY <1>2, <2>1 DEF RoomsOf, InRoom
  <2> QED  BY <1>3, <2>2, <2>3, <2>4 DEF LogOut
<1> QED  BY <1>2, <1>4, <1>5

\* What is pushed then is who is online, or nothing.
LEMMA AuthHears ==
  ASSUME PInv, PInv', NEW s0 \in Sessions, NotifyAuth(s0), NEW s \in Watched,
         NEW v, v = Forgotten(s0)[s], IsView(v), ~LoggedIn(s)' => v = Blank,
         Small => SeesOnline(v), NEW w, w = view'[s]
  PROVE  /\ IsView(w) /\ SameRoomNews(v, w) /\ w.list = v.list
         /\ ~LoggedIn(s)' => w = Blank
         /\ Small' => SeesOnline(w)'
<1>1. HInv /\ s \in Sessions  BY WatchedAssumption DEF PInv
<1>2. ASSUME NEW u, Publish(Forgotten(s0), <<FromHandler(NoRoom, UserLoggedIn(u))>>)
      PROVE  /\ IsView(w) /\ SameRoomNews(v, w) /\ w.list = v.list
             /\ ~LoggedIn(s)' => w = Blank
             /\ Small' => SeesOnline(w)'
  <2>1. PICK l : /\ Listing(FromHandler(NoRoom, UserLoggedIn(u))) => Fits(l)
                 /\ w = Hears(v, s, FromHandler(NoRoom, UserLoggedIn(u)), l)
    BY <1>2, PublishOne
  <2>2. Fits(l)  BY <2>1, ListingEvents
  <2>3. /\ IsView(w) /\ SameRoomNews(v, w) /\ w.list = v.list
        /\ ~LoggedIn(s)' => w = v
        /\ Small' /\ LoggedIn(s)' => w.online = OnlineOf(l.users)'
    BY <1>1, <2>1, <2>2, ListingEvents, HearsLists
  <2>4. Small' => SeesOnline(w)'
    <3>1. CASE LoggedIn(s)'  BY <2>2, <2>3, <3>1, OnlinePushed
    <3>2. CASE ~LoggedIn(s)'  BY <2>3, <3>2, BlankIsView DEF SeesOnline
    <3> QED  BY <3>1, <3>2
  <2> QED  BY <2>3, <2>4
<1>3. ASSUME LogOut(s0), Publish(Forgotten(s0), <<>>)
      PROVE  /\ IsView(w) /\ SameRoomNews(v, w) /\ w.list = v.list
             /\ ~LoggedIn(s)' => w = Blank
             /\ Small' => SeesOnline(w)'
  <2>1. DOMAIN <<>> = 1 .. 0  OBVIOUS
  <2>2. w = v  BY <1>3, <2>1, PublishIs
  <2>3. Small' = Small  BY <1>3 DEF LogOut, Small
  <2>4. Small' => SeesOnline(w)'  BY <1>1, <1>3, <2>2, <2>3, OnlineKept
  <2> QED  BY <2>2, <2>4 DEF SameRoomNews
<1> QED  BY <1>2, <1>3 DEF NotifyAuth

LEMMA AuthSeen ==
  ASSUME ViewInv, PInv, PInv', NEW s0 \in Sessions, NotifyAuth(s0)
  PROVE  ViewInv'
<1>1. /\ UNCHANGED <<rooms, userIdToRoomIdMap>> /\ users \subseteq users'
      /\ \A s \in Sessions : s # s0 =>
           LoggedIn(s)' = LoggedIn(s) /\ RoomsOf(s)' = RoomsOf(s)
  <2>1. PoliteAuth(s0)  BY DEF NotifyAuth, PoliteAuth
  <2> QED  BY <2>1, AuthPlaces
<1>2. Small' => Small
  <2>1. users' \subseteq Users  BY DEF PInv, HInv, TypeOK, ObjectsTypeOK
  <2>2. IsFiniteSet(users')  BY <2>1, UsersAssumption, FS_Subset
  <2>3. /\ Cardinality(users) \in Nat /\ Cardinality(users') \in Nat
        /\ Cardinality(users) <= Cardinality(users')
    BY <1>1, <2>2, FS_Subset, FS_CardinalityType
  <2> QED  BY <2>3, LimitsAssumption DEF Small
<1>3. \A r : Mapped(r)' = Mapped(r)  BY <1>1 DEF Mapped
<1>4. DOMAIN view' = Watched  BY PublishDomain DEF NotifyAuth
<1>5. ASSUME NEW s \in Watched PROVE Knows(s, view[s])'
  <2>1. PICK v, w : v = Forgotten(s0)[s] /\ w = view'[s]  OBVIOUS
  <2>2. v = IF s = s0 THEN Blank ELSE view[s]  BY <2>1 DEF Forgotten
  <2>3. Knows(s, view[s]) /\ s \in Sessions  BY WatchedAssumption DEF ViewInv
  <2>4. /\ IsView(v) /\ (~LoggedIn(s)' => v = Blank)
        /\ Small => SeesList(v, rooms) /\ SeesOnline(v)
    <3>1. CASE s = s0  BY <2>2, <3>1, BlankIsView DEF SeesList, SeesOnline
    <3>2. CASE s # s0  BY <1>1, <2>2, <2>3, <3>2 DEF Knows
    <3> QED  BY <3>1, <3>2
  <2>5. /\ IsView(w) /\ SameRoomNews(v, w) /\ w.list = v.list
        /\ ~LoggedIn(s)' => w = Blank
        /\ Small' => SeesOnline(w)'
    BY <2>1, <2>4, AuthHears
  <2>6. Small' => SeesList(w, rooms')  BY <1>1, <1>2, <2>4, <2>5 DEF SeesList
  <2>7. /\ w.about \subseteq RoomsOf(s)'
        /\ w.about = {} => NoRoomNews(w)
        /\ \A r : Listens(s, r)' => Sees(w, rooms[r], Mapped(r))
    <3>1. CASE s = s0
      <4>1. NoRoomNews(w) /\ w.about = {}
        BY <2>2, <2>5, <3>1, BlankIsView DEF SameRoomNews, NoRoomNews
      <4> QED  BY <4>1, NoNewsSees
    <3>2. CASE s # s0
      <4>1. v = view[s] /\ RoomsOf(s)' = RoomsOf(s)
            /\ \A r : Listens(s, r)' = Listens(s, r)
        BY <1>1, <2>2, <2>3, <3>2 DEF Listens
      <4>2. /\ v.about \subseteq RoomsOf(s)
            /\ v.about = {} => NoRoomNews(v)
            /\ \A r : Listens(s, r) => Sees(v, rooms[r], Mapped(r))
        BY <2>3, <4>1 DEF Knows
      <4>3. \A r : Listens(s, r)' => Sees(w, rooms[r], Mapped(r))
        BY <2>5, <4>1, <4>2, SameNewsSees
      <4> QED  BY <2>5, <4>1, <4>2, <4>3 DEF SameRoomNews, NoRoomNews
    <3> QED  BY <3>1, <3>2
  <2>8. Knows(s, w)'  BY <1>1, <1>3, <2>5, <2>6, <2>7 DEF Knows
  <2> QED  BY <2>1, <2>8 DEF Knows
<1> QED  BY <1>4, <1>5 DEF ViewInv

LEMMA InitViewInv == NotifierInit => ViewInv
<1> SUFFICES ASSUME NotifierInit PROVE ViewInv  OBVIOUS
<1>1. DOMAIN view = Watched /\ \A s \in Watched : view[s] = Blank  BY DEF NotifierInit
<1>2. ASSUME NEW s \in Watched PROVE Knows(s, Blank)
  <2>1. \A r : Sees(Blank, rooms[r], Mapped(r))  BY BlankIsView, NoNewsSees
  <2> QED  BY <2>1, BlankIsView DEF Knows, SeesList, SeesOnline
<1> QED  BY <1>1, <1>2 DEF ViewInv

LEMMA NextViewInv == PInv /\ PInv' /\ ViewInv /\ [NotifierNext]_vars => ViewInv'
<1> SUFFICES ASSUME PInv, PInv', ViewInv, [NotifierNext]_vars PROVE ViewInv'  OBVIOUS
<1>1. CASE UNCHANGED vars
  <2>1. UNCHANGED <<users, rooms, sessionMaps, userIdToRoomIdMap, view>>
    BY <1>1 DEF vars, objects
  <2> SUFFICES ASSUME NEW s \in Watched PROVE Knows(s, view[s])'
    BY <2>1 DEF ViewInv
  <2>2. PICK v : v = view[s] /\ v = view'[s]  BY <2>1
  <2>3. Knows(s, v)  BY <2>2 DEF ViewInv
  <2>4. /\ LoggedIn(s)' = LoggedIn(s) /\ RoomsOf(s)' = RoomsOf(s)
        /\ \A r : Listens(s, r)' = Listens(s, r)
    BY <2>1, SamePlaces
  <2>5. Small' = Small /\ \A r : Mapped(r)' = Mapped(r)
    BY <2>1 DEF Small, Mapped
  <2>6. SeesList(v, rooms)' = SeesList(v, rooms) /\ SeesOnline(v)' = SeesOnline(v)
    BY <2>1 DEF SeesList, SeesOnline, sessionMaps
  <2>7. Knows(s, v)'  BY <2>1, <2>3, <2>4, <2>5, <2>6 DEF Knows
  <2> QED  BY <2>2, <2>7 DEF Knows
<1>2. ASSUME NEW s \in Sessions, NotifyLobby(s) PROVE ViewInv'
  BY <1>2, CreateRoomSeen, JoinRoomSeen DEF NotifyLobby
<1>3. ASSUME NEW s \in Sessions, NotifyRoom(s) PROVE ViewInv'
  <2>1. ASSUME NEW black \in users \cup {NoUser}, NEW white \in users \cup {NoUser},
               SyncSeatPacket(s, black, white),
               Notify(s, SyncSeatEvents(CallersRoom(s), Caller(s), black, white))
        PROVE  ViewInv'
    BY <2>1, SyncSeatSeen
  <2>2. ASSUME NEW size \in BoardSizes, SyncRoomSetting(s, size),
               Notify(s, EditRoomSettingEvents(Caller(s)))
        PROVE  ViewInv'
    BY <2>2, SyncRoomSettingSeen DEF SyncRoomSetting
  <2>3. ASSUME InARoom(s), EditRoomSettingOk(CallersRoom(s), Caller(s)), UNCHANGED objects,
               Notify(s, EditRoomSettingEvents(Caller(s)))
        PROVE  ViewInv'
    BY <2>3, SyncRoomSettingSeen
  <2>4. ASSUME InARoom(s), UNCHANGED objects, NotifyHimself(s, ChatMessageRecv(Caller(s)))
        PROVE  ViewInv'
    <3>1. ChatMessageRecv(Caller(s))[1] = "ChatMessageRecv"  BY DEF ChatMessageRecv
    <3> QED  BY <2>4, <3>1, NothingNewSeen
  <2>5. ASSUME ExitRoom(s), NotifyHimself(s, PlayerLeft(Caller(s))) PROVE ViewInv'
    BY <2>5, ExitRoomSeen
  <2> QED  BY <1>3, <2>1, <2>2, <2>3, <2>4, <2>5 DEF NotifyRoom
<1>4. ASSUME NEW s \in Sessions, NotifyGame(s) PROVE ViewInv'
  <2>1. ASSUME InARoom(s), UNCHANGED objects, NotifyHimself(s, DrawAccepted(Caller(s)))
        PROVE  ViewInv'
    <3>1. DrawAccepted(Caller(s))[1] = "DrawAccepted"  BY DEF DrawAccepted
    <3> QED  BY <2>1, <3>1, NothingNewSeen
  <2> QED
    BY <1>4, <2>1, StartGameSeen, MakeMoveSeen, GiveUpSeen, DrawSeen DEF NotifyGame
<1> QED  BY <1>1, <1>2, <1>3, <1>4, AuthSeen DEF NotifierNext

LEMMA NotifierIInv == NotifierSpec => [](PInv /\ ViewInv)
<1>1. NotifierSpec => []PInv  BY NotifierImplementsPolite, PoliteIInv, PTL
<1> QED  BY <1>1, InitViewInv, NextViewInv, PTL DEF NotifierSpec

-----------------------------------------------------------------------------
(* What clients may believe while all of them are polite. *)

\* Nobody reads the pushes of somebody else: a session that is not logged in as
\* a registered user has been told nothing, and the rooms whose pushes have
\* reached a session all have its user in their lists of players, although
\* BroadcastToRoom only follows maps.
THEOREM PushesFollowLoginCorrect == NotifierSpec => []PushesFollowLogin
<1>1. ViewInv => PushesFollowLogin
  BY DEF ViewInv, Knows, NoRoomNews, PushesFollowLogin
<1> QED  BY <1>1, NotifierIInv, PTL

\* While a user is in the player list of one room only, the seats and the number
\* of players its session was told are those of the room: no entry, exit or
\* change of seats reaches it twice, too late or not at all.
THEOREM RoomIsSeenCorrect == NotifierSpec => []RoomIsSeen
<1>1. ViewInv => RoomIsSeen
  BY ZenonT(40) DEF ViewInv, Knows, Sees, Mapped, RoomIsSeen
<1> QED  BY <1>1, NotifierIInv, PTL

\* A client that was told that a game begins knows its board, stone by stone,
\* for as long as it lasts; whoever was told of the end, or of a request for a
\* draw, is in a room whose game is over.
THEOREM GameIsSeenCorrect == NotifierSpec => []GameIsSeen
<1>1. ViewInv => GameIsSeen
  BY DEF ViewInv, Knows, Sees, Occupied, GameIsSeen
<1> QED  BY <1>1, NotifierIInv, PTL

\* However many rooms and users there are, of which ListLimit fit on a list: the
\* list of rooms a client was sent differs from the rooms on it by games that
\* have ended only, and its list of users misses none of those on it who is
\* online.
THEOREM LobbyIsSeenCorrect == NotifierSpec => []LobbyIsSeen
<1>1. ViewInv => LobbyIsSeen
  BY DEF ViewInv, Knows, Small, SeesList, SeesOnline, LobbyIsSeen
<1> QED  BY <1>1, NotifierIInv, PTL
=============================================================================
