----------------------------- MODULE RoomProofs -----------------------------
(***************************************************************************)
(* The invariants of RoomSpec and its refinement of Match, for any users,  *)
(* any capacity, any board sizes and any WinLength.                        *)
(***************************************************************************)
EXTENDS RoomSpec, GameLemmas

-----------------------------------------------------------------------------
(* The inductive invariant: the invariants that the runs check.             *)
(* NoLineWhilePlaying follows from LastStoneWon.                            *)

IInv == TypeOK /\ MembershipOK /\ SeatsOK /\ LastStoneWon

\* A board without lines satisfies LastStoneWon in every status.
Lineless(g) == \A color \in Stone : ~HasLine(g, color)

LEMMA LinelessBeforeEnd ==
  ASSUME LastStoneWon, room.status # "End"
  PROVE  Lineless(room.game)
BY DEF LastStoneWon, Lineless

LEMMA InitIInv == Init => IInv
<1> SUFFICES ASSUME Init PROVE IInv  OBVIOUS
<1>1. DefaultSize \in Nat /\ DefaultSize \in BoardSizes  BY BoardSizesAssumption
<1>2. room = NewRoom(DefaultSize)  BY DEF Init
<1>3. room \in RoomType(DefaultSize)
  BY <1>1, <1>2, NewGameType DEF NewRoom, RoomType, Status
<1>4. TypeOK  BY <1>1, <1>3 DEF TypeOK, IsRoom
<1>5. MembershipOK
  <2>1. room.playerIds = <<>> /\ room.ownerId = NoUser  BY <1>2 DEF NewRoom
  <2> QED  BY <2>1, MaxPlayersAssumption DEF MembershipOK
<1>6. SeatsOK  BY <1>2 DEF SeatsOK, NewRoom
<1>7. LastStoneWon
  <2>1. room.game = NewGame(DefaultSize)  BY <1>2 DEF NewRoom
  <2> QED  BY <1>1, <2>1, NewGameHasNoLine DEF LastStoneWon
<1> QED  BY <1>4, <1>5, <1>6, <1>7 DEF IInv

\* A step that changes neither seats nor members keeps what is said of them.
LEMMA SameMembers ==
  ASSUME IInv,
         room'.playerIds = room.playerIds, room'.ownerId = room.ownerId,
         room'.blackPlayerId = room.blackPlayerId, room'.whitePlayerId = room.whitePlayerId
  PROVE  MembershipOK' /\ SeatsOK'
BY DEF IInv, MembershipOK, SeatsOK

LEMMA JoinsIInv ==
  ASSUME IInv, NEW u \in Users, Joins(u)
  PROVE  IInv'
<1>1. PICK n \in BoardSizes : room \in RoomType(n)  BY DEF IInv, TypeOK, IsRoom
<1>2. n \in Nat  BY BoardSizesAssumption
<1> DEFINE s == room.playerIds
           t == Append(s, u)
<1>3. s \in Seq(Users)  BY <1>1, <1>2, RoomFields
<1>4. /\ t \in Seq(Users) /\ t # <<>> /\ Len(t) = Len(s) + 1 /\ DOMAIN s = 1 .. Len(s)
      /\ DOMAIN t = DOMAIN s \cup {Len(s) + 1}
      /\ \A i \in DOMAIN s : t[i] = s[i]
      /\ t[Len(s) + 1] = u
      /\ Len(s) \in Nat /\ (s = <<>> <=> Len(s) = 0)
  BY <1>3
<1> DEFINE o == IF s = <<>> THEN u ELSE room.ownerId
<1>5. o \in Users \cup {NoUser}  BY <1>1, <1>2, RoomFields
<1>6. u \notin ToSet(s) /\ Len(s) < MaxPlayers /\ room' = AddPlayer(room, u)
  BY DEF Joins, AddPlayerOk, InRoom
<1> HIDE DEF t, o
<1>7. /\ room' = [room EXCEPT !.ownerId = o, !.playerIds = t]
  BY <1>6 DEF AddPlayer, t, o
<1>8. /\ room'.status = room.status /\ room'.game = room.game
      /\ room'.blackPlayerId = room.blackPlayerId
      /\ room'.whitePlayerId = room.whitePlayerId
      /\ room'.ownerId = o /\ room'.playerIds = t
      /\ room' \in RoomType(n)
  BY <1>1, <1>4, <1>5, <1>7 DEF RoomType
<1>9. TypeOK'  BY <1>8 DEF TypeOK, IsRoom
<1>10. MembershipOK'
  <2>1. \A i, j \in DOMAIN t : t[i] = t[j] => i = j
    <3>1. \A i \in DOMAIN s : s[i] # u  BY <1>6 DEF ToSet
    <3>2. \A i, j \in DOMAIN s : s[i] = s[j] => i = j  BY DEF IInv, MembershipOK
    <3> QED  BY <1>4, <3>1, <3>2
  <2>2. Len(t) <= MaxPlayers  BY <1>4, <1>6, MaxPlayersAssumption
  <2>3. o = t[1]
    <3>1. CASE s = <<>>  BY <1>4, <3>1 DEF o
    <3>2. CASE s # <<>>
      <4>1. room.ownerId = s[1]  BY <3>2 DEF IInv, MembershipOK
      <4>2. 1 \in DOMAIN s  BY <1>4, <3>2
      <4> QED  BY <1>4, <3>2, <4>1, <4>2 DEF o
    <3> QED  BY <3>1, <3>2
  <2> QED  BY <1>4, <1>8, <2>1, <2>2, <2>3 DEF MembershipOK
<1>11. SeatsOK'
  <2>1. ToSet(s) \subseteq ToSet(t)  BY <1>4 DEF ToSet
  <2> QED  BY <1>8, <2>1 DEF IInv, SeatsOK
<1>12. LastStoneWon'  BY <1>8 DEF IInv, LastStoneWon
<1> QED  BY <1>9, <1>10, <1>11, <1>12 DEF IInv

LEMMA LeavesIInv ==
  ASSUME IInv, NEW u \in Users, Leaves(u)
  PROVE  IInv'
<1>1. PICK n \in BoardSizes : room \in RoomType(n)  BY DEF IInv, TypeOK, IsRoom
<1>2. n \in Nat  BY BoardSizesAssumption
<1> DEFINE s == room.playerIds
           t == room'.playerIds
<1>3. s \in Seq(Users) /\ \A i, j \in DOMAIN s : s[i] = s[j] => i = j
  BY <1>1, <1>2, RoomFields DEF IInv, MembershipOK
<1>4. room' = RemovePlayer(room, u) /\ InRoom(room, u)
  BY DEF Leaves, RemovePlayerOk
<1>5. /\ room'.status = room.status /\ room'.game = room.game
      /\ room'.blackPlayerId = IF room.blackPlayerId = u THEN NoUser ELSE room.blackPlayerId
      /\ room'.whitePlayerId = IF room.whitePlayerId = u THEN NoUser ELSE room.whitePlayerId
      /\ room'.ownerId = IF room.ownerId # u THEN room.ownerId
                         ELSE IF t = <<>> THEN NoUser ELSE t[1]
      /\ room' \in RoomType(n)
      /\ \E i \in 1 .. Len(s) : s[i] = u /\ t = RemoveAt(s, i)
  BY <1>1, <1>2, <1>3, <1>4, RemovePlayerFacts
<1>6. PICK i \in 1 .. Len(s) : s[i] = u /\ t = RemoveAt(s, i)  BY <1>5
<1>7. /\ t \in Seq(Users) /\ Len(t) = Len(s) - 1
      /\ \A j \in 1 .. Len(s) - 1 : t[j] = s[IF j < i THEN j ELSE j + 1]
  <2> HIDE DEF s, t
  <2>1. /\ RemoveAt(s, i) \in Seq(Users) /\ Len(RemoveAt(s, i)) = Len(s) - 1
        /\ \A j \in 1 .. Len(s) - 1 : RemoveAt(s, i)[j] = s[IF j < i THEN j ELSE j + 1]
    BY <1>3, RemoveAtFacts
  <2> QED  BY <1>6, <2>1
<1> HIDE DEF s, t
<1>8. /\ Len(s) \in Nat /\ Len(s) >= 1 /\ DOMAIN s = 1 .. Len(s)
      /\ DOMAIN t = 1 .. Len(s) - 1
      /\ (t = <<>> <=> Len(s) = 1)
  BY <1>3, <1>6, <1>7
<1>9. TypeOK'  BY <1>5 DEF TypeOK, IsRoom
<1>10. MembershipOK'
  <2>1. ASSUME NEW j \in DOMAIN t, NEW k \in DOMAIN t, t[j] = t[k] PROVE j = k
    <3> DEFINE Old(m) == IF m < i THEN m ELSE m + 1
    <3>1. t[j] = s[Old(j)] /\ t[k] = s[Old(k)]  BY <1>7, <1>8
    <3>2. Old(j) \in DOMAIN s /\ Old(k) \in DOMAIN s  BY <1>6, <1>8
    <3>3. Old(j) = Old(k)  BY <1>3, <2>1, <3>1, <3>2
    <3> QED  BY <1>6, <1>8, <3>3
  <2>2. Len(t) <= MaxPlayers
    BY <1>7, <1>8, MaxPlayersAssumption DEF IInv, MembershipOK, s
  <2>3. room'.ownerId = IF t = <<>> THEN NoUser ELSE t[1]
    <3>1. room.ownerId = s[1]  BY <1>8 DEF IInv, MembershipOK, s
    <3>2. CASE i = 1  BY <1>5, <1>6, <3>1, <3>2
    <3>3. CASE i # 1
      <4>1. s[1] # u  BY <1>3, <1>6, <1>8, <3>3
      <4>2. t # <<>> /\ t[1] = s[1]  BY <1>6, <1>7, <1>8, <3>3
      <4> QED  BY <1>5, <3>1, <4>1, <4>2
    <3> QED  BY <3>2, <3>3
  <2> QED  BY <2>1, <2>2, <2>3 DEF MembershipOK, t
<1>11. SeatsOK'
  <2>1. \A w \in ToSet(s) : w # u => w \in ToSet(t)
    <3> SUFFICES ASSUME NEW k \in DOMAIN s, s[k] # u PROVE s[k] \in ToSet(t)
      BY DEF ToSet
    <3>1. CASE k < i
      BY <1>6, <1>7, <1>8, <3>1 DEF ToSet
    <3>2. CASE k > i
      <4>1. k - 1 \in 1 .. Len(s) - 1 /\ ~(k - 1 < i) /\ k - 1 + 1 = k
        BY <1>6, <1>8, <3>2
      <4>2. t[k - 1] = s[k]  BY <1>7, <4>1
      <4> QED  BY <1>8, <4>1, <4>2 DEF ToSet
    <3>3. k # i  BY <1>6
    <3> QED  BY <1>6, <1>8, <3>1, <3>2, <3>3
  <2>2. u # NoUser  BY NoUserAssumption
  <2> QED  BY <1>5, <2>1, <2>2 DEF IInv, SeatsOK, s, t
<1>12. LastStoneWon'  BY <1>5 DEF IInv, LastStoneWon
<1> QED  BY <1>9, <1>10, <1>11, <1>12 DEF IInv

LEMMA EditsSettingIInv ==
  ASSUME IInv, NEW u \in Users, NEW size \in BoardSizes, EditsSetting(u, size)
  PROVE  IInv'
<1>1. PICK n \in BoardSizes : room \in RoomType(n)  BY DEF IInv, TypeOK, IsRoom
<1>2. n \in Nat /\ size \in Nat  BY BoardSizesAssumption
<1>3. room' = [room EXCEPT !.game = NewGame(size)]
  BY DEF EditsSetting, EditRoomSetting
<1>4. /\ room'.game = NewGame(size) /\ room' \in RoomType(size)
      /\ room'.playerIds = room.playerIds /\ room'.ownerId = room.ownerId
      /\ room'.blackPlayerId = room.blackPlayerId
      /\ room'.whitePlayerId = room.whitePlayerId
  BY <1>1, <1>2, <1>3, NewGameType DEF RoomType
<1>5. TypeOK'  BY <1>4 DEF TypeOK, IsRoom
<1>6. LastStoneWon'  BY <1>2, <1>4, NewGameHasNoLine DEF LastStoneWon
<1> QED  BY <1>4, <1>5, <1>6, SameMembers DEF IInv

LEMMA AsksSeatIInv ==
  ASSUME IInv, NEW u \in Users,
         NEW black \in Users \cup {NoUser}, NEW white \in Users \cup {NoUser},
         AsksSeat(u, black, white)
  PROVE  IInv'
<1>1. PICK n \in BoardSizes : room \in RoomType(n)  BY DEF IInv, TypeOK, IsRoom
<1>2. n \in Nat  BY BoardSizesAssumption
<1>3. /\ room' = SyncSeat(room, u, black, white) /\ SyncSeatOk(room, u, black, white)
      /\ room.blackPlayerId = room.whitePlayerId => room.blackPlayerId = NoUser
  BY DEF AsksSeat, IInv, SeatsOK
<1>4. /\ room'.status = room.status /\ room'.game = room.game
      /\ room'.playerIds = room.playerIds /\ room'.ownerId = room.ownerId
      /\ room'.blackPlayerId \in {room.blackPlayerId, u, NoUser}
      /\ room'.whitePlayerId \in {room.whitePlayerId, u, NoUser}
      /\ room'.blackPlayerId = room'.whitePlayerId => room'.blackPlayerId = NoUser
      /\ room' \in RoomType(n)
  <2> DEFINE p == SyncSeat(room, u, black, white)
  <2>1. /\ p.status = room.status /\ p.game = room.game
        /\ p.playerIds = room.playerIds /\ p.ownerId = room.ownerId
        /\ p.blackPlayerId \in {room.blackPlayerId, u, NoUser}
        /\ p.whitePlayerId \in {room.whitePlayerId, u, NoUser}
        /\ p.blackPlayerId = p.whitePlayerId => p.blackPlayerId = NoUser
        /\ p \in RoomType(n)
    BY <1>1, <1>2, <1>3, SyncSeatFacts
  <2>2. room' = p  BY <1>3
  <2> HIDE DEF p
  <2> QED  BY <2>1, <2>2
<1>5. TypeOK'  BY <1>4 DEF TypeOK, IsRoom
<1>6. MembershipOK'  BY <1>4 DEF IInv, MembershipOK
<1>7. SeatsOK'
  <2>1. u \in ToSet(room.playerIds)  BY <1>3 DEF SyncSeatOk, InRoom
  <2> QED  BY <1>4, <2>1 DEF IInv, SeatsOK
<1>8. LastStoneWon'  BY <1>4 DEF IInv, LastStoneWon
<1> QED  BY <1>5, <1>6, <1>7, <1>8 DEF IInv

LEMMA StartsIInv ==
  ASSUME IInv, NEW u \in Users, Starts(u)
  PROVE  IInv'
<1>1. PICK n \in BoardSizes : room \in RoomType(n)  BY DEF IInv, TypeOK, IsRoom
<1>2. n \in Nat  BY BoardSizesAssumption
<1>3. room' = [room EXCEPT !.status = "Playing", !.game = NewGame(n)]
  BY <1>1, <1>2, RoomFields DEF Starts, StartGame, Reset
<1>4. /\ room'.game = NewGame(n) /\ room' \in RoomType(n)
      /\ room'.playerIds = room.playerIds /\ room'.ownerId = room.ownerId
      /\ room'.blackPlayerId = room.blackPlayerId
      /\ room'.whitePlayerId = room.whitePlayerId
  BY <1>1, <1>2, <1>3, NewGameType DEF RoomType, Status
<1>5. TypeOK'  BY <1>4 DEF TypeOK, IsRoom
<1>6. LastStoneWon'  BY <1>2, <1>4, NewGameHasNoLine DEF LastStoneWon
<1> QED  BY <1>4, <1>5, <1>6, SameMembers DEF IInv

\* What a move does to a room, and when it ends the game.
LEMMA MovesFacts ==
  ASSUME IInv, NEW u \in Users, NEW c \in Cells(room.game.boardSize), Moves(u, c)
  PROVE  \E n \in BoardSizes :
           LET color == ColorOf(room, u)
           IN  /\ n \in Nat
               /\ room \in RoomType(n) /\ room' \in RoomType(n)
               /\ c \in Cells(n) /\ color \in Stone
               /\ room.game.board[c] = "EMPTY"
               /\ Playing(room) /\ Plays(room, u)
               /\ Lineless(room.game)
               /\ room'.game = MakeMove(room.game, c, color)
               /\ room'.status = IF HasLine(room'.game, color) THEN "End" ELSE "Playing"
               /\ room'.playerIds = room.playerIds /\ room'.ownerId = room.ownerId
               /\ room'.blackPlayerId = room.blackPlayerId
               /\ room'.whitePlayerId = room.whitePlayerId
               /\ WinsBy(room, u, c) <=> HasLine(room'.game, color)
<1>1. PICK n \in BoardSizes : room \in RoomType(n)  BY DEF IInv, TypeOK, IsRoom
<1>2. n \in Nat /\ room.game.boardSize = n /\ room.game \in GameType(n)
  BY <1>1, BoardSizesAssumption, RoomFields
<1> DEFINE color == ColorOf(room, u)
           g == Moved(room, u, c)
<1>3. /\ Playing(room) /\ Plays(room, u) /\ room.game.board[c] = "EMPTY"
      /\ room' = MakeMoveInRoom(room, u, c)
  BY DEF Moves, MakeMoveOk, CanMove
<1>4. color \in Stone /\ c \in Cells(n)  BY <1>2 DEF ColorOf, Stone
<1>5. Lineless(room.game)
  BY <1>3, LinelessBeforeEnd DEF IInv, Playing
<1>6. g = MakeMove(room.game, c, color) /\ g \in GameType(n)
  BY <1>2, <1>4, MoveType DEF Moved
<1>7. WinsBy(room, u, c) <=> HasLine(g, color)
  <2>1. CheckWin(MakeMove(room.game, c, color), c) # "EMPTY"
          <=> HasLine(MakeMove(room.game, c, color), color)
    BY <1>2, <1>4, <1>5, MoveWinsIffLine DEF Lineless
  <2> QED  BY <1>6, <2>1 DEF WinsBy
<1> HIDE DEF g
<1> DEFINE t == IF HasLine(g, color) THEN "End" ELSE "Playing"
<1>8. room' = [room EXCEPT !.game = g, !.status = t]
  BY <1>3, <1>7 DEF MakeMoveInRoom, Playing, g
<1>9. t \in Status  BY DEF Status
<1> HIDE DEF t
<1>10. /\ room'.game = g /\ room'.status = t
       /\ room'.playerIds = room.playerIds /\ room'.ownerId = room.ownerId
       /\ room'.blackPlayerId = room.blackPlayerId
       /\ room'.whitePlayerId = room.whitePlayerId
       /\ room' \in RoomType(n)
  BY <1>1, <1>6, <1>8, <1>9 DEF RoomType
<1> QED  BY <1>1, <1>2, <1>3, <1>4, <1>5, <1>6, <1>7, <1>10 DEF t

LEMMA MovesIInv ==
  ASSUME IInv, NEW u \in Users, NEW c \in Cells(room.game.boardSize), Moves(u, c)
  PROVE  IInv'
<1> DEFINE color == ColorOf(room, u)
<1>1. PICK n \in BoardSizes :
        /\ n \in Nat
        /\ room \in RoomType(n) /\ room' \in RoomType(n)
        /\ c \in Cells(n) /\ color \in Stone
        /\ Lineless(room.game)
        /\ room'.game = MakeMove(room.game, c, color)
        /\ room'.status = IF HasLine(room'.game, color) THEN "End" ELSE "Playing"
        /\ room'.playerIds = room.playerIds /\ room'.ownerId = room.ownerId
        /\ room'.blackPlayerId = room.blackPlayerId
        /\ room'.whitePlayerId = room.whitePlayerId
  BY MovesFacts
<1>2. room.game \in GameType(n)  BY <1>1, RoomFields
<1> HIDE DEF color
<1>3. TypeOK'  BY <1>1 DEF TypeOK, IsRoom
<1>4. LastStoneWon'
  <2> SUFFICES ASSUME NEW k \in Stone, HasLine(room'.game, k)
               PROVE  room'.status = "End" /\ LineThrough(room'.game, room'.game.lastMove, k)
    BY DEF LastStoneWon
  <2>1. room'.game.lastMove = c  BY <1>1 DEF MakeMove
  <2>2. k = color /\ LineThrough(room'.game, c, color)
    BY <1>1, <1>2, NewLineThroughMove DEF Lineless
  <2> QED  BY <1>1, <2>1, <2>2
<1> QED  BY <1>1, <1>3, <1>4, SameMembers DEF IInv

LEMMA EndIInv ==
  ASSUME IInv, NEW u \in Users, EndGameOk(room, u), room' = EndGame(room)
  PROVE  IInv'
<1>1. PICK n \in BoardSizes : room \in RoomType(n)  BY DEF IInv, TypeOK, IsRoom
<1>2. /\ room'.status = "End" /\ room'.game = room.game
      /\ room'.playerIds = room.playerIds /\ room'.ownerId = room.ownerId
      /\ room'.blackPlayerId = room.blackPlayerId
      /\ room'.whitePlayerId = room.whitePlayerId
      /\ room' \in RoomType(n)
  BY <1>1 DEF EndGame, RoomType, Status
<1>3. TypeOK'  BY <1>2 DEF TypeOK, IsRoom
<1>4. LastStoneWon'  BY <1>2 DEF IInv, LastStoneWon
<1> QED  BY <1>2, <1>3, <1>4, SameMembers DEF IInv

\* The invariant of the room: its types, who is in it and who owns it, who has
\* a seat, and that a line on the board is the work of the last stone.
THEOREM RoomIInv == Spec => []IInv
<1>1. IInv /\ [Next]_vars => IInv'
  <2> SUFFICES ASSUME IInv, [Next]_vars PROVE IInv'  OBVIOUS
  <2>1. ASSUME NEW u \in Users, Joins(u) PROVE IInv'  BY <2>1, JoinsIInv
  <2>2. ASSUME NEW u \in Users, Leaves(u) PROVE IInv'  BY <2>2, LeavesIInv
  <2>3. ASSUME NEW u \in Users, NEW size \in BoardSizes, EditsSetting(u, size) PROVE IInv'
    BY <2>3, EditsSettingIInv
  <2>4. CASE UNCHANGED room
    BY <2>4 DEF IInv, TypeOK, MembershipOK, SeatsOK, LastStoneWon
  <2>5. ASSUME NEW u \in Users, EditsNothing(u) PROVE IInv'
    BY <2>4, <2>5 DEF EditsNothing
  <2>6. ASSUME NEW u \in Users, NEW black \in Users \cup {NoUser},
               NEW white \in Users \cup {NoUser}, AsksSeat(u, black, white)
        PROVE  IInv'
    BY <2>6, AsksSeatIInv
  <2>7. ASSUME NEW u \in Users, Starts(u) PROVE IInv'  BY <2>7, StartsIInv
  <2>8. ASSUME NEW u \in Users, NEW c, Moves(u, c) PROVE IInv'
    BY <2>8, MovesIInv DEF Moves, MakeMoveOk, CanMove
  <2>9. ASSUME NEW u \in Users, Draws(u) \/ GivesUp(u) PROVE IInv'
    BY <2>9, EndIInv DEF Draws, GivesUp
  <2> QED  BY <2>1, <2>2, <2>3, <2>4, <2>5, <2>6, <2>7, <2>8, <2>9 DEF Next, vars
<1> QED  BY <1>1, InitIInv, PTL DEF Spec

-----------------------------------------------------------------------------
(* The invariants the runs check, one by one. *)

\* Every field of the room keeps its type.
THEOREM RoomTypeCorrect == Spec => []TypeOK
<1>1. IInv => TypeOK  BY DEF IInv
<1> QED  BY <1>1, RoomIInv, PTL

\* AddPlayer and RemovePlayer keep the player list free of duplicates and
\* within its capacity, and the ownership with the first of the list.
THEOREM RoomMembershipCorrect == Spec => []MembershipOK
<1>1. IInv => MembershipOK  BY DEF IInv
<1> QED  BY <1>1, RoomIInv, PTL

\* SyncSeat and RemovePlayer never leave a seat to somebody who is not in the
\* room, nor both seats to one user.
THEOREM RoomSeatsCorrect == Spec => []SeatsOK
<1>1. IInv => SeatsOK  BY DEF IInv
<1> QED  BY <1>1, RoomIInv, PTL

\* Room::MakeMove ends the game with the first line: while a game is played
\* nobody has one.
THEOREM RoomNoLineWhilePlaying == Spec => []NoLineWhilePlaying
<1>1. IInv => NoLineWhilePlaying
  BY LinelessBeforeEnd DEF IInv, NoLineWhilePlaying, Playing, Lineless
<1> QED  BY <1>1, RoomIInv, PTL

\* A line on the board of a finished game contains the last stone.
THEOREM RoomLastStoneWon == Spec => []LastStoneWon
<1>1. IInv => LastStoneWon  BY DEF IInv
<1> QED  BY <1>1, RoomIInv, PTL


-----------------------------------------------------------------------------
(* RoomSpec implements Match: every call on a room is a step of the match   *)
(* its fields describe, or leaves the match alone.                          *)

\* The rule of the game reads the board and its size only.
LEMMA SameRule ==
  ASSUME NEW g, NEW p, g.boardSize = p.boardSize, g.board = p.board, NEW color
  PROVE  AbstractMatch!HasLine(p, color) <=> HasLine(g, color)
BY DEF HasLine, AbstractMatch!HasLine, LineFrom, AbstractMatch!LineFrom,
       HasColor, AbstractMatch!HasColor, Shift, AbstractMatch!Shift,
       Cells, AbstractMatch!Cells, Directions, AbstractMatch!Directions

\* An empty board of the code is the empty position of the match.
LEMMA NewGameIsEmpty ==
  ASSUME NEW n
  PROVE  /\ AbstractMatch!Empty(n).boardSize = NewGame(n).boardSize
         /\ AbstractMatch!Empty(n).board = NewGame(n).board
BY DEF AbstractMatch!Empty, NewGame, AbstractMatch!Cells, Cells

LEMMA InitRefines == Init => AbstractMatch!Init
<1> SUFFICES ASSUME Init PROVE AbstractMatch!Init  OBVIOUS
<1>1. room = NewRoom(DefaultSize) /\ DefaultSize \in BoardSizes
  BY BoardSizesAssumption DEF Init
<1>2. [boardSize |-> room.game.boardSize, board |-> room.game.board]
        = AbstractMatch!Empty(DefaultSize)
  BY <1>1 DEF NewRoom, NewGame, AbstractMatch!Empty, AbstractMatch!Cells, Cells
<1> QED  BY <1>1, <1>2 DEF NewRoom, AbstractMatch!Init

\* The four variables of the match, before and after a step of the room.
SameMatch ==
  /\ room'.status = room.status
  /\ room'.blackPlayerId = room.blackPlayerId
  /\ room'.whitePlayerId = room.whitePlayerId
  /\ room'.game = room.game

LEMMA SameMatchStutters == SameMatch => UNCHANGED AbstractMatch!vars
BY DEF SameMatch, AbstractMatch!vars

LEMMA JoinsSameMatch ==
  ASSUME IInv, NEW u \in Users, Joins(u)
  PROVE  SameMatch
<1>1. PICK n \in BoardSizes : room \in RoomType(n)  BY DEF IInv, TypeOK, IsRoom
<1> DEFINE o == IF room.playerIds = <<>> THEN u ELSE room.ownerId
           t == Append(room.playerIds, u)
<1>2. room' = [room EXCEPT !.ownerId = o, !.playerIds = t]
  BY DEF Joins, AddPlayer
<1> HIDE DEF o, t
<1> QED  BY <1>1, <1>2 DEF RoomType, SameMatch

\* Leaving vacates the seats of the one who leaves and nothing else.
LEMMA LeavesFacts ==
  ASSUME IInv, NEW u \in Users, Leaves(u)
  PROVE  /\ room'.status = room.status /\ room'.game = room.game
         /\ room'.blackPlayerId = IF room.blackPlayerId = u THEN NoUser ELSE room.blackPlayerId
         /\ room'.whitePlayerId = IF room.whitePlayerId = u THEN NoUser ELSE room.whitePlayerId
<1>1. PICK n \in BoardSizes : room \in RoomType(n)  BY DEF IInv, TypeOK, IsRoom
<1>2. n \in Nat  BY BoardSizesAssumption
<1>3. InRoom(room, u)
      /\ \A i, j \in DOMAIN room.playerIds :
           room.playerIds[i] = room.playerIds[j] => i = j
  BY DEF Leaves, RemovePlayerOk, IInv, MembershipOK
<1>4. room' = RemovePlayer(room, u)  BY DEF Leaves
<1> QED  BY <1>1, <1>2, <1>3, <1>4, RemovePlayerFacts

LEMMA LeavesRefines ==
  ASSUME IInv, NEW u \in Users, Leaves(u)
  PROVE  AbstractMatch!Next
<1>1. PICK n \in BoardSizes : room \in RoomType(n)  BY DEF IInv, TypeOK, IsRoom
<1>2. n \in Nat  BY BoardSizesAssumption
<1>3. room.blackPlayerId \in Users \cup {NoUser} /\ room.whitePlayerId \in Users \cup {NoUser}
  BY <1>1, <1>2, RoomFields
<1>4. room.blackPlayerId = room.whitePlayerId => room.blackPlayerId = NoUser
  BY DEF IInv, SeatsOK
<1>5. CASE room.status = "Playing"
  <2>1. AbstractMatch!Leave  BY <1>5, LeavesFacts DEF AbstractMatch!Leave
  <2> QED  BY <2>1 DEF AbstractMatch!Next
<1>6. CASE room.status # "Playing"
  <2>1. AbstractMatch!ChangeSeats
    BY <1>3, <1>4, <1>6, LeavesFacts DEF AbstractMatch!ChangeSeats
  <2> QED  BY <2>1 DEF AbstractMatch!Next
<1> QED  BY <1>5, <1>6

LEMMA EditsSettingRefines ==
  ASSUME IInv, NEW u \in Users, NEW size \in BoardSizes, EditsSetting(u, size)
  PROVE  AbstractMatch!Next
<1>1. PICK n \in BoardSizes : room \in RoomType(n)  BY DEF IInv, TypeOK, IsRoom
<1>2. room' = [room EXCEPT !.game = NewGame(size)] /\ room.status # "Playing"
  BY DEF EditsSetting, EditRoomSettingOk, EditRoomSetting, Playing
<1>3. /\ room'.game = NewGame(size) /\ room'.status = room.status
      /\ room'.blackPlayerId = room.blackPlayerId
      /\ room'.whitePlayerId = room.whitePlayerId
  BY <1>1, <1>2 DEF RoomType
<1>4. [boardSize |-> room'.game.boardSize, board |-> room'.game.board]
        = AbstractMatch!Empty(size)
  BY <1>3 DEF NewGame, AbstractMatch!Empty, AbstractMatch!Cells, Cells
<1>5. AbstractMatch!ChangeBoard
  BY <1>2, <1>3, <1>4 DEF AbstractMatch!ChangeBoard
<1> QED  BY <1>5 DEF AbstractMatch!Next

LEMMA AsksSeatRefines ==
  ASSUME IInv, NEW u \in Users,
         NEW black \in Users \cup {NoUser}, NEW white \in Users \cup {NoUser},
         AsksSeat(u, black, white)
  PROVE  AbstractMatch!Next
<1>1. PICK n \in BoardSizes : room \in RoomType(n)  BY DEF IInv, TypeOK, IsRoom
<1>2. n \in Nat  BY BoardSizesAssumption
<1>3. /\ SyncSeatOk(room, u, black, white)
      /\ room.blackPlayerId = room.whitePlayerId => room.blackPlayerId = NoUser
  BY DEF AsksSeat, IInv, SeatsOK
<1> DEFINE p == SyncSeat(room, u, black, white)
<1>4. /\ p.status = room.status /\ p.game = room.game
      /\ p.blackPlayerId = p.whitePlayerId => p.blackPlayerId = NoUser
      /\ p \in RoomType(n)
  BY <1>1, <1>2, <1>3, SyncSeatFacts
<1>5. room' = p  BY DEF AsksSeat
<1> HIDE DEF p
<1>6. p.blackPlayerId \in Users \cup {NoUser} /\ p.whitePlayerId \in Users \cup {NoUser}
  BY <1>2, <1>4, RoomFields
<1>7. room.status # "Playing"  BY <1>3 DEF SyncSeatOk, Playing
<1>8. AbstractMatch!ChangeSeats
  BY <1>4, <1>5, <1>6, <1>7 DEF AbstractMatch!ChangeSeats
<1> QED  BY <1>8 DEF AbstractMatch!Next

LEMMA StartsRefines ==
  ASSUME IInv, NEW u \in Users, Starts(u)
  PROVE  AbstractMatch!Next
<1>1. PICK n \in BoardSizes : room \in RoomType(n)  BY DEF IInv, TypeOK, IsRoom
<1>2. n \in Nat /\ room.game.boardSize = n  BY <1>1, BoardSizesAssumption, RoomFields
<1>3. /\ room' = [room EXCEPT !.status = "Playing", !.game = NewGame(n)]
      /\ room.status # "Playing"
      /\ room.blackPlayerId # NoUser /\ room.whitePlayerId # NoUser
  BY <1>1, <1>2 DEF Starts, StartGameOk, StartGame, Reset, Playing, RoomType
<1>4. /\ room'.game = NewGame(n) /\ room'.status = "Playing"
      /\ room'.blackPlayerId = room.blackPlayerId
      /\ room'.whitePlayerId = room.whitePlayerId
  BY <1>1, <1>3 DEF RoomType
<1>5. [boardSize |-> room'.game.boardSize, board |-> room'.game.board]
        = AbstractMatch!Empty(n)
  BY <1>4 DEF NewGame, AbstractMatch!Empty, AbstractMatch!Cells, Cells
<1>6. AbstractMatch!Start  BY <1>2, <1>3, <1>4, <1>5 DEF AbstractMatch!Start
<1> QED  BY <1>6 DEF AbstractMatch!Next

LEMMA MovesRefines ==
  ASSUME IInv, NEW u \in Users, NEW c \in Cells(room.game.boardSize), Moves(u, c)
  PROVE  AbstractMatch!Next
<1> DEFINE color == ColorOf(room, u)
           g == room.game
<1>1. PICK n \in BoardSizes :
        /\ n \in Nat
        /\ room \in RoomType(n)
        /\ c \in Cells(n) /\ color \in Stone
        /\ room.game.board[c] = "EMPTY"
        /\ Playing(room) /\ Plays(room, u)
        /\ room'.game = MakeMove(room.game, c, color)
        /\ room'.status = IF HasLine(room'.game, color) THEN "End" ELSE "Playing"
        /\ room'.blackPlayerId = room.blackPlayerId
        /\ room'.whitePlayerId = room.whitePlayerId
  BY MovesFacts
<1>2. u # NoUser  BY NoUserAssumption
<1>3. /\ color = "BLACK" => room.blackPlayerId # NoUser
      /\ color = "WHITE" => room.whitePlayerId # NoUser
  BY <1>1, <1>2 DEF ColorOf, Plays
<1> HIDE DEF color
<1>4. /\ room'.game.boardSize = g.boardSize
      /\ room'.game.board = [g.board EXCEPT ![c] = color]
  BY <1>1 DEF MakeMove
<1> DEFINE q == [boardSize |-> room'.game.boardSize, board |-> room'.game.board]
<1>5. AbstractMatch!HasLine(q, color) <=> HasLine(room'.game, color)
  BY SameRule
<1>6. AbstractMatch!Place(c, color)
  BY <1>1, <1>3, <1>4, <1>5 DEF AbstractMatch!Place, Playing
<1>7. c \in AbstractMatch!Cells(room.game.boardSize) /\ color \in AbstractMatch!Stone
  BY <1>1 DEF AbstractMatch!Cells, Cells, AbstractMatch!Stone, Stone
<1> QED  BY <1>6, <1>7 DEF AbstractMatch!Next

LEMMA EndRefines ==
  ASSUME IInv, NEW u \in Users, EndGameOk(room, u), room' = EndGame(room)
  PROVE  AbstractMatch!Next
<1>1. PICK n \in BoardSizes : room \in RoomType(n)  BY DEF IInv, TypeOK, IsRoom
<1>2. /\ room'.status = "End" /\ room'.game = room.game
      /\ room'.blackPlayerId = room.blackPlayerId
      /\ room'.whitePlayerId = room.whitePlayerId
  BY <1>1 DEF EndGame, RoomType
<1>3. room.status = "Playing" /\ (room.blackPlayerId # NoUser \/ room.whitePlayerId # NoUser)
  BY NoUserAssumption DEF EndGameOk, Playing, Plays
<1>4. AbstractMatch!Stop  BY <1>2, <1>3 DEF AbstractMatch!Stop
<1> QED  BY <1>4 DEF AbstractMatch!Next

\* A room keeps the promise of Match: seats are fixed while a game is played
\* except for players who leave, stones are placed on empty cells and never
\* moved, and a game ends by the rule of the game, exactly when the first line
\* appears, or when a player who still has a seat stops it.
THEOREM RoomImplementsMatch == Spec => ImplementsMatch
<1>1. IInv /\ [Next]_vars => [AbstractMatch!Next]_(AbstractMatch!vars)
  <2> SUFFICES ASSUME IInv, [Next]_vars
               PROVE  AbstractMatch!Next \/ UNCHANGED AbstractMatch!vars
    OBVIOUS
  <2>1. CASE UNCHANGED room  BY <2>1, SameMatchStutters DEF SameMatch
  <2>2. ASSUME NEW u \in Users, Joins(u) PROVE UNCHANGED AbstractMatch!vars
    BY <2>2, JoinsSameMatch, SameMatchStutters
  <2>3. ASSUME NEW u \in Users, Leaves(u) PROVE AbstractMatch!Next
    BY <2>3, LeavesRefines
  <2>4. ASSUME NEW u \in Users, NEW size \in BoardSizes, EditsSetting(u, size)
        PROVE  AbstractMatch!Next
    BY <2>4, EditsSettingRefines
  <2>5. ASSUME NEW u \in Users, NEW black \in Users \cup {NoUser},
               NEW white \in Users \cup {NoUser}, AsksSeat(u, black, white)
        PROVE  AbstractMatch!Next
    BY <2>5, AsksSeatRefines
  <2>6. ASSUME NEW u \in Users, Starts(u) PROVE AbstractMatch!Next
    BY <2>6, StartsRefines
  <2>7. ASSUME NEW u \in Users, NEW c, Moves(u, c) PROVE AbstractMatch!Next
    BY <2>7, MovesRefines DEF Moves, MakeMoveOk, CanMove
  <2>8. ASSUME NEW u \in Users, Draws(u) \/ GivesUp(u) PROVE AbstractMatch!Next
    BY <2>8, EndRefines DEF Draws, GivesUp
  <2> QED
    BY <2>1, <2>2, <2>3, <2>4, <2>5, <2>6, <2>7, <2>8 DEF Next, vars, EditsNothing
<1> QED
  BY <1>1, InitRefines, RoomIInv, PTL DEF Spec, ImplementsMatch, AbstractMatch!Spec

-----------------------------------------------------------------------------
(* What one call may do to a game that is being played.                     *)

\* Seats are only vacated, stones only added, one at a time.
Stable ==
  Playing(room) /\ Playing(room') =>
    /\ room'.blackPlayerId \in {room.blackPlayerId, NoUser}
    /\ room'.whitePlayerId \in {room.whitePlayerId, NoUser}
    /\ \A c \in Cells(room.game.boardSize) :
         room.game.board[c] # "EMPTY" => room'.game.board[c] = room.game.board[c]
    /\ MoveCount(room'.game) <= MoveCount(room.game) + 1

LEMMA SameGameIsStable ==
  ASSUME IInv, room'.game = room.game,
         room'.blackPlayerId \in {room.blackPlayerId, NoUser},
         room'.whitePlayerId \in {room.whitePlayerId, NoUser}
  PROVE  Stable
<1>1. PICK n \in BoardSizes : n \in Nat /\ room.game \in GameType(n)
  BY BoardSizesAssumption, RoomFields DEF IInv, TypeOK, IsRoom
<1>2. MoveCount(room.game) \in Nat  BY <1>1 DEF MoveCount, GameType
<1> QED  BY <1>2 DEF Stable

LEMMA MovesStable ==
  ASSUME IInv, NEW u \in Users, NEW c \in Cells(room.game.boardSize), Moves(u, c)
  PROVE  Stable
<1> DEFINE color == ColorOf(room, u)
           g == room.game
<1>1. PICK n \in BoardSizes :
        /\ n \in Nat
        /\ room \in RoomType(n)
        /\ c \in Cells(n) /\ color \in Stone
        /\ g.board[c] = "EMPTY"
        /\ room'.game = MakeMove(g, c, color)
        /\ room'.blackPlayerId = room.blackPlayerId
        /\ room'.whitePlayerId = room.whitePlayerId
  BY MovesFacts
<1> HIDE DEF color
<1>2. g \in GameType(n) /\ g.boardSize = n  BY <1>1, RoomFields
<1>3. /\ room'.game.board = [g.board EXCEPT ![c] = color]
      /\ room'.game.moveHistory = Append(g.moveHistory, c)
  BY <1>1, <1>2, MoveType
<1>4. g.board \in [Cells(n) -> Piece] /\ g.moveHistory \in Seq(Cells(n))
  BY <1>2 DEF GameType
<1>5. \A e \in Cells(n) : g.board[e] # "EMPTY" => room'.game.board[e] = g.board[e]
  BY <1>1, <1>3, <1>4
<1>6. MoveCount(room'.game) <= MoveCount(g) + 1
  BY <1>1, <1>3, <1>4 DEF MoveCount
<1> QED  BY <1>1, <1>2, <1>5, <1>6 DEF Stable

\* A call that ends the game without a stone leaves the board as it is.
LEMMA EndFacts ==
  ASSUME IInv, NEW u \in Users, EndGameOk(room, u), room' = EndGame(room)
  PROVE  /\ room'.status = "End" /\ room'.game = room.game
         /\ Plays(room, u) /\ Lineless(room'.game)
<1>1. PICK n \in BoardSizes : room \in RoomType(n)  BY DEF IInv, TypeOK, IsRoom
<1>2. room'.status = "End" /\ room'.game = room.game
  BY <1>1 DEF EndGame, RoomType
<1>3. Lineless(room.game)
  BY LinelessBeforeEnd DEF IInv, EndGameOk, Playing
<1> QED  BY <1>2, <1>3 DEF EndGameOk

\* While a game is played the room changes seats only to vacate them, and the
\* board only by Room::MakeMove, which places one stone on an empty cell.
THEOREM RoomGameIsStable == Spec => GameIsStable
<1>1. IInv /\ [Next]_vars => Stable
  <2> SUFFICES ASSUME IInv, [Next]_vars PROVE Stable  OBVIOUS
  <2>1. CASE UNCHANGED room  BY <2>1, SameGameIsStable
  <2>2. ASSUME NEW u \in Users, Joins(u) PROVE Stable
    BY <2>2, JoinsSameMatch, SameGameIsStable DEF SameMatch
  <2>3. ASSUME NEW u \in Users, Leaves(u) PROVE Stable
    BY <2>3, LeavesFacts, SameGameIsStable
  <2>4. CASE ~Playing(room) \/ ~Playing(room')  BY <2>4 DEF Stable
  <2>5. ASSUME NEW u \in Users, NEW size \in BoardSizes, EditsSetting(u, size)
        PROVE  Stable
    BY <2>4, <2>5 DEF EditsSetting, EditRoomSettingOk
  <2>6. ASSUME NEW u \in Users, NEW black, NEW white, AsksSeat(u, black, white)
        PROVE  Stable
    BY <2>4, <2>6 DEF AsksSeat, SyncSeatOk
  <2>7. ASSUME NEW u \in Users, Starts(u) PROVE Stable
    BY <2>4, <2>7 DEF Starts, StartGameOk
  <2>8. ASSUME NEW u \in Users, NEW c, Moves(u, c) PROVE Stable
    BY <2>8, MovesStable DEF Moves, MakeMoveOk, CanMove
  <2>9. ASSUME NEW u \in Users, Draws(u) \/ GivesUp(u) PROVE Stable
    BY <2>4, <2>9, EndFacts DEF Draws, GivesUp, Playing
  <2> QED
    BY <2>1, <2>2, <2>3, <2>5, <2>6, <2>7, <2>8, <2>9 DEF Next, vars, EditsNothing
<1> QED  BY <1>1, RoomIInv, PTL DEF Spec, GameIsStable, Stable

\* What one call publishes of the end of a game.
EndSaid ==
  /\ \A i, j \in Ends' : i = j
  /\ Ends' # {} => Playing(room) /\ ~Playing(room')
  /\ Playing(room) /\ ~Playing(room') =>
       IF \E color \in Stone : HasLine(room'.game, color)
       THEN \E w \in Users :
              /\ Plays(room, w)
              /\ HasLine(room'.game, ColorOf(room, w))
              /\ InOrder(published', PiecePlaced(w, room'.game.lastMove), GameEnded(w))
       ELSE \E u \in Users :
              /\ Plays(room, u)
              /\ \/ DrawRequested(u) \in ToSet(published') /\ Ends' = {}
                 \/ InOrder(published', GiveUpRequested(u), GameEnded(OpponentOf(room, u)))
                 \/ /\ GiveUpRequested(u) \in ToSet(published') /\ Ends' = {}
                    /\ OpponentOf(room, u) = NoUser

\* A call that ends no game and publishes no end says nothing wrong.
LEMMA QuietSaid ==
  ASSUME Ends' = {}, ~Playing(room) \/ Playing(room')
  PROVE  EndSaid
BY DEF EndSaid

\* Which events are no GameEnded.
Other(e) == e[1] # "GameEnded"

LEMMA OtherEvents ==
  ASSUME NEW u \in Users, NEW c, NEW r
  PROVE  /\ Other(PlayerJoined(u)) /\ Other(PlayerLeft(u)) /\ Other(RoomListUpdated)
         /\ Other(SyncSeatEvent(r)) /\ Other(GameStarted) /\ Other(RoomStatusChanged(u))
         /\ Other(PiecePlaced(u, c)) /\ Other(GiveUpRequested(u)) /\ Other(DrawRequested(u))
BY DEF Other, PlayerJoined, PlayerLeft, RoomListUpdated, SyncSeatEvent, GameStarted,
       RoomStatusChanged, PiecePlaced, GiveUpRequested, DrawRequested

LEMMA NoEnds ==
  ASSUME \A i \in DOMAIN published' : Other(published'[i])
  PROVE  Ends' = {}
BY DEF Ends, Other

LEMMA JoinsQuiet ==
  ASSUME NEW u \in Users, Joins(u)
  PROVE  Ends' = {}
<1>1. published' = <<PlayerJoined(u), RoomListUpdated>>
  BY DEF Joins, AddPlayerEvents
<1>2. \A i \in DOMAIN published' : Other(published'[i])  BY <1>1, OtherEvents
<1> QED  BY <1>2, NoEnds

LEMMA LeavesQuiet ==
  ASSUME NEW u \in Users, Leaves(u)
  PROVE  Ends' = {}
<1> DEFINE seat == SyncSeatEvent(RemovePlayer(room, u))
           first == IF Plays(room, u) THEN <<seat>> ELSE <<>>
           last == <<PlayerLeft(u), RoomListUpdated>>
           S == {seat, PlayerLeft(u), RoomListUpdated}
<1>1. published' = first \o last  BY DEF Leaves, RemovePlayerEvents
<1>2. \A e \in S : Other(e)  BY OtherEvents
<1>3. <<seat>> \in Seq(S) /\ <<>> \in Seq(S) /\ last \in Seq(S)  OBVIOUS
<1>4. first \in Seq(S)  BY <1>3
<1> HIDE DEF first, last, S
<1>5. first \o last \in Seq(S)  BY <1>3, <1>4, ConcatProperties
<1>6. \A i \in DOMAIN published' : published'[i] \in S
  BY <1>1, <1>5, ElementOfSeq
<1> QED  BY <1>2, <1>6, NoEnds

LEMMA EditsQuiet ==
  ASSUME NEW u \in Users, published' = EditRoomSettingEvents(u)
  PROVE  Ends' = {}
<1>1. published' = <<RoomStatusChanged(u), RoomListUpdated>>
  BY DEF EditRoomSettingEvents
<1>2. \A i \in DOMAIN published' : Other(published'[i])  BY <1>1, OtherEvents
<1> QED  BY <1>2, NoEnds

LEMMA AsksSeatQuiet ==
  ASSUME NEW u \in Users, NEW black, NEW white, AsksSeat(u, black, white)
  PROVE  Ends' = {}
<1>1. published' = <<SyncSeatEvent(SyncSeat(room, u, black, white))>>
  BY DEF AsksSeat, SyncSeatEvents
<1>2. \A i \in DOMAIN published' : Other(published'[i])  BY <1>1, OtherEvents
<1> QED  BY <1>2, NoEnds

LEMMA StartsQuiet ==
  ASSUME NEW u \in Users, Starts(u)
  PROVE  Ends' = {}
<1>1. published' = <<GameStarted, RoomStatusChanged(u), RoomListUpdated>>
  BY DEF Starts, StartGameEvents
<1>2. \A i \in DOMAIN published' : Other(published'[i])  BY <1>1, OtherEvents
<1> QED  BY <1>2, NoEnds

\* A move publishes the stone and, if it wins, after it the end.
LEMMA MovesSaid ==
  ASSUME IInv, NEW u \in Users, NEW c \in Cells(room.game.boardSize), Moves(u, c)
  PROVE  EndSaid
<1> DEFINE color == ColorOf(room, u)
<1>1. PICK n \in BoardSizes :
        /\ n \in Nat
        /\ room \in RoomType(n)
        /\ color \in Stone /\ Plays(room, u) /\ Playing(room)
        /\ room'.game = MakeMove(room.game, c, color)
        /\ room'.status = IF HasLine(room'.game, color) THEN "End" ELSE "Playing"
        /\ WinsBy(room, u, c) <=> HasLine(room'.game, color)
  BY MovesFacts
<1>2. CASE ~HasLine(room'.game, color)
  <2>1. published' = <<PiecePlaced(u, c)>> \o <<>>
    BY <1>1, <1>2 DEF Moves, MakeMoveEvents
  <2>2. <<PiecePlaced(u, c)>> \in Seq({PiecePlaced(u, c)})  OBVIOUS
  <2>3. published' = <<PiecePlaced(u, c)>>  BY <2>1, <2>2, ConcatEmptySeq
  <2>4. \A i \in DOMAIN published' : Other(published'[i])  BY <2>3, OtherEvents
  <2>5. Playing(room')  BY <1>1, <1>2 DEF Playing
  <2> QED  BY <2>4, <2>5, NoEnds, QuietSaid
<1>3. CASE HasLine(room'.game, color)
  <2>1. published' = <<PiecePlaced(u, c)>> \o <<GameEnded(u)>>
    BY <1>1, <1>3 DEF Moves, MakeMoveEvents
  <2>2. published' = <<PiecePlaced(u, c), GameEnded(u)>>  BY <2>1, TwoEvents
  <2>3. Ends' = {2}
    BY <2>2, OtherEvents DEF Ends, Other, GameEnded
  <2>4. room'.game.lastMove = c
    <3>1. room.game \in GameType(n)  BY <1>1, RoomFields
    <3> QED  BY <1>1, <3>1 DEF MakeMove, GameType
  <2>5. InOrder(published', PiecePlaced(u, room'.game.lastMove), GameEnded(u))
    BY <2>2, <2>4 DEF InOrder
  <2>6. ~Playing(room')  BY <1>1, <1>3 DEF Playing
  <2> HIDE DEF color
  <2> QED  BY <1>1, <1>3, <2>3, <2>5, <2>6 DEF EndSaid, color
<1> QED  BY <1>2, <1>3

LEMMA DrawsSaid ==
  ASSUME IInv, NEW u \in Users, Draws(u)
  PROVE  EndSaid
<1>1. Lineless(room'.game) /\ Plays(room, u)  BY EndFacts DEF Draws
<1>2. published' = <<DrawRequested(u), RoomStatusChanged(u)>>
  BY DEF Draws, DrawEvents
<1>3. \A i \in DOMAIN published' : Other(published'[i])  BY <1>2, OtherEvents
<1>4. Ends' = {}  BY <1>3, NoEnds
<1>5. DrawRequested(u) \in ToSet(published')  BY <1>2 DEF ToSet
<1> QED  BY <1>1, <1>4, <1>5 DEF EndSaid, Lineless

\* Giving up publishes the resignation and after it the winner, if there is one.
LEMMA GivesUpSaid ==
  ASSUME IInv, NEW u \in Users, GivesUp(u)
  PROVE  EndSaid
<1> DEFINE o == OpponentOf(room, u)
<1>1. /\ Lineless(room'.game) /\ Plays(room, u)
      /\ room'.status = "End" /\ Playing(room)
  BY EndFacts DEF GivesUp, EndGameOk
<1>2. CASE o # NoUser
  <2>1. published' = <<GiveUpRequested(u)>> \o <<GameEnded(o)>> \o <<RoomStatusChanged(u)>>
    BY <1>2 DEF GivesUp, GiveUpEvents
  <2>2. published' = <<GiveUpRequested(u), GameEnded(o), RoomStatusChanged(u)>>
    BY <2>1, ThreeEvents
  <2> HIDE DEF o
  <2>3. Ends' = {2}
    BY <2>2, OtherEvents DEF Ends, Other, GameEnded
  <2>4. InOrder(published', GiveUpRequested(u), GameEnded(o))
    BY <2>2 DEF InOrder
  <2> QED  BY <1>1, <2>3, <2>4 DEF EndSaid, Lineless, Playing, o
<1>3. CASE o = NoUser
  <2>1. published' = <<GiveUpRequested(u)>> \o <<>> \o <<RoomStatusChanged(u)>>
    BY <1>3 DEF GivesUp, GiveUpEvents
  <2>2. published' = <<GiveUpRequested(u), RoomStatusChanged(u)>>
    BY <2>1, NoEventBetween
  <2>3. \A i \in DOMAIN published' : Other(published'[i])  BY <2>2, OtherEvents
  <2>4. Ends' = {}  BY <2>3, NoEnds
  <2>5. GiveUpRequested(u) \in ToSet(published')  BY <2>2 DEF ToSet
  <2> QED  BY <1>1, <1>3, <2>4, <2>5 DEF EndSaid, Lineless, Playing
<1> QED  BY <1>2, <1>3

\* The end of a game is published at most once, by the call that ends it and
\* after its cause, and names the right winner: MakeMove the player of the line,
\* GiveUp the opponent if there is one left, and Draw nobody.
THEOREM RoomEndAnnounced == Spec => EndAnnounced
<1>1. IInv /\ [Next]_vars => EndSaid \/ UNCHANGED vars
  <2> SUFFICES ASSUME IInv, [Next]_vars PROVE EndSaid \/ UNCHANGED vars  OBVIOUS
  <2>1. ASSUME Ends' = {}, room'.status = room.status \/ ~Playing(room)
        PROVE  EndSaid
    BY <2>1, QuietSaid DEF Playing
  <2>2. ASSUME NEW u \in Users, Joins(u) PROVE EndSaid
    BY <2>1, <2>2, JoinsQuiet, JoinsSameMatch DEF SameMatch
  <2>3. ASSUME NEW u \in Users, Leaves(u) PROVE EndSaid
    BY <2>1, <2>3, LeavesQuiet, LeavesFacts
  <2>4. ASSUME NEW u \in Users, NEW size \in BoardSizes, EditsSetting(u, size)
        PROVE  EndSaid
    BY <2>1, <2>4, EditsQuiet DEF EditsSetting, EditRoomSettingOk
  <2>5. ASSUME NEW u \in Users, EditsNothing(u) PROVE EndSaid
    BY <2>1, <2>5, EditsQuiet DEF EditsNothing
  <2>6. ASSUME NEW u \in Users, NEW black, NEW white, AsksSeat(u, black, white)
        PROVE  EndSaid
    BY <2>1, <2>6, AsksSeatQuiet DEF AsksSeat, SyncSeatOk
  <2>7. ASSUME NEW u \in Users, Starts(u) PROVE EndSaid
    BY <2>1, <2>7, StartsQuiet DEF Starts, StartGameOk
  <2>8. ASSUME NEW u \in Users, NEW c, Moves(u, c) PROVE EndSaid
    BY <2>8, MovesSaid DEF Moves, MakeMoveOk, CanMove
  <2>9. ASSUME NEW u \in Users, Draws(u) \/ GivesUp(u) PROVE EndSaid
    BY <2>9, DrawsSaid, GivesUpSaid
  <2> QED  BY <2>2, <2>3, <2>4, <2>5, <2>6, <2>7, <2>8, <2>9 DEF Next
<1> QED  BY <1>1, RoomIInv, PTL DEF Spec, EndAnnounced, EndSaid

=============================================================================
