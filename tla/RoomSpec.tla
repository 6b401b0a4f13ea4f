------------------------------ MODULE RoomSpec ------------------------------
(***************************************************************************)
(* One room and its users, who call every public operation of class Room   *)
(* in any order.  Each call runs to the end before the next: the server    *)
(* handles packets one at a time on its receive thread.  Refused calls     *)
(* change nothing but the error text and are not steps.                    *)
(***************************************************************************)
EXTENDS Room

CONSTANTS DefaultSize,   \* the size of the first board: 15 in the code
          BoardSizes     \* the sizes the settings can ask for

ASSUME BoardSizesAssumption ==
  DefaultSize \in BoardSizes /\ BoardSizes \subseteq Nat

VARIABLES room,
          published      \* what the last call published, in order

vars == <<room, published>>

Init ==
  /\ room = NewRoom(DefaultSize)
  /\ published = <<>>

Joins(u) ==
  /\ AddPlayerOk(room, u)
  /\ room' = AddPlayer(room, u)
  /\ published' = AddPlayerEvents(u)

\* Part of the class, though no handler calls it yet.
Leaves(u) ==
  /\ RemovePlayerOk(room, u)
  /\ room' = RemovePlayer(room, u)
  /\ published' = RemovePlayerEvents(room, u)

EditsSetting(u, size) ==
  /\ EditRoomSettingOk(room, u)
  /\ room' = EditRoomSetting(room, size)
  /\ published' = EditRoomSettingEvents(u)

\* Settings without a usable board size are accepted and change nothing.
EditsNothing(u) ==
  /\ EditRoomSettingOk(room, u)
  /\ published' = EditRoomSettingEvents(u)
  /\ UNCHANGED room

AsksSeat(u, black, white) ==
  /\ SyncSeatOk(room, u, black, white)
  /\ room' = SyncSeat(room, u, black, white)
  /\ published' = SyncSeatEvents(room, u, black, white)

\* Any user may start the game, seated or not, in the room or not.
Starts(u) ==
  /\ StartGameOk(room)
  /\ room' = StartGame(room)
  /\ published' = StartGameEvents(u)

Moves(u, c) ==
  /\ MakeMoveOk(room, u, c)
  /\ room' = MakeMoveInRoom(room, u, c)
  /\ published' = MakeMoveEvents(room, u, c)

Draws(u) ==
  /\ EndGameOk(room, u)
  /\ room' = EndGame(room)
  /\ published' = DrawEvents(u)

GivesUp(u) ==
  /\ EndGameOk(room, u)
  /\ room' = EndGame(room)
  /\ published' = GiveUpEvents(room, u)

Next ==
  \E u \in Users :
    \/ Joins(u)
    \/ Leaves(u)
    \/ \E size \in BoardSizes : EditsSetting(u, size)
    \/ EditsNothing(u)
    \/ \E black, white \in Users \cup {NoUser} : AsksSeat(u, black, white)
    \/ Starts(u)
    \/ \E c \in Targets(room.game.boardSize) : Moves(u, c)
    \/ Draws(u)
    \/ GivesUp(u)

Spec == Init /\ [][Next]_vars

-----------------------------------------------------------------------------
\* Every field of the room keeps its type.
TypeOK == IsRoom(room, BoardSizes)

\* Nobody is in the room twice, it never holds more than MaxPlayers, and its
\* owner is the player who has been there longest: AddPlayer, RemovePlayer and
\* the hand-over of the ownership agree.
MembershipOK ==
  /\ \A i, j \in DOMAIN room.playerIds : room.playerIds[i] = room.playerIds[j] => i = j
  /\ Len(room.playerIds) <= MaxPlayers
  /\ room.ownerId = IF room.playerIds = <<>> THEN NoUser ELSE room.playerIds[1]

\* Whoever has a seat is in the room, and nobody has both: SyncSeat and
\* RemovePlayer release a seat exactly when they must.
SeatsOK ==
  /\ {room.blackPlayerId, room.whitePlayerId} \subseteq ToSet(room.playerIds) \cup {NoUser}
  /\ room.blackPlayerId = room.whitePlayerId => room.blackPlayerId = NoUser

\* While a game is being played nobody has a line: MakeMove looks only at the
\* last stone, and StartGame and the settings bring an empty board.
NoLineWhilePlaying ==
  Playing(room) => \A color \in Stone : ~HasLine(room.game, color)

\* A finished game with a line on the board was won by its last stone.
LastStoneWon ==
  \A color \in Stone :
    HasLine(room.game, color) =>
      /\ room.status = "End"
      /\ LineThrough(room.game, room.game.lastMove, color)

\* During a game nobody takes over a seat, and the stones stay where they are:
\* each step adds at most one stone to an empty cell.
GameIsStable ==
  [][Playing(room) /\ Playing(room') =>
       /\ room'.blackPlayerId \in {room.blackPlayerId, NoUser}
       /\ room'.whitePlayerId \in {room.whitePlayerId, NoUser}
       /\ \A c \in Cells(room.game.boardSize) :
            room.game.board[c] # "EMPTY" => room'.game.board[c] = room.game.board[c]
       /\ MoveCount(room'.game) <= MoveCount(room.game) + 1]_vars

\* Where the last call published the end of a game.
Ends == {i \in DOMAIN published : published[i][1] = "GameEnded"}

\* Event e is published, and f after it.
InOrder(events, e, f) ==
  \E i, j \in DOMAIN events : i < j /\ events[i] = e /\ events[j] = f

\* GameEnded is published at most once, and only by a call that ends a game.
\* The winner named is the player whose line is on the board, after the stone
\* that made it, or the opponent of who gave up, after the resignation.  If the
\* opponent has left nobody is named; and an end by a request for a draw is
\* never published as an end: there is only the request (game/Room.cpp:289).
EndAnnounced ==
  [][ /\ \A i, j \in Ends' : i = j
      /\ Ends' # {} => Playing(room) /\ ~Playing(room')
      /\ Playing(room) /\ ~Playing(room') =>
           IF \E color \in Stone : HasLine(room'.game, color)
           THEN \E w \in Users :
                  /\ Plays(room, w)
                  /\ HasLine(room'.game, ColorOf(room, w))
                  /\ InOrder(published', PiecePlaced(w, room'.game.lastMove), GameEnded(w))
           ELSE \E u \in Users :
                  /\ Plays(room, u)
                  /\ \/ DrawRequested(u) \in ToSet(published') /\ Ends' = {}
                     \/ InOrder(published', GiveUpRequested(u), GameEnded(OpponentOf(room, u)))
                     \/ /\ GiveUpRequested(u) \in ToSet(published') /\ Ends' = {}
                        /\ OpponentOf(room, u) = NoUser
    ]_vars

\* The room implements the abstract match: its status and seats are the
\* match's, and the position is the board of its game.
AbstractMatch ==
  INSTANCE Match WITH
    Players  <- Users,
    NoPlayer <- NoUser,
    Sizes    <- BoardSizes,
    phase    <- room.status,
    black    <- room.blackPlayerId,
    white    <- room.whitePlayerId,
    position <- [boardSize |-> room.game.boardSize, board |-> room.game.board]

ImplementsMatch == AbstractMatch!Spec

=============================================================================
