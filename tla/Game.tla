-------------------------------- MODULE Game --------------------------------
(***************************************************************************)
(* The rules engine of the server: class Game (game/Game.cpp) as operators *)
(* on a record that holds the fields of one Game object.  A game keeps the *)
(* board, the stack of moves and the last move; it knows nothing of        *)
(* players or turns, those are the business of Room.                       *)
(*                                                                         *)
(* The winning length is the literal 5 of Game::checkWin; it is a constant *)
(* here so that small boards have interesting lines.  Every operation that *)
(* may be refused is a guard (CanMove, CanUndo: the "return false" paths   *)
(* of the code) and a result (MakeMove, UndoMove).                         *)
(***************************************************************************)
EXTENDS Integers, FiniteSets, Sequences

CONSTANT WinLength      \* stones in a row that win: 5 in the code

ASSUME WinLengthAssumption == WinLength \in Nat \ {0}

-----------------------------------------------------------------------------
(* Pieces, cells and directions. *)

Stone == {"BLACK", "WHITE"}
Piece == Stone \cup {"EMPTY"}

Cells(n) == (0 .. n - 1) \X (0 .. n - 1)

\* What callers may name as a cell: the board and a margin around it.
Targets(n) == (-1 .. n) \X (-1 .. n)

NoMove == <<-1, -1>>

\* Down, right and the two diagonals.
Directions == {<<1, 0>>, <<0, 1>>, <<1, 1>>, <<1, -1>>}

Opposite(d) == <<-d[1], -d[2]>>

\* The cell k steps from c in direction d, possibly outside the board.
Shift(c, d, k) == <<c[1] + k * d[1], c[2] + k * d[2]>>

\* The fields of a Game object over an n x n board.
GameType(n) ==
  [boardSize   : {n},
   board       : [Cells(n) -> Piece],
   moveHistory : Seq(Cells(n)),
   lastMove    : Cells(n) \cup {NoMove}]

IsGame(g, sizes) == \E n \in sizes : g \in GameType(n)

-----------------------------------------------------------------------------
(* The operations. *)

NewGame(n) ==
  [boardSize   |-> n,
   board       |-> [c \in Cells(n) |-> "EMPTY"],
   moveHistory |-> <<>>,
   lastMove    |-> NoMove]

Reset(g) == NewGame(g.boardSize)

CanMove(g, c) == c \in Cells(g.boardSize) /\ g.board[c] = "EMPTY"

\* Mutant of MakeMove: lastMove is not updated.
MakeMoveKeepsLast(g, c, color) ==
  [g EXCEPT !.board[c] = color, !.moveHistory = Append(@, c)]

MakeMove(g, c, color) ==
  [boardSize   |-> g.boardSize,
   board       |-> [g.board EXCEPT ![c] = color],
   moveHistory |-> Append(g.moveHistory, c),
   lastMove    |-> c]

CanUndo(g) == g.moveHistory # <<>>

UndoMove(g) ==
  LET n    == Len(g.moveHistory)
      rest == SubSeq(g.moveHistory, 1, n - 1)
  IN  [boardSize   |-> g.boardSize,
       board       |-> [g.board EXCEPT ![g.moveHistory[n]] = "EMPTY"],
       moveHistory |-> rest,
       lastMove    |-> IF n = 1 THEN NoMove ELSE rest[n - 1]]

IsBoardFull(g) == \A c \in Cells(g.boardSize) : g.board[c] # "EMPTY"

MoveCount(g) == Len(g.moveHistory)

-----------------------------------------------------------------------------
(* Winning.  countLine walks from a cell until the board ends or the colour *)
(* changes: it counts the steps k such that all of steps 1..k are on the    *)
(* board and of the colour.                                                 *)

HasColor(g, c, color) == c \in Cells(g.boardSize) /\ g.board[c] = color

CountLine(g, c, d, color) ==
  Cardinality({k \in 1 .. g.boardSize :
                 \A i \in 1 .. k : HasColor(g, Shift(c, d, i), color)})

\* Mutant of CheckWin: the walk goes one way only.
CheckWinOneWay(g, c) ==
  IF g.board[c] # "EMPTY"
     /\ \E d \in Directions : CountLine(g, c, d, g.board[c]) + 1 >= WinLength
  THEN g.board[c]
  ELSE "EMPTY"

\* Game::checkWin(x, y): is the stone on c part of a winning line?
CheckWin(g, c) ==
  LET color == g.board[c]
  IN  IF /\ color # "EMPTY"
         /\ \E d \in Directions :
              CountLine(g, c, d, color) + CountLine(g, c, Opposite(d), color) + 1
                >= WinLength
      THEN color
      ELSE "EMPTY"

\* Mutant of CheckWinAnywhere: the last row is not scanned.
CheckWinAnywhereSkipsRow(g) ==
  LET winning == {c \in Cells(g.boardSize - 1) : CheckWin(g, c) # "EMPTY"}
  IN  IF winning = {} THEN "EMPTY" ELSE CheckWin(g, CHOOSE c \in winning : TRUE)

\* Game::checkWin(): the first winner a row-by-row scan of the board meets.
CheckWinAnywhere(g) ==
  LET winning      == {c \in Cells(g.boardSize) : CheckWin(g, c) # "EMPTY"}
      Before(c, e) == c[1] < e[1] \/ (c[1] = e[1] /\ c[2] <= e[2])
  IN  IF winning = {}
      THEN "EMPTY"
      ELSE CheckWin(g, CHOOSE c \in winning : \A e \in winning : Before(c, e))

-----------------------------------------------------------------------------
(* The rule of the game, stated without the walk of the code: WinLength     *)
(* stones of one colour next to each other in one of the four directions.   *)
(* The properties compare the code with this definition.                    *)

LineFrom(g, s, d, color) ==
  \A i \in 0 .. WinLength - 1 : HasColor(g, Shift(s, d, i), color)

HasLine(g, color) ==
  \E s \in Cells(g.boardSize), d \in Directions : LineFrom(g, s, d, color)

LineThrough(g, c, color) ==
  \E s \in Cells(g.boardSize), d \in Directions :
     LineFrom(g, s, d, color) /\ \E i \in 0 .. WinLength - 1 : c = Shift(s, d, i)

=============================================================================
