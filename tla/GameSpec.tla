------------------------------ MODULE GameSpec ------------------------------
(***************************************************************************)
(* One Game object driven through its public interface by a caller that    *)
(* respects nothing: any colour may move at any time, moves may be undone, *)
(* the board may be reset.  This is what Room, the tests and a future      *)
(* take-back feature rely on.                                              *)
(***************************************************************************)
EXTENDS Game

CONSTANTS BoardSizes,   \* the board sizes a game can be created with
          MaxMoves      \* bound on the length of the move history

ASSUME BoardSizesAssumption == BoardSizes \subseteq Nat
ASSUME MaxMovesAssumption == MaxMoves \in Nat

VARIABLE game

Init == \E n \in BoardSizes : game = NewGame(n)

Move(c, color) ==
  /\ MoveCount(game) < MaxMoves
  /\ CanMove(game, c)
  /\ game' = MakeMove(game, c, color)

Undo ==
  /\ CanUndo(game)
  /\ game' = UndoMove(game)

Restart == game' = Reset(game)

Next ==
  \/ \E c \in Targets(game.boardSize), color \in Stone : Move(c, color)
  \/ Undo
  \/ Restart

Spec == Init /\ [][Next]_game

-----------------------------------------------------------------------------
\* Every field keeps its type: the board covers exactly the cells of its size.
TypeOK == IsGame(game, BoardSizes)

\* The stack of moves and the board tell the same story: every move in the
\* history is a stone on the board, every stone was moved, no cell was moved to
\* twice, and lastMove is the top of the stack.  makeMove and undoMove update
\* the three fields separately.
HistoryMatchesBoard ==
  LET h == game.moveHistory
  IN  /\ \A c \in Cells(game.boardSize) :
            game.board[c] # "EMPTY" <=> \E i \in DOMAIN h : h[i] = c
      /\ \A i, j \in DOMAIN h : h[i] = h[j] => i = j
      /\ game.lastMove = IF h = <<>> THEN NoMove ELSE h[Len(h)]

\* Undoing a move gives back the game as it was before the move, whatever the
\* position: board, history and lastMove (the take-back of game/Game.cpp:90).
UndoRestores ==
  \A c \in Cells(game.boardSize), color \in Stone :
    CanMove(game, c) => UndoMove(MakeMove(game, c, color)) = game

\* checkWin(x, y) walks outwards from one stone; it must answer exactly
\* whether that stone is part of a line of WinLength or more, wherever the
\* stone sits in the line and wherever the line meets the edge.
CheckWinIsLineThrough ==
  \A c \in Cells(game.boardSize) :
    game.board[c] # "EMPTY" =>
      (CheckWin(game, c) = game.board[c] <=> LineThrough(game, c, game.board[c]))

\* checkWin() finds a winner exactly when some colour has a line, and the
\* colour it reports is one that has a line.
CheckWinAnywhereIsRule ==
  IF \E color \in Stone : HasLine(game, color)
  THEN HasLine(game, CheckWinAnywhere(game))
  ELSE CheckWinAnywhere(game) = "EMPTY"

=============================================================================
