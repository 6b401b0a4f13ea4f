------------------------------ MODULE AiPlayer ------------------------------
(***************************************************************************)
(* Class AiPlayer (game/AiPlayer.cpp): minimax with alpha-beta pruning,    *)
(* two moves deep, against a human who may answer anything.  No handler    *)
(* creates one yet.                                                        *)
(*                                                                         *)
(* evaluateBoard counts stones only.  What a stone is worth is left open   *)
(* here, per cell and fixed for a game, so that positions differ and the   *)
(* pruning has something to prune; the code has 10 for every cell.         *)
(***************************************************************************)
EXTENDS Integers, Sequences, FiniteSetsExt

CONSTANTS Sizes,     \* the sizes of the board
          Worths(_), \* what a stone may be worth on a board of that size
          MaxDepth   \* the deepest search

INT_MAX == 2147483647
INT_MIN == -INT_MAX - 1

ASSUME SizesAssumption == Sizes \subseteq Nat \ {0}
ASSUME DepthAssumption == MaxDepth \in Nat /\ MaxDepth >= 2
\* The score of a board fits an int.
ASSUME WorthsAssumption ==
  \A n \in Sizes : \A w \in Worths(n) : w \in Int /\ n * n * w \in -INT_MAX .. INT_MAX

VARIABLES boardSize, board, worth, aiColor, toMove

aiVars == <<boardSize, board, worth, aiColor, toMove>>

Squares(n) == (0 .. n - 1) \X (0 .. n - 1)

Opponent(color) == IF color = "BLACK" THEN "WHITE" ELSE "BLACK"

Boards == [Squares(boardSize) -> {"EMPTY", "BLACK", "WHITE"}]

Vacant(b) == {c \in Squares(boardSize) : b[c] = "EMPTY"}

NoCell == <<-1, -1>>

-----------------------------------------------------------------------------
\* Mutant of RowByRow: the scan leaves out the last row.
RowByRowShort(n) == [k \in 1 .. n * n - n |-> <<(k - 1) \div n, (k - 1) % n>>]

RowByRow(n) == [k \in 1 .. n * n |-> <<(k - 1) \div n, (k - 1) % n>>]

\* The empty cells in the order of the scan.
ValidMoves(b) ==
  LET scan == RowByRow(boardSize)
      Moves[k \in 0 .. Len(scan)] ==
        IF k = 0 THEN <<>>
        ELSE IF b[scan[k]] = "EMPTY" THEN Append(Moves[k - 1], scan[k])
        ELSE Moves[k - 1]
  IN  Moves[Len(scan)]

StoneScore(b, c) ==
  CASE b[c] = aiColor           -> worth[c]
    [] b[c] = Opponent(aiColor) -> -worth[c]
    [] b[c] = "EMPTY"           -> 0

EvaluateBoard(b) ==
  LET scan == RowByRow(boardSize)
      Score[k \in 0 .. Len(scan)] ==
        IF k = 0 THEN 0 ELSE Score[k - 1] + StoneScore(b, scan[k])
  IN  Score[Len(scan)]

Greater(a, b) == IF a >= b THEN a ELSE b
Smaller(a, b) == IF a <= b THEN a ELSE b

\* Mutant of CutOff: the comparison is the wrong way round.
CutOffSwapped(alpha, beta) == alpha <= beta

CutOff(alpha, beta) == beta <= alpha

\* What minimax is called with, apart from the depth.
Calls == [board : Boards, isMaximizing : BOOLEAN, alpha : Int, beta : Int]

Call(b, isMaximizing, alpha, beta) ==
  [board |-> b, isMaximizing |-> isMaximizing, alpha |-> alpha, beta |-> beta]

With(b, c, color) == [b EXCEPT ![c] = color]

Mover(isMaximizing) == IF isMaximizing THEN aiColor ELSE Opponent(aiColor)

Unpruned(best, alpha, beta) ==
  [best |-> best, alpha |-> alpha, beta |-> beta, cut |-> FALSE]

\* A move has come to v.
Maximized(t, v) ==
  [best  |-> Greater(t.best, v),
   alpha |-> Greater(t.alpha, v),
   beta  |-> t.beta,
   cut   |-> CutOff(Greater(t.alpha, v), t.beta)]

Minimized(t, v) ==
  [best  |-> Smaller(t.best, v),
   alpha |-> t.alpha,
   beta  |-> Smaller(t.beta, v),
   cut   |-> CutOff(t.alpha, Smaller(t.beta, v))]

\* The body of the loop over the moves; "deeper" is minimax for one move less.
TryMove(call, t, move, deeper) ==
  LET next == With(call.board, move, Mover(call.isMaximizing))
      v    == deeper[Call(next, ~call.isMaximizing, t.alpha, t.beta)]
  IN  IF t.cut THEN t
      ELSE IF call.isMaximizing THEN Maximized(t, v)
      ELSE Minimized(t, v)

\* The loop stops at the first move after which the window is empty; the window
\* it was called with may be empty already.
BestOf(call, deeper) ==
  LET moves == ValidMoves(call.board)
      worst == IF call.isMaximizing THEN INT_MIN ELSE INT_MAX
      After[k \in 0 .. Len(moves)] ==
        IF k = 0 THEN Unpruned(worst, call.alpha, call.beta)
        ELSE TryMove(call, After[k - 1], moves[k], deeper)
  IN  After[Len(moves)].best

Search[depth \in 0 .. MaxDepth] ==
  [call \in Calls |->
     IF depth = 0 \/ ValidMoves(call.board) = <<>> THEN EvaluateBoard(call.board)
     ELSE BestOf(call, Search[depth - 1])]

MiniMax(b, depth, isMaximizing, alpha, beta) ==
  Search[depth][Call(b, isMaximizing, alpha, beta)]

\* The centre of an empty board, or the first of the best moves; after the move
\* two more are looked at.
GetNextMove(b) ==
  LET moves    == ValidMoves(b)
      Score(m) == MiniMax(With(b, m, aiColor), 2, FALSE, INT_MIN, INT_MAX)
      Better(t, m) == LET v == Score(m)
                      IN  IF v > t.score THEN [score |-> v, move |-> m] ELSE t
      Chosen[k \in 0 .. Len(moves)] ==
        IF k = 0 THEN [score |-> INT_MIN, move |-> moves[1]]
        ELSE Better(Chosen[k - 1], moves[k])
  IN  IF Vacant(b) = Squares(boardSize) THEN <<boardSize \div 2, boardSize \div 2>>
      ELSE IF moves = <<>> THEN NoCell
      ELSE Chosen[Len(moves)].move

-----------------------------------------------------------------------------
AiInit ==
  /\ boardSize \in Sizes
  /\ board = [c \in Squares(boardSize) |-> "EMPTY"]
  /\ worth \in [Squares(boardSize) -> Worths(boardSize)]
  /\ aiColor \in {"BLACK", "WHITE"}
  /\ toMove \in {"BLACK", "WHITE"}

PlaceStone(c) ==
  /\ board' = With(board, c, toMove)
  /\ toMove' = Opponent(toMove)
  /\ UNCHANGED <<boardSize, worth, aiColor>>

Full == Vacant(board) = {}

HumanMoves ==
  /\ toMove = Opponent(aiColor)
  /\ \E c \in Vacant(board) : PlaceStone(c)

AiMoves ==
  /\ toMove = aiColor
  /\ ~Full
  /\ PlaceStone(GetNextMove(board))

AiNext == HumanMoves \/ AiMoves

AiSpec == AiInit /\ [][AiNext]_aiVars

-----------------------------------------------------------------------------
\* Minimax without a window: every move is looked at.
Nodes == [board : Boards, isMaximizing : BOOLEAN]

Replies(node) ==
  {[board |-> With(node.board, c, Mover(node.isMaximizing)),
    isMaximizing |-> ~node.isMaximizing] : c \in Vacant(node.board)}

\* The better of the values, for the one who moves.
Extreme(isMaximizing, values) == IF isMaximizing THEN Max(values) ELSE Min(values)

PlainSearch[depth \in 0 .. MaxDepth] ==
  [node \in Nodes |->
     IF depth = 0 \/ Vacant(node.board) = {} THEN EvaluateBoard(node.board)
     ELSE Extreme(node.isMaximizing, {PlainSearch[depth - 1][reply] : reply \in Replies(node)})]

Plain(b, depth, isMaximizing) ==
  PlainSearch[depth][[board |-> b, isMaximizing |-> isMaximizing]]

Bounds == {INT_MIN, INT_MAX} \cup {Plain(board, d, p) : d \in 0 .. MaxDepth, p \in BOOLEAN}

\* What pruning may do: inside the window it was called with the value is the
\* one of plain minimax; outside it, a bound on it from the same side.  With the
\* widest window, as getNextMove calls it, nothing is lost
\* (game/AiPlayer.cpp:78).
PruningIsExact ==
  \A depth \in 0 .. MaxDepth, isMaximizing \in BOOLEAN, alpha \in Bounds, beta \in Bounds :
    alpha < beta =>
      LET value == MiniMax(board, depth, isMaximizing, alpha, beta)
          plain == Plain(board, depth, isMaximizing)
      IN  /\ alpha < value /\ value < beta => value = plain
          /\ value <= alpha => plain <= value
          /\ value >= beta  => plain >= value
          /\ alpha = INT_MIN /\ beta = INT_MAX => value = plain

\* The answer is an empty cell of the board unless there is none, then a cell
\* that Game refuses.  With stones of equal worth every line of play comes to
\* the same, and the answer is the first empty cell of the scan whatever the
\* human threatens (game/AiPlayer.cpp:174): the evaluation announces lines
\* (line 45) and counts stones.
AnswersFirstEmpty ==
  LET move == GetNextMove(board)
  IN  /\ ~Full => move \in Vacant(board)
      /\ Full => move = NoCell
      /\ (\A c, d \in Squares(boardSize) : worth[c] = worth[d])
         /\ Vacant(board) # Squares(boardSize) /\ ~Full =>
           \A c \in Squares(boardSize) :
             c[1] < move[1] \/ (c[1] = move[1] /\ c[2] < move[2]) => board[c] # "EMPTY"

=============================================================================
