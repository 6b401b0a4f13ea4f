----------------------------- MODULE GameProofs -----------------------------
(***************************************************************************)
(* The invariants of GameSpec, for every WinLength, every set of board     *)
(* sizes and games of any length.                                          *)
(***************************************************************************)
EXTENDS GameSpec, GameLemmas

\* The invariant that carries the others.
IInv == TypeOK /\ HistoryMatchesBoard

\* What a well-formed game consists of.
LEMMA GameFields ==
  ASSUME NEW n \in Nat, NEW g \in GameType(n)
  PROVE  /\ g.boardSize = n
         /\ g.board \in [Cells(n) -> Piece]
         /\ g.moveHistory \in Seq(Cells(n))
         /\ g.lastMove \in Cells(n) \cup {NoMove}
         /\ g = [boardSize |-> g.boardSize, board |-> g.board,
                 moveHistory |-> g.moveHistory, lastMove |-> g.lastMove]
BY DEF GameType

\* Undo keeps the game well-formed; this is all it changes.
LEMMA UndoType ==
  ASSUME NEW n \in Nat, NEW g \in GameType(n), CanUndo(g)
  PROVE  LET h == g.moveHistory
             k == Len(h)
             u == UndoMove(g)
         IN  /\ k \in Nat /\ k >= 1 /\ h[k] \in Cells(n)
             /\ u \in GameType(n)
             /\ u.board = [g.board EXCEPT ![h[k]] = "EMPTY"]
             /\ Len(u.moveHistory) = k - 1
             /\ \A i \in 1 .. k - 1 : u.moveHistory[i] = h[i]
             /\ u.lastMove = IF k = 1 THEN NoMove ELSE h[k - 1]
<1> DEFINE h == g.moveHistory
           k == Len(h)
           rest == SubSeq(h, 1, k - 1)
<1>1. h \in Seq(Cells(n)) /\ h # <<>>  BY GameFields DEF CanUndo
<1>2. k \in Nat /\ k >= 1 /\ \A i \in 1 .. k : h[i] \in Cells(n)
  BY <1>1
<1>3. /\ rest \in Seq(Cells(n)) /\ Len(rest) = k - 1
      /\ \A i \in 1 .. k - 1 : rest[i] = h[i]
  BY <1>1, <1>2
<1>4. [g.board EXCEPT ![h[k]] = "EMPTY"] \in [Cells(n) -> Piece]
  BY <1>2, GameFields DEF Piece
<1>5. UndoMove(g) = [boardSize   |-> n,
                     board       |-> [g.board EXCEPT ![h[k]] = "EMPTY"],
                     moveHistory |-> rest,
                     lastMove    |-> IF k = 1 THEN NoMove ELSE rest[k - 1]]
  BY GameFields DEF UndoMove
<1> HIDE DEF h, k, rest
<1>6. (IF k = 1 THEN NoMove ELSE rest[k - 1])
        = (IF k = 1 THEN NoMove ELSE h[k - 1])
  <2>1. CASE k = 1  BY <2>1
  <2>2. CASE k # 1
    <3>1. k - 1 \in 1 .. k - 1  BY <1>2, <2>2
    <3> QED  BY <1>3, <3>1
  <2> QED  BY <2>1, <2>2
<1>7. (IF k = 1 THEN NoMove ELSE h[k - 1]) \in Cells(n) \cup {NoMove}
  <2>1. k # 1 => k - 1 \in 1 .. k  BY <1>2
  <2> QED  BY <1>2, <2>1
<1>8. k \in 1 .. k  BY <1>2
<1> QED  BY <1>2, <1>3, <1>4, <1>5, <1>6, <1>7, <1>8 DEF GameType, h, k

-----------------------------------------------------------------------------
LEMMA InitIInv == Init => IInv
<1> SUFFICES ASSUME NEW n \in BoardSizes, game = NewGame(n)
             PROVE  IInv
  BY DEF Init
<1>1. n \in Nat  BY BoardSizesAssumption
<1>2. TypeOK  BY <1>1, NewGameType DEF TypeOK, IsGame
<1>3. HistoryMatchesBoard  BY DEF HistoryMatchesBoard, NewGame
<1> QED  BY <1>2, <1>3 DEF IInv

LEMMA MoveIInv ==
  ASSUME IInv, NEW c \in Cells(game.boardSize), NEW color \in Stone, Move(c, color)
  PROVE  IInv'
<1>1. PICK n \in BoardSizes : game \in GameType(n)  BY DEF IInv, TypeOK, IsGame
<1>2. n \in Nat  BY BoardSizesAssumption
<1> DEFINE h == game.moveHistory
<1>3. /\ game.boardSize = n /\ game.board \in [Cells(n) -> Piece] /\ h \in Seq(Cells(n))
      /\ c \in Cells(n)
  BY <1>1, <1>2, GameFields
<1>4. /\ game' \in GameType(n)
      /\ game'.boardSize = n
      /\ game'.board = [game.board EXCEPT ![c] = color]
      /\ game'.lastMove = c
      /\ game'.moveHistory = Append(h, c)
  BY <1>1, <1>2, <1>3, MoveType DEF Move
<1>5. game.board[c] = "EMPTY" /\ color # "EMPTY"  BY DEF Move, CanMove, Stone
<1>6. \A i \in DOMAIN h : h[i] # c
  BY <1>3, <1>5 DEF IInv, HistoryMatchesBoard
<1>7. /\ Len(Append(h, c)) = Len(h) + 1
      /\ DOMAIN Append(h, c) = DOMAIN h \cup {Len(h) + 1}
      /\ \A i \in DOMAIN h : Append(h, c)[i] = h[i]
      /\ Append(h, c)[Len(h) + 1] = c
      /\ Append(h, c) # <<>>
      /\ Len(h) + 1 \notin DOMAIN h
  BY <1>3
<1>8. \A e \in Cells(n) :
        game'.board[e] # "EMPTY" <=> \E i \in DOMAIN game'.moveHistory : game'.moveHistory[i] = e
  <2> SUFFICES ASSUME NEW e \in Cells(n)
               PROVE  game'.board[e] # "EMPTY"
                        <=> \E i \in DOMAIN game'.moveHistory : game'.moveHistory[i] = e
    OBVIOUS
  <2>1. CASE e = c
    BY <1>3, <1>4, <1>5, <1>7, <2>1
  <2>2. CASE e # c
    <3>1. game.board[e] # "EMPTY" <=> \E i \in DOMAIN h : h[i] = e
      BY <1>3 DEF IInv, HistoryMatchesBoard
    <3> QED  BY <1>3, <1>4, <1>7, <2>2, <3>1
  <2> QED  BY <2>1, <2>2
<1>9. \A i, j \in DOMAIN game'.moveHistory :
        game'.moveHistory[i] = game'.moveHistory[j] => i = j
  BY <1>4, <1>6, <1>7 DEF IInv, HistoryMatchesBoard
<1>10. game'.lastMove = game'.moveHistory[Len(game'.moveHistory)] /\ game'.moveHistory # <<>>
  BY <1>4, <1>7
<1>11. HistoryMatchesBoard'  BY <1>4, <1>8, <1>9, <1>10 DEF HistoryMatchesBoard
<1>12. TypeOK'  BY <1>4 DEF TypeOK, IsGame
<1> QED  BY <1>11, <1>12 DEF IInv

LEMMA UndoIInv ==
  ASSUME IInv, Undo
  PROVE  IInv'
<1>1. PICK n \in BoardSizes : game \in GameType(n)  BY DEF IInv, TypeOK, IsGame
<1>2. n \in Nat  BY BoardSizesAssumption
<1> DEFINE h == game.moveHistory
           k == Len(h)
<1>3. /\ game.boardSize = n /\ game.board \in [Cells(n) -> Piece] /\ h \in Seq(Cells(n))
      /\ k \in Nat /\ DOMAIN h = 1 .. k
  BY <1>1, <1>2, GameFields
<1>4. /\ k >= 1 /\ h[k] \in Cells(n)
      /\ game' \in GameType(n)
      /\ game'.board = [game.board EXCEPT ![h[k]] = "EMPTY"]
      /\ Len(game'.moveHistory) = k - 1
      /\ \A i \in 1 .. k - 1 : game'.moveHistory[i] = h[i]
      /\ game'.lastMove = IF k = 1 THEN NoMove ELSE h[k - 1]
  <2>1. CanUndo(game) /\ game' = UndoMove(game)  BY DEF Undo
  <2> QED  BY <1>1, <1>2, <2>1, UndoType
<1>5. game'.boardSize = n /\ game'.moveHistory \in Seq(Cells(n))
  BY <1>2, <1>4, GameFields
<1> DEFINE h2 == game'.moveHistory
<1>6. DOMAIN h2 = 1 .. k - 1 /\ (h2 = <<>> <=> k = 1)
  <2> HIDE DEF h2, k
  <2>1. h2 \in Seq(Cells(n)) /\ Len(h2) = k - 1 /\ k \in Nat /\ k >= 1
    BY <1>3, <1>4, <1>5 DEF h2
  <2> QED  BY <2>1
<1>7. \A i, j \in 1 .. k : h[i] = h[j] => i = j
  BY <1>3 DEF IInv, HistoryMatchesBoard
<1> HIDE DEF h, h2, k
<1>8. \A e \in Cells(n) : game'.board[e] # "EMPTY" <=> \E i \in DOMAIN h2 : h2[i] = e
  <2> SUFFICES ASSUME NEW e \in Cells(n)
               PROVE  game'.board[e] # "EMPTY" <=> \E i \in DOMAIN h2 : h2[i] = e
    OBVIOUS
  <2>1. game.board[e] # "EMPTY" <=> \E i \in 1 .. k : h[i] = e
    BY <1>3 DEF IInv, HistoryMatchesBoard, h
  <2>2. \A i \in 1 .. k - 1 : h2[i] = h[i] /\ h[i] # h[k]
    BY <1>3, <1>4, <1>7 DEF h2
  <2>3. CASE e = h[k]
    BY <1>3, <1>4, <1>6, <2>2, <2>3
  <2>4. CASE e # h[k]
    <3>1. game'.board[e] = game.board[e]  BY <1>3, <1>4, <2>4
    <3>2. (\E i \in 1 .. k : h[i] = e) <=> \E i \in 1 .. k - 1 : h[i] = e
      BY <1>3, <1>4, <2>4
    <3> QED  BY <1>6, <2>1, <2>2, <3>1, <3>2
  <2> QED  BY <2>3, <2>4
<1>9. \A i, j \in DOMAIN h2 : h2[i] = h2[j] => i = j
  <2>1. \A i \in 1 .. k - 1 : i \in 1 .. k /\ h2[i] = h[i]  BY <1>3, <1>4 DEF h2
  <2> QED  BY <1>6, <1>7, <2>1
<1>10. game'.lastMove = IF h2 = <<>> THEN NoMove ELSE h2[Len(h2)]
  BY <1>3, <1>4, <1>6 DEF h2
<1>11. HistoryMatchesBoard'  BY <1>5, <1>8, <1>9, <1>10 DEF HistoryMatchesBoard, h2
<1>12. TypeOK'  BY <1>4 DEF TypeOK, IsGame
<1> QED  BY <1>11, <1>12 DEF IInv

LEMMA RestartIInv ==
  ASSUME IInv, Restart
  PROVE  IInv'
<1>1. PICK n \in BoardSizes : game \in GameType(n)  BY DEF IInv, TypeOK, IsGame
<1>2. n \in Nat /\ game' = NewGame(n)
  BY <1>1, BoardSizesAssumption, GameFields DEF Restart, Reset
<1>3. TypeOK'  BY <1>2, NewGameType DEF TypeOK, IsGame
<1>4. HistoryMatchesBoard'  BY <1>2 DEF HistoryMatchesBoard, NewGame
<1> QED  BY <1>3, <1>4 DEF IInv

\* The board, the history and the last move always agree (and have their
\* types), however moves, undos and resets are mixed.
THEOREM GameIInv == Spec => []IInv
<1>1. IInv /\ [Next]_game => IInv'
  <2> SUFFICES ASSUME IInv, [Next]_game PROVE IInv'  OBVIOUS
  <2>1. ASSUME NEW c \in Targets(game.boardSize), NEW color \in Stone, Move(c, color)
        PROVE  IInv'
    BY <2>1, MoveIInv DEF Move, CanMove
  <2>2. CASE Undo  BY <2>2, UndoIInv
  <2>3. CASE Restart  BY <2>3, RestartIInv
  <2>4. CASE UNCHANGED game
    BY <2>4 DEF IInv, TypeOK, HistoryMatchesBoard
  <2> QED  BY <2>1, <2>2, <2>3, <2>4 DEF Next
<1> QED  BY <1>1, InitIInv, PTL DEF Spec

\* Types are kept.
THEOREM GameTypeCorrect == Spec => []TypeOK
<1>1. IInv => TypeOK  BY DEF IInv
<1> QED  BY <1>1, GameIInv, PTL

\* makeMove and undoMove keep board, history and lastMove in agreement.
THEOREM GameHistoryCorrect == Spec => []HistoryMatchesBoard
<1>1. IInv => HistoryMatchesBoard  BY DEF IInv
<1> QED  BY <1>1, GameIInv, PTL

\* undoMove after makeMove gives back the whole game object.
THEOREM GameUndoRestores == Spec => []UndoRestores
<1>1. IInv => UndoRestores
  <2> SUFFICES ASSUME IInv, NEW c \in Cells(game.boardSize), NEW color \in Stone,
                      CanMove(game, c)
               PROVE  UndoMove(MakeMove(game, c, color)) = game
    BY DEF UndoRestores
  <2>1. PICK n \in BoardSizes : game \in GameType(n)  BY DEF IInv, TypeOK, IsGame
  <2>2. n \in Nat  BY BoardSizesAssumption
  <2> DEFINE h == game.moveHistory
             g == MakeMove(game, c, color)
  <2>3. /\ game.boardSize = n /\ game.board \in [Cells(n) -> Piece] /\ h \in Seq(Cells(n))
        /\ c \in Cells(n) /\ game.board[c] = "EMPTY"
    BY <2>1, <2>2, GameFields DEF CanMove
  <2>4. /\ g.boardSize = n
        /\ g.board = [game.board EXCEPT ![c] = color]
        /\ g.moveHistory = Append(h, c)
    BY <2>1, <2>2, <2>3, MoveType
  <2>5. /\ Len(g.moveHistory) = Len(h) + 1
        /\ g.moveHistory[Len(h) + 1] = c
        /\ SubSeq(g.moveHistory, 1, Len(h) + 1 - 1) = h
    BY <2>3, <2>4
  <2>6. [g.board EXCEPT ![c] = "EMPTY"] = game.board
    BY <2>3, <2>4
  <2>7. game.lastMove = IF Len(h) + 1 = 1 THEN NoMove ELSE h[Len(h) + 1 - 1]
    BY <2>3 DEF IInv, HistoryMatchesBoard
  <2> HIDE DEF g
  <2>8. UndoMove(g) = [boardSize |-> n, board |-> game.board, moveHistory |-> h,
                       lastMove |-> game.lastMove]
    BY <2>4, <2>5, <2>6, <2>7 DEF UndoMove
  <2> QED  BY <2>1, <2>2, <2>3, <2>8, GameFields DEF g
<1> QED  BY <1>1, GameIInv, PTL

\* checkWin(x, y) is right about every stone of every game.
THEOREM GameCheckWinCorrect == Spec => []CheckWinIsLineThrough
<1>1. IInv => CheckWinIsLineThrough
  <2> SUFFICES ASSUME IInv, NEW c \in Cells(game.boardSize), game.board[c] # "EMPTY"
               PROVE  CheckWin(game, c) = game.board[c] <=> LineThrough(game, c, game.board[c])
    BY DEF CheckWinIsLineThrough
  <2>1. PICK n \in BoardSizes : game \in GameType(n)  BY DEF IInv, TypeOK, IsGame
  <2>2. n \in Nat /\ game.boardSize = n  BY <2>1, BoardSizesAssumption, GameFields
  <2> QED  BY <2>1, <2>2, CheckWinFindsLines
<1> QED  BY <1>1, GameIInv, PTL

\* checkWin() answers for the whole board as the rule of the game does.
THEOREM GameCheckWinAnywhereCorrect == Spec => []CheckWinAnywhereIsRule
<1>1. IInv => CheckWinAnywhereIsRule
  <2> SUFFICES ASSUME IInv PROVE CheckWinAnywhereIsRule  OBVIOUS
  <2>1. PICK n \in BoardSizes : game \in GameType(n)  BY DEF IInv, TypeOK, IsGame
  <2>2. n \in Nat  BY BoardSizesAssumption
  <2> QED  BY <2>1, <2>2, CheckWinAnywhereFindsLines DEF CheckWinAnywhereIsRule
<1> QED  BY <1>1, GameIInv, PTL

=============================================================================
