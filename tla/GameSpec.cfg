SPECIFICATION Spec
CONSTANTS
  WinLength = 2
  BoardSizes = {0, 1, 2, 3}
  MaxMoves = 4
INVARIANTS
  HistoryMatchesBoard
  CheckWinIsLineThrough
  CheckWinAnywhereIsRule
