SPECIFICATION Spec
SYMMETRY Symmetry
CONSTANTS
  Names = {a, b}
  Thresholds <- RankThresholds
  Unit = 2
  ExactBelow = 4
  Gains = {5}
  MaxGames = 2
INVARIANTS
  NamesAgree
  RatingsAgree
  BooksBalance
  RankFollowsScore
CHECK_DEADLOCK FALSE
