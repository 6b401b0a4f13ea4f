SPECIFICATION AiSpec
CONSTANTS
  Sizes = {1, 2, 3}
  MaxDepth = 3
  Worths <- SmallWorths
INVARIANTS
  PruningIsExact
  AnswersFirstEmpty
CHECK_DEADLOCK FALSE
