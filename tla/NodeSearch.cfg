SPECIFICATION SearchSpec
CONSTANTS
  MaxSize = 5
  KeySet = {1, 2, 3, 4, 5, 6, 7}
INVARIANTS
  PositionIsRank
PROPERTIES
  Answers
CHECK_DEADLOCK FALSE
