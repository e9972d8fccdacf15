SPECIFICATION FileSpec
CONSTANTS
  B_PLUS_TREE_BRANCH = 4
  NodesPerPage = 92
  MAX_NODES = 8
  Rows <- FiveRows
INVARIANT EnteredKeysFound
