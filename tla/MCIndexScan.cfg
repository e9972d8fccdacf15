SPECIFICATION AllSpec
CONSTANTS
  B_PLUS_TREE_BRANCH = 2
  NodesPerPage = 2
  MAX_NODES = 12
  Rows <- SevenRows
  ScanValues <- MCScanValues
INVARIANTS
  SeparatorsHold
  TreeShape
  NodeSizes
  IndexScanExact
PROPERTIES
  ImplementsIndexMap
  CallEnds
  IndexScanEnds
