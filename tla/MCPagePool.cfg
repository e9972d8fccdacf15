SPECIFICATION PoolSpec
CONSTANTS
  MAX_BUFFER_SIZE = 4
  FILE_STRIDE = 2
  FileIds <- MCFileIds
  PageNums <- MCPageNums
  Nodes <- Keys
  AllFiles <- MCAllFiles
  Free = Free
  NoSlot = NoSlot
  Null = Null
INVARIANTS
  ItemsMatchTable
  NoPageCutOff
  LookupExact
  WalkMeetsEveryNode
PROPERTIES
  CallsReturn
  ImplementsPageTable
  ImplementsLRUOrder
