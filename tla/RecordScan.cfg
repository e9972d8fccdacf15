SPECIFICATION ScanSpec
CONSTANTS
  slotPerPage = 2
  MAX_PAGES = 3
  Values = {v1, v2}
  Matching = {v1}
  Dead = Dead
INVARIANTS
  BitmapMatchesAlive
  EmptySlotCounts
  FreeListExact
  ScanComplete
PROPERTIES
  GrowsOnlyWhenFull
  ImplementsHeapFile
  ReturnedOnce
  ScanEnds
