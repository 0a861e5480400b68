CONSTANTS
  Bases <- MCBases
  MallocGap = 8
  Counts <- MCCounts
  Requests <- MCRequests
SPECIFICATION Spec
CHECK_DEADLOCK FALSE
INVARIANTS
  TypeOK
  EachBlockOnce
  OneLevelPerSize
  NoLeak
PROPERTIES
  GrowsOnlyWhenFull
  ImplementsContract
