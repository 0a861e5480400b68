CONSTANTS
  Bases <- MCBases
  MallocGap = 8
  SIZE_MAX = 65535
  Capacities <- MCCapacities
  Requests <- MCRequests
SPECIFICATION Spec
INVARIANTS
  TypeOK
  HandedBelowMark
  NoLeak
PROPERTIES
  ImplementsContract
