CONSTANTS
  Bases <- MCBases
  MallocGap = 8
  SIZE_MAX = 65535
  Capacities <- MCCapacities
  Requests <- WrappingRequests
SPECIFICATION Spec
INVARIANT HandedBelowMark
