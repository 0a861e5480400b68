CONSTANTS
  Bases <- MCBases
  MallocGap = 8
  UINT32_MAX = 1023
  SIZE_MAX = 65535
  PoolSizes <- MCPoolSizes
  Requests <- MCRequests
SPECIFICATION Spec
INVARIANTS
  TypeOK
  NoOverlap
  Tiled
  BlocksHoldHeader
  PayloadInBlock
  FreshPoolServes
  FreedBlockReusable
  NoLeak
PROPERTIES
  FragmentationIsPermanent
  ImplementsContract
