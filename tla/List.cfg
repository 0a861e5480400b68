CONSTANTS
  a = a
  b = b
  c = c
  r1 = r1
  r2 = r2
  Lists <- MCLists
  Nodes = {n1, n2, n3}
  ResourceOf <- MCResourceOf
  NULL = NULL
SPECIFICATION Spec
SYMMETRY Symmetry
CHECK_DEADLOCK FALSE
INVARIANTS
  TypeOK
  WellLinked
  NodesAccounted
  LoopStaysOnList
PROPERTY ImplementsSequence
