CONSTANTS
  Vectors = {vec1, vec2}
  Blocks = {b1, b2, b3}
  Values = {x1, x2}
  ElemSize = 8
  SIZE_MAX = 255
  MaxLen = 56
  Reservations <- MCReservations
  Ranges <- MCRanges
  CMLIB_VEC_DEFAULT_CAPACITY = 1
  NULL = NULL
SPECIFICATION Spec
SYMMETRY Symmetry
INVARIANTS
  TypeOK
  OneBlockEach
  LoopInBounds
PROPERTIES
  MovesOnlyWhenFull
  ImplementsSequence
