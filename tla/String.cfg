CONSTANTS
  Strings = {string, SCRATCH}
  SCRATCH = SCRATCH
  Blocks = {b1, b2, b3}
  Resources = {malloc, calloc}
  Zeroing = {calloc}
  malloc = malloc
  calloc = calloc
  MaxLen <- MCMaxLen
  a = a
  SLASH = SLASH
  ZERO = ZERO
  NULL = NULL
  Chars <- MCChars
  Literals <- MCLiterals
  Capacities <- MCCapacities
  Files <- MCFiles
  Paths <- MCPaths
SPECIFICATION Spec
SYMMETRY Symmetry
INVARIANTS
  TypeOK
  OneBufferEach
  FolderAndName
PROPERTIES
  EndsInZero
  ImplementsTexts
