CONSTANTS
  a = a
  b = b
  NULL = NULL
  SIZE_MAX = 31
  Chars <- MCChars
  Texts <- MCTexts
  Froms <- MCFroms
  Tos <- MCTos
SPECIFICATION Spec
CHECK_DEADLOCK FALSE
INVARIANTS
  Fits
  ReplacesAll
PROPERTIES
  Returns
