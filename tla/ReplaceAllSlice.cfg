CONSTANTS
  a = a
  b = b
  NULL = NULL
  SIZE_MAX = 31
  Chars <- MCChars
  Texts <- MCTexts
  Froms <- MCSlices
  Tos <- MCTos
SPECIFICATION Spec
CHECK_DEADLOCK FALSE
INVARIANT
  Fits
