CONSTANT WordBits = 7
SPECIFICATION Spec
INVARIANTS
  AgreesWithAlignUp
  SafeForAnyAlignment
