SPECIFICATION Spec
CONSTANT
  Lengths <- MCLengths
INVARIANTS
  ReadsWithinBounds
  EveryByteRead
CHECK_DEADLOCK FALSE
