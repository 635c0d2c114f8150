SPECIFICATION Spec
CONSTANTS
  Layout = "padded"
  NumFields = 4
  NumWords = 3
  VecLen = 2
  Radix <- MCRadixOf
  DataFields <- MCData
  Group1 <- MCGroup1
  Buffers <- EdgeBuffers
INVARIANTS
  TypeOK
  UnreachedWordsUntouched
PROPERTY
  ImplementsLaneVector
CHECK_DEADLOCK FALSE
