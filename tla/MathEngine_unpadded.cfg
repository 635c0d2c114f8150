SPECIFICATION Spec
CONSTANTS
  Layout = "unpadded"
  NumFields = 4
  NumWords = 1
  VecLen = 2
  Radix <- MCRadixOf
  DataFields <- MCData
  Group1 <- MCGroup1
  Buffers <- AllBuffers
PROPERTY
  ImplementsLaneVector
CHECK_DEADLOCK FALSE
