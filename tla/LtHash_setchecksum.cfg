SPECIFICATION Spec
CONSTANTS
  Layout = "padded"
  Inst = {x1, x2}
  Objects = {1}
  MinKey = 2
  MaxKey = 3
  SuppliedKeys <- LongAndShortKeys
  Initials <- DefaultOnly
  Givens <- DirtyGiven
  KeyBytes = {0, 1, 2}
  NumFields = 4
  NumWords = 1
  Radix <- MCRadixOf
  DataFields <- MCData
  Group1 <- MCGroup1
  Digest <- MCDigest
INVARIANT
  LiveChecksumsValid
