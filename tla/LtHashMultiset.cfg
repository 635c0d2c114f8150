SPECIFICATION HSpec
CONSTANTS
  Layout = "padded"
  Inst = {x1, x2}
  Objects = {1}
  MinKey = 2
  MaxKey = 2
  SuppliedKeys <- FixedKeys
  Initials <- DefaultOnly
  Givens <- CleanGiven
  MaxCount = 1
  KeyBytes = {0, 1, 2}
  NumFields = 4
  NumWords = 1
  Radix <- MCRadixOf
  DataFields <- MCData
  Group1 <- MCGroup1
  Digest <- MCDigest
INVARIANTS
  LiveChecksumsValid
  ChecksumIsMultisetHash
