SPECIFICATION HashersSpec
CONSTANTS
  BYTES_MAX = 3
  OutputExtents <- MCOutputExtents
  FieldSize = 16
  MinKey = 2
  MaxKey = 3
  OutputLens <- MCOutputLens
  Keys <- MCKeys
  KeyLen <- MCKeyLen
  Customs = {c}
  Data = {d1, d2}
  MaxPieces = 2
  Sizes <- MCSizes
  MinOutput = 2
  OutputExtents2 = {0, 2}
  OutputLens2 <- MCLengths2
  Sizes2 <- MCLengths2
  Extents3 = {0, 2}
  Keys3 = {"k", "l"}
  NoKey = "none"
  Sizes3 = {0, 1, 5}
INVARIANTS
  TypeOK
  OutputIsXofPrefix
  AnnouncedLength
  RepeatsFarApart
  LibsodiumNeverRefuses
  GeneratedKeysAccepted
PROPERTIES
  FinishEnds
  ImplementsHasher
  Blake2bImplementsHasher
  Blake3ImplementsHasher
CHECK_DEADLOCK FALSE
