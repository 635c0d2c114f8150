SPECIFICATION Spec
CONSTANTS
  Streams = {a, b, c}
  Seeds = {0, 1, 2}
  CallerSecrets = {k}
  default_secret = default_secret
  Zeroed = Zeroed
  Freed = Freed
  BufferSize = 2
  MidsizeMax = 1
  Lengths = {1, 3}
  MaxInput = 3
SYMMETRY Symmetry
INVARIANTS
  TypeOK
  UndisturbedHashUnderTheirKey
  ShortInputsNeedNoSecret
CHECK_DEADLOCK FALSE
