SPECIFICATION StreamsSpec
CONSTANTS
  StripeLen = 3
  BufferStripes = 3
  MidsizeMax = 7
  Secrets = {3, 5}
  Lengths <- Longer
  MaxInput = 60
  Accs <- MCAccs
  init_acc <- NothingMixed
  accumulate_512 <- MixStripe
  accumulate_last <- MixLast
  scramble_acc <- MixScramble
  WordLen = 2
  Seeds <- MCSeeds
  ClassicLengths <- ClassicPieces
  ClassicMaxInput = 70
  LaneValues <- MCLaneValues
  start <- MCStart
  round <- MCRound
INVARIANT
  LastStripeIsInputTail
