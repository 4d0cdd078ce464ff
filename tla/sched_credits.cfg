SPECIFICATION Spec
CONSTANTS
  gold = gold
  bulk = bulk
  a = a
  b = b
  c = c
  NoQueue = NoQueue
  Queue = {bulk}
  Worker <- Pair
  Home <- PairHome
  Weight <- OddWeights
  Multiplier = {1, 2}
  DefaultWeight = 1
  MaxUpdates = 1
  MaxReconfigs = 1
CHECK_DEADLOCK FALSE
INVARIANTS
  TypeOK
  CreditsConserved
  CapacityInForce
  WeightInForce
PROPERTIES
  OldChannelsOnlyDrain
  WaitersFreed
