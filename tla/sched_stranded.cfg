SPECIFICATION Spec
CONSTANTS
  gold = gold
  bulk = bulk
  a = a
  b = b
  c = c
  NoQueue = NoQueue
  Queue = {bulk}
  Worker <- Pair
  Home <- PairHome
  Weight = {0, 2}
  Multiplier = {1}
  DefaultWeight = 1
  MaxUpdates = 1
  MaxReconfigs = 0
CHECK_DEADLOCK FALSE
PROPERTY
  WaitersServed
