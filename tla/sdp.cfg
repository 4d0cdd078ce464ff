SPECIFICATION Spec
CONSTANTS
  d0 = d0
  d1 = d1
  d2 = d2
  p1 = p1
  p2 = p2
  r1 = r1
  w1 = w1
  w2 = w2
  Delivery = {d0, d1, d2}
  Msg = {p1, p2, r1}
  Batch <- Mixed
  Sender <- OneSender
  Regular = {r1}
  Refused = {p2}
  Worker = {w1, w2}
  BatchSize = 2
  TokenAttempts = 2
  MaxPeriods = 2
  MaxReturns <- FirstOnly
  Loads <- TwoLoads
  MaxFaults = 1
CHECK_DEADLOCK FALSE
INVARIANTS
  SendsAreRedeliveries
  AckedIsHandedOver
  OnlyRefusedFail
  StoppedKeepNothing
PROPERTY
  BatchesResolved
