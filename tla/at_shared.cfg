SPECIFICATION Spec
CONSTANTS
  d1 = d1
  d2 = d2
  m1 = m1
  m2 = m2
  m3 = m3
  c1 = c1
  c2 = c2
  NoDelivery = NoDelivery
  NoMsg = NoMsg
  Delivery = {d1, d2}
  Msg = {m1, m2, m3}
  Batch <- SmallBatch
  Invalid = {m3}
  Consumer = {c1, c2}
  MaxReportRetries = 1
  MaxReturns = 1
  MaxFaults = 1
  MaxCancels = 1
CHECK_DEADLOCK FALSE
PROPERTY
  DeliveriesResolved
INVARIANTS
  SendsAreRedeliveries
  CooldownHolds
  RecordBeforeReport
  NobodyForgotten
