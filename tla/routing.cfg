SPECIFICATION Spec
CONSTANTS
  d1 = d1
  d2 = d2
  t1 = t1
  p1 = p1
  c1 = c1
  c2 = c2
  NoDelivery = NoDelivery
  Delivery = {d1, d2}
  Msg = {t1, p1}
  Batch <- OneMixed
  Transactional = {t1}
  Consumer = {c1, c2}
  MaxReturns = 2
  MaxFaults = 2
  MaxCancels = 1
CHECK_DEADLOCK FALSE
INVARIANTS
  SendsAreRedeliveries
  AckedIsHandedOver
PROPERTY FastPathFree
