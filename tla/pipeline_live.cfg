SPECIFICATION Spec
CONSTANTS
  m1 = m1
  m2 = m2
  gw = gw
  gw2 = gw2
  api = api
  tx = tx
  pr = pr
  Nobody = Nobody
  Msg = {m1, m2}
  Transactional = {}
  Unparsable = {m2}
  EmptyBatchIn = {"GATEWAY"}
  Consumer <- TwinsRetry
  Reads <- TwinsRetryReads
  MaxRetriesTransactional = 1
  MaxRetriesPromotional = 2
  MaxEnvelopes = 6
  MaxFaults = 1
  MaxCancels = 1
CHECK_DEADLOCK FALSE
INVARIANT
  CustodyInv
PROPERTY
  ImplementsCustody
