SPECIFICATION Safety
CONSTANTS
  m1 = m1
  m2 = m2
  gw = gw
  gw2 = gw2
  api = api
  tx = tx
  pr = pr
  Nobody = Nobody
  Msg = {m1}
  Transactional = {}
  Unparsable = {}
  EmptyBatchIn = {}
  Consumer <- GatewayOnly
  Reads <- GatewayOnlyReads
  MaxRetriesTransactional = 3
  MaxRetriesPromotional = 3
  MaxEnvelopes = 6
  MaxFaults = 0
  MaxCancels = 0
CHECK_DEADLOCK FALSE
INVARIANTS
  RetryLaneMatchesType
