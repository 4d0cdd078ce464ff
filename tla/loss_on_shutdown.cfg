SPECIFICATION Safety
CONSTANTS
  m1 = m1
  m2 = m2
  gw = gw
  gw2 = gw2
  api = api
  tx = tx
  pr = pr
  Nobody = Nobody
  Msg = {m1}
  Transactional = {m1}
  Unparsable = {}
  EmptyBatchIn = {}
  Consumer <- GatewayOnly
  Reads <- GatewayOnlyReads
  MaxRetriesTransactional = 2
  MaxRetriesPromotional = 2
  MaxEnvelopes = 6
  MaxFaults = 1
  MaxCancels = 1
CHECK_DEADLOCK FALSE
INVARIANTS
  NoMessageLoss
