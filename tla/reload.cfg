SPECIFICATION Spec
CONSTANTS
  Fields = 2
  MaxWrites = 2
  MaxFaults = 1
INVARIANTS TypeOK RatesFollow WeightsFollow
PROPERTY ChangesApplied
CHECK_DEADLOCK FALSE
