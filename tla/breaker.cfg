SPECIFICATION Spec
CONSTANTS
  a = a
  b = b
  c = c
  Worker = {a, b, c}
  ConsecutiveFailures = 2
  MinRequests = 3
  FailurePercent = 50
  MaxRequests = 2
  MaxCounted = 3
PROPERTY
  Recovers
INVARIANTS
  ProbesBounded
  OnlyCaughtFailUnsent
