SPECIFICATION Spec
CONSTANTS
  r1 = r1
  k1 = k1
  k2 = k2
  k3 = k3
  Listener = lsn
  None = None
  Requests <- OneRequest
  Conns <- TwoConns
  MaxRetries = 2
  FailureThreshold = 3
  HalfOpenMaxCalls = 1
  ChanSize = 1
  Restarts = FALSE
PROPERTIES StreamServedBeforeGivenUp
CHECK_DEADLOCK FALSE
