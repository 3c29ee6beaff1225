SPECIFICATION Spec
CONSTANTS
  r1 = r1
  k1 = k1
  k2 = k2
  k3 = k3
  Listener = lsn
  None = None
  Requests <- OneRequest
  Conns <- TwoConns
  MaxRetries = 2
  FailureThreshold = 2
  HalfOpenMaxCalls = 2
  ChanSize = 1
  Restarts = FALSE
SYMMETRY Symmetry
INVARIANTS BreakerSound OneSession NoLeakedHandler NoLeakedStream
CHECK_DEADLOCK FALSE
