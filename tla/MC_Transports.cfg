SPECIFICATION MCSpec
CONSTANTS
  c1 = c1
  b1 = b1
  x = x
  Reader = rd
  None = None
  Listener = lsn
  k1 = k1
  k2 = k2
  k3 = k3
PROPERTIES CallsReturn CancelledStreamsEnd
CHECK_DEADLOCK FALSE
