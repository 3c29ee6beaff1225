SPECIFICATION MCSpec
CONSTANTS
  c1 = c1
  c2 = c2
  b1 = b1
  x = x
  y = y
  Reader = rd
  None = None
  Callers <- TwoCallers
  Batchers <- OneBatcher
  BatchIds = {x, y}
  IdsOf <- OneBatch
  MaxID = 2
  MaxInbox = 2
  Nested = TRUE
  Closable = TRUE
SYMMETRY CallerSymmetry
INVARIANTS RegisteredChannelReady NoLeakedRegistration CrashOnlyByStop
PROPERTIES RegistrationStable ImplementsRequestReply
CHECK_DEADLOCK FALSE
