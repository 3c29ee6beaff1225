SPECIFICATION Spec
CONSTANTS
  h1 = h1
  h2 = h2
  s1 = s1
  NoSession = NoSession
  Handlers <- TwoHandlers
  Sids <- OneSession
  Timeout = 1
  Broadcasts = TRUE
INVARIANTS StreamsEndCleanly
