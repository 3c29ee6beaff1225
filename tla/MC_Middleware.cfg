SPECIFICATION MCSpec
CONSTANTS
  c1 = c1
  c2 = c2
  k1 = k1
  padded = padded
  None = None
  Callers <- TwoCallers
  Errors <- MCErrors
  MaxRetries = 1
  FailureThreshold = 2
  SuccessThreshold = 2
  Timeout = 2
  Features <- AllFeatures
  AuthRequired = TRUE
  AuthAnonymous = TRUE
  Burst = 1
  MaxCalls = 2
  Senders <- TwoCallers
  RLKeys = {"user:1", "user:2"}
  Contexts <- MCContexts
  BatchesOf <- MCBatchesOf
  BurstSize = 2
  IdleLimit = 4
  Clients <- TwoCallers
  Keys <- OneKey
  Tokens <- MCTokens
  TrimSpace <- MCTrimSpace
  Expiring <- OneKey
  NoToken = None
  CacheTTL = 1
  CacheSize = 1
  Required = TRUE
  AllowAnonymous = TRUE
  RBACEnabled = TRUE
  Permissions <- MCPermissions
  RolesOf <- MCRolesOf
  GrantedTo <- MCGrantedTo
INVARIANTS TypesOK AttemptsObserved RefusedStayOut WithinBudget
PROPERTIES ImplementsBreaker CallsProgress BatchServedAgain RevocationTakesHold
