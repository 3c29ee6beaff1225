SPECIFICATION MCSpec
CONSTANTS
  w1 = w1
  w2 = w2
  None = None
  MaxTokens = 4
  MaxLogins = 2
  Workers <- TwoWorkers
  TokenExpiry = 1
  RefreshExpiry = 1
  r1 = r1
  r2 = r2
  Readers = {r1, r2}
  Writers <- TwoWorkers
  Users = {u1}
  DefaultRole = "user"
  RoleNames <- MCRoleNames
  NoRole = None
  Matches <- MCMatches
  InitialRoles <- MCInitialRoles
  RolesToMake <- MCRolesToMake
  Requirements <- MCRequirements
  Goroutines = {g1, g2}
  Workloads <- MCWorkloads
  MaxBegun = 2
  u1 = u1
  g1 = g1
  g2 = g2
  Wrapped = {ct, st}
  SpanGoroutines = {g1, g2}
  Methods = {m1}
  AlwaysSample = {m1}
  NeverSample = {"batch"}
  SampleRate = "some"
  MaxTraced = 2
  MaxCalls = 2
  batch1 = batch1
  batch2 = batch2
  Listener = lsn
  Batches <- TwoBatches
  IDs <- BatchIDs
  Contents <- MCContents
  NoBatch = None
  Reader = rd
  MaxNotes = 1
  MaxSent = 2
  ClientGoroutines <- ThreeGoroutines
  Configs <- MCConfigs
  Items = {i1, i2}
  Templates = {t1, t2, t3}
  DefaultLimit = 2
  MaxLimit = 3
  Limits <- MCLimits
  UpdateCap = 2
  MaxProgress = 4
SYMMETRY Symmetry
INVARIANTS
  TypesOK RevokedForGood OneLiveAccess ChainRevocable AssignedRolesExist CountsAddUp
  TracingSound BatchAnswersOwn SessionSound PagesTile NoUpdateAfterResult
CHECK_DEADLOCK FALSE
