SPECIFICATION RBACSpec
CONSTANTS
  r1 = r1
  r2 = r2
  w1 = w1
  w2 = w2
  u1 = u1
  Readers = {r1, r2}
  Writers = {w1, w2}
  Users = {u1}
  RoleNames <- MCRoleNames
  DefaultRole = "user"
  InitialRoles <- MCInitialRoles
  RolesToMake <- MCRolesToMake
  Matches <- MCMatches
  Requirements <- MCRequirements
  NoRole = NoRole

PROPERTIES ChecksReturn
CHECK_DEADLOCK FALSE
