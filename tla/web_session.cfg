SPECIFICATION Spec
CONSTANTS
  admin = admin
  leader = leader
  Users = {admin, leader}
  NoUser = NoUser
  RoleOf <- MCRoleOf
  NData = 2
  MaxGrants = 2
  MaxMishaps = 1
INVARIANTS
  NoSelfInflictedReuse
  SessionIsWhole
  QuietLogoutSticks
PROPERTIES
  EveryCallSettles
