SPECIFICATION Spec
CONSTANTS
  admin = admin
  leader = leader
  Users = {admin, leader}
  NoUser = NoUser
  RoleOf <- MCRoleOf
  NData = 1
  MaxGrants = 3
  MaxMishaps = 1
INVARIANT LogoutSticks
