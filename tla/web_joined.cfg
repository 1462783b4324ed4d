SPECIFICATION Spec
CONSTANTS
  Kinds = {}
  lan = lan
  minh = minh
  root = root
  core = core
  web = web
  Users = {lan, minh}
  NoUser = NoUser
  NoTeam = NoTeam
  RoleOf <- MCRoleOf
  TeamOf <- MCTeamOf
  MaxVisits = 1
  MaxEvents = 0
INVARIANTS
  OwnAtRestAlways
CHECK_DEADLOCK FALSE
