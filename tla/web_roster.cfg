SPECIFICATION Spec
CONSTANTS
  Kinds = {"deactivateUser"}
  lan = lan
  minh = minh
  root = root
  core = core
  web = web
  Users = {minh, root}
  NoUser = NoUser
  NoTeam = NoTeam
  RoleOf <- MCRoleOf
  TeamOf <- MCTeamOf
  MaxVisits = 2
  MaxEvents = 1
INVARIANTS
  RostersResync
CHECK_DEADLOCK FALSE
