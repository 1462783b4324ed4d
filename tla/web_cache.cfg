SPECIFICATION Spec
CONSTANTS
  Kinds = {"deleteTask", "deactivateUser", "setLeader"}
  lan = lan
  minh = minh
  root = root
  core = core
  web = web
  Users = {lan, minh, root}
  NoUser = NoUser
  NoTeam = NoTeam
  RoleOf <- MCRoleOf
  TeamOf <- MCTeamOf
  MaxVisits = 1
  MaxEvents = 2
INVARIANTS
  ReadYourWrites
  OwnOnceAnswered
PROPERTIES
  EveryWriteSettles
CHECK_DEADLOCK FALSE
