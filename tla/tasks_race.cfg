SPECIFICATION Spec
CONSTANTS
  lan = lan
  minh = minh
  hoa = hoa
  core = core
  web = web
  t1 = t1
  plain = plain
  NoTeam = NoTeam
  Users = {lan, minh, hoa}
  Teams = {core, web}
  TeamOf <- Teamwork
  Tasks = {t1}
  Progress = {"TODO", "DONE"}
  Texts = {plain}
  Requests = {r1, r2}
  SeedTasks <- NoTasks
  SeedLeaders = {lan, hoa}
  MaxInFlight = 2
INVARIANTS
  TypeOK
  TasksStayInTeam
  AssigneeIsTold
PROPERTIES
  DeletionIsFinal
SYMMETRY RequestSymmetry
CHECK_DEADLOCK FALSE
