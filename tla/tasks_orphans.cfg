SPECIFICATION Spec
CONSTANTS
  lan = lan
  minh = minh
  hoa = hoa
  core = core
  web = web
  t1 = t1
  plain = plain
  NoTeam = NoTeam
  Users = {lan, minh}
  Teams = {core}
  TeamOf <- CoreOrg
  Tasks = {t1}
  Progress = {"TODO", "DONE"}
  Texts = {plain}
  Requests = {r1, r2}
  SeedTasks <- OwnTask
  SeedLeaders = {lan}
  MaxInFlight = 2
PROPERTIES
  OrphansAreReported
CHECK_DEADLOCK FALSE
