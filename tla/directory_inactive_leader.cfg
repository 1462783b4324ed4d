SPECIFICATION Spec
CONSTANTS
  root = root
  deputy = deputy
  lan = lan
  minh = minh
  nga = nga
  hoa = hoa
  core = core
  web = web
  mail1 = mail1
  mail2 = mail2
  mail3 = mail3
  mail4 = mail4
  mail5 = mail5
  coreName = coreName
  webName = webName
  NoTeam = NoTeam
  Users = {root, lan, minh}
  Teams = {core}
  Emails = {mail1, mail2, mail3, mail4}
  Names = {coreName}
  Requests = {r1, r2}
  SeedUsers <- Staffed
  SeedTeams <- CoreTeam
  MaxInFlight = 2
INVARIANTS
  NoInactiveLeader
CHECK_DEADLOCK FALSE
