SPECIFICATION Spec
CONSTANTS
  root = root
  deputy = deputy
  lan = lan
  minh = minh
  nga = nga
  hoa = hoa
  core = core
  web = web
  mail1 = mail1
  mail2 = mail2
  mail3 = mail3
  mail4 = mail4
  mail5 = mail5
  coreName = coreName
  webName = webName
  NoTeam = NoTeam
  Users = {root, deputy}
  Teams = {core}
  Emails = {mail1, mail2}
  Names = {coreName, webName}
  Requests = {r1, r2}
  SeedUsers <- TwoAdmins
  SeedTeams <- CoreTeam
  MaxInFlight = 2
INVARIANTS
  AnActiveAdmin
CHECK_DEADLOCK FALSE
