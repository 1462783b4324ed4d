SPECIFICATION FairSpec
CONSTANTS
  root = root
  deputy = deputy
  lan = lan
  minh = minh
  nga = nga
  hoa = hoa
  core = core
  web = web
  mail1 = mail1
  mail2 = mail2
  mail3 = mail3
  mail4 = mail4
  mail5 = mail5
  coreName = coreName
  webName = webName
  NoTeam = NoTeam
  Users = {root, lan, minh}
  Teams = {core}
  Emails = {mail1, mail2, mail3, mail4}
  Names = {coreName}
  Requests = {r1, r2, r3}
  SeedUsers <- Staffed
  SeedTeams <- CoreTeam
  MaxInFlight = 3
INVARIANTS
  TypeOK
  OneLeaderPerTeam
PROPERTIES
  TeamKeepsLeader
  EveryRequestAnswered
CHECK_DEADLOCK FALSE
