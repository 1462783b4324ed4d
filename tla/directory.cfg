SPECIFICATION FairSpec
CONSTANTS
  root = root
  deputy = deputy
  lan = lan
  minh = minh
  nga = nga
  hoa = hoa
  core = core
  web = web
  mail1 = mail1
  mail2 = mail2
  mail3 = mail3
  mail4 = mail4
  mail5 = mail5
  coreName = coreName
  webName = webName
  NoTeam = NoTeam
  Users = {root, minh, hoa}
  Teams = {core, web}
  Emails = {mail1, mail3, mail5}
  Names = {coreName, webName}
  Requests = {r1, r2}
  SeedUsers <- Vacant
  SeedTeams <- CoreTeam
  MaxInFlight = 2
INVARIANTS
  OneLeaderPerTeam
  MembershipSound
  KeysUnique
  TypeOK
PROPERTIES
  TeamKeepsLeader
  EveryRequestAnswered
CHECK_DEADLOCK FALSE
