SPECIFICATION FairSpec
CONSTANTS
  tab1 = tab1
  tab2 = tab2
  tab3 = tab3
  chrome = chrome
  firefox = firefox
  NoUser = NoUser
  Users = {alice}
  Browsers = {chrome}
  Tabs = {tab1, tab2}
  BrowserOf <- SharedJar
  Admins = {admin}
  MaxTokens = 3
  MaxInFlight = 2
  Faults = TRUE
INVARIANTS
  TypeOK
  OneHeadPerFamily
PROPERTIES
  DeadFamilyStaysDead
  ImplementsFamilies
  EveryRequestEnds
CHECK_DEADLOCK FALSE
