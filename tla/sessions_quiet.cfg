SPECIFICATION Spec
CONSTANTS
  tab1 = tab1
  tab2 = tab2
  tab3 = tab3
  chrome = chrome
  firefox = firefox
  NoUser = NoUser
  Users = {alice}
  Browsers = {chrome, firefox}
  Tabs = {tab1, tab3}
  BrowserOf <- OwnJars
  Admins = {admin}
  MaxTokens = 4
  MaxInFlight = 3
  Faults = FALSE
INVARIANTS
  NoFalseReuse
PROPERTIES
  LogoutEndsSession
CHECK_DEADLOCK FALSE
