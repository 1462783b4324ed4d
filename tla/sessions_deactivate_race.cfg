SPECIFICATION Spec
CONSTANTS
  tab1 = tab1
  tab2 = tab2
  tab3 = tab3
  chrome = chrome
  firefox = firefox
  NoUser = NoUser
  Users = {alice}
  Browsers = {chrome}
  Tabs = {tab1}
  BrowserOf <- OneTab
  Admins = {admin}
  MaxTokens = 3
  MaxInFlight = 2
  Faults = FALSE
INVARIANTS
  NoSessionWhenInactive
CHECK_DEADLOCK FALSE
