SPECIFICATION Spec
CONSTANTS
  tab1 = tab1
  tab2 = tab2
  tab3 = tab3
  chrome = chrome
  firefox = firefox
  NoUser = NoUser
  Users = {alice}
  Browsers = {chrome}
  Tabs = {tab1, tab2}
  BrowserOf <- SharedJar
  Admins = {}
  MaxTokens = 4
  MaxInFlight = 2
  Faults = FALSE
PROPERTIES
  ReuseRevokesFamily
CHECK_DEADLOCK FALSE
