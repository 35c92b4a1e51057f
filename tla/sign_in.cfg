SPECIFICATION Spec
CONSTANTS
  u1 = u1
  b1 = b1
  t1 = t1
  t2 = t2
  none = none
  Users <- OneUser
  NoUser = none
  Browsers <- OneBrowser
  Tabs <- TwoTabs
  Home <- OneHome
  Consoles <- OneConsole
  MaxSessions = 3
  MaxFaults = 1
INVARIANTS
  OneSessionPerLogin
CHECK_DEADLOCK FALSE
