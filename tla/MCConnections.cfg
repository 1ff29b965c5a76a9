SPECIFICATION ConnectionsSpec
CONSTANTS
  Tabs = {b1}
  Online = {b1}
  Calls = {r1, r2}
  MaxSessions = 3
INVARIANTS
  SessionTypeOK
  OneLiveSessionPerFamily
  CalmBrowserNeverReplays
PROPERTIES
  DeadFamiliesStayDead
  NoCommandOnceNoticed
  RevokedSessionsDisconnect
CHECK_DEADLOCK FALSE
