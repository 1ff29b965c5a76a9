SPECIFICATION ConnectionsSpec
CONSTANTS
  Tabs = {b1, b2}
  Online = {b1}
  Calls = {r1, r2}
  MaxSessions = 3
INVARIANT ReuseRevokesTheFamily
CHECK_DEADLOCK FALSE
