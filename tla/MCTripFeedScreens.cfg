SPECIFICATION FairFeedSpec
CONSTANTS
  Trips = {t1}
  Drivers = {}
  Customers = {c1}
  NoDriver = NoDriver
  Polls = {p1, p2}
  PageLimit = 3
  TicksPerMs = 2
  LastTick = 2
  MaxSubscriptions = 1
INVARIANT PassedOnlyIfOvertaken

  
  
