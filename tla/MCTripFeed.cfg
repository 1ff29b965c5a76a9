SPECIFICATION FeedSpec
CONSTANTS
  Trips = {t1, t2}
  Drivers = {d1}
  Customers = {c1}
  NoDriver = NoDriver
  Polls = {p1}
  PageLimit = 2
  TicksPerMs = 2
  LastTick = 2
  MaxSubscriptions = 1
SYMMETRY FeedSymmetry
INVARIANTS
  FeedTypeOK
  PagesArriveWhole
