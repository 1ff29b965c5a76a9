SPECIFICATION RelaySpec
CONSTANTS
  Trips = {t1, t2}
  Drivers = {}
  NoDriver = NoDriver
  Polls = {p1, p2}
  PageLimit = 2
  TicksPerMs = 2
  LastTick = 3
SYMMETRY RelaySymmetry
INVARIANTS
  NothingLeftBehind
