SPECIFICATION LocationsSpec
CONSTANTS
  Pages = {g1, g2}
  Sockets = {g2}
  Pace = 2
  Window = 3
  Fresh = 2
  MaxAge = 1
  MaxTime = 3
  MaxUpdates = 2
INVARIANTS
  LocationTypeOK
PROPERTIES
  
  OneAdmissionPerWindow
  MarkerNeverGoesBack
CHECK_DEADLOCK FALSE
