SPECIFICATION PurchaseSpec
CONSTANTS
  Callers = {c1}
  Operations = {"QUOTE", "TRIP", "CAPTURE"}
  Keys = {k1, k2}
  Calls = {r1, r2}
  Distances = {2500}
  Durations = {40}
  DrivenMeters = {2400, 3100}
  DrivenSeconds = {60}
  Outcomes = {"FAILED", "UNKNOWN"}
  MaxQuotes = 2
  MaxTrips = 2
  MaxAttempts = 2
  Mantissa = 6
SYMMETRY PurchaseSymmetry
INVARIANTS
  PurchaseTypeOK
  OneActiveTrip
  QuotesSpentOnce
  SettledAtMostOnce
  FinalFareHonoursQuote
  FaresRoundExactly
PROPERTY BuysOnceOnly
CHECK_DEADLOCK FALSE
