SPECIFICATION OnboardingSpec
CONSTANTS
  Callers = {e1,o1,o2}
  Emails = {e1}
  Operators = {o1,o2}
  Keys = {k1}
  Operations = {"REGISTER", "APPROVE_DRIVER", "REJECT_DRIVER", "APPROVE_VEHICLE", "REJECT_VEHICLE"}
  Calls = {r1, r2}
  Plates = {p1,p2}
  MaxVehicles = 3
SYMMETRY OnboardingSymmetry
INVARIANTS
  OnboardingTypeOK
  OneDecisionPerSubject
  ReceiptsNameTheirRows
  EligibleByReview
PROPERTY OnboardsOnceOnly
CHECK_DEADLOCK FALSE
