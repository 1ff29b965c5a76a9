SPECIFICATION PlatformSpec
CONSTANTS
  Drivers = {d1, d2, d3}
  Trips = {t1, t2}
  Deliveries = {v1}
  NoTrip = NoTrip
  NoDelivery = NoDelivery
  NoDriver = NoDriver
  MaxOfferAttempts = 2
SYMMETRY JobSymmetry
INVARIANTS
  PlatformTypeOK
  OffersAgree
  AssignmentAgrees
  EveryVersionPublished
  ParcelsAgree
  CouriersAgree
  WorkAgrees
PROPERTIES
  LifecycleSteps
  SettledForGood
  ParcelsSettledForGood
  ImplementsSharedCommitment
