SPECIFICATION DispatchSpec
CONSTANTS
  Drivers = {d1, d2}
  Trips = {t1}
  Deliveries = {}
  NoTrip = NoTrip
  NoDelivery = NoDelivery
  NoDriver = NoDriver
  MaxOfferAttempts = 3
INVARIANT MatchCommandCanOffer
