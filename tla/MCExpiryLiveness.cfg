SPECIFICATION FairPlatformSpec
CONSTANTS
  Drivers = {d1, d2}
  Trips = {t1}
  Deliveries = {v1, v2}
  NoTrip = NoTrip
  NoDelivery = NoDelivery
  NoDriver = NoDriver
  MaxOfferAttempts = 2
PROPERTIES
  ReservationEnds
  CourierReservationEnds
