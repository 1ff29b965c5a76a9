------------------------------- MODULE Delivery -------------------------------
(***************************************************************************)
(* Parcel dispatch and custody: delivery.repository.ts, over the tables    *)
(* delivery.deliveries, delivery_offers, driver_reservations, assignments  *)
(* and the shared dispatch.driver_work_states.  Much as Dispatch, with     *)
(* three differences: a Delivery is matched once and gets one offer, there *)
(* is no rejection and no cancellation, and an answer after the deadline   *)
(* changes nothing, because acceptOffer throws after it expired the offer  *)
(* and the transaction is rolled back.                                     *)
(*                                                                         *)
(* Every handler locks the Delivery's row first and is one action;         *)
(* handlers that throw and replays of a receipt change nothing.            *)
(***************************************************************************)
EXTENDS DriverWork, Naturals

VARIABLES
  deliveryState,       \* deliveries.state
  deliveryVersion,     \* deliveries.version
  courier,             \* driver_user_id of the Delivery's only offer row and of
                       \* the assignment made from it
  parcelOffer,         \* status of that offer, "NONE" while there is none
  parcelReservation,   \* status of the reservation it points to
  overdue,             \* their common deadline has passed
  custody,             \* status of the assignment
  parcelOutbox         \* the Delivery's rows of delivery.outbox_events

parcelVars == <<deliveryState, deliveryVersion, courier, parcelOffer,
                parcelReservation, overdue, custody, parcelOutbox>>

DeliveryStates == {"REQUESTED", "MATCHING", "DRIVER_TO_PICKUP", "AT_PICKUP",
                   "IN_TRANSIT", "DELIVERED", "CANCELLED", "NO_DRIVER_AVAILABLE"}
ParcelOfferStatuses == {"NONE", "PENDING", "ACCEPTED", "EXPIRED"}
ParcelReservationStatuses == {"NONE", "ACTIVE", "COMMITTED", "RELEASED", "EXPIRED"}
CustodyStatuses == {"NONE", "ACTIVE", "COMPLETED", "CANCELLED"}

ParcelEvents == {"delivery.created", "delivery.matching.started",
                 "delivery.no_driver_available", "delivery.driver.assigned",
                 "delivery.driver.arrived_at_pickup",
                 "delivery.pickup.custody_confirmed", "delivery.completed"}

ParcelTypeOK ==
  /\ WorkTypeOK
  /\ deliveryState \in [Deliveries -> DeliveryStates]
  /\ deliveryVersion \in [Deliveries -> Nat]
  /\ courier \in [Deliveries -> Drivers \cup {NoDriver}]
  /\ parcelOffer \in [Deliveries -> ParcelOfferStatuses]
  /\ parcelReservation \in [Deliveries -> ParcelReservationStatuses]
  /\ overdue \in [Deliveries -> BOOLEAN]
  /\ custody \in [Deliveries -> CustodyStatuses]
  /\ parcelOutbox \in [Deliveries -> SUBSET (Nat \X ParcelEvents)]

\* Deliveries as createDelivery leaves them.
ParcelTablesInit ==
  /\ deliveryState = [v \in Deliveries |-> "REQUESTED"]
  /\ deliveryVersion = [v \in Deliveries |-> 0]
  /\ courier = [v \in Deliveries |-> NoDriver]
  /\ parcelOffer = [v \in Deliveries |-> "NONE"]
  /\ parcelReservation = [v \in Deliveries |-> "NONE"]
  /\ overdue = [v \in Deliveries |-> FALSE]
  /\ custody = [v \in Deliveries |-> "NONE"]
  /\ parcelOutbox = [v \in Deliveries |-> {<<0, "delivery.created">>}]

-------------------------------------------------------------------------------
(* Helpers *)

\* One UPDATE of the deliveries row, n versions further, with its events.
MoveDelivery(v, state, n, evs) ==
  /\ deliveryState' = [deliveryState EXCEPT ![v] = state]
  /\ deliveryVersion' = [deliveryVersion EXCEPT ![v] = @ + n]
  /\ parcelOutbox' = [parcelOutbox EXCEPT ![v] = @ \cup evs]

\* Mutant of CourierPool: a Driver bound to a Trip is taken as well.
CourierPoolIgnoringTrips(qualified) ==
  {d \in qualified :
     /\ workState[d] # "OFFLINE"
     /\ currentDelivery[d] = NoDelivery
     /\ \A v \in Deliveries : courier[v] = d => parcelReservation[v] # "ACTIVE"}

\* The candidate query of reserveOffer, its ON CONFLICT DO NOTHING and its
\* UPDATE, over the Drivers whose profile, vehicle and location qualify and
\* whose row no other transaction has locked (SKIP LOCKED).
CourierPool(qualified) ==
  {d \in qualified :
     /\ workState[d] = "AVAILABLE"
     /\ currentTrip[d] = NoTrip
     /\ currentDelivery[d] = NoDelivery
     /\ \A v \in Deliveries : courier[v] = d => parcelReservation[v] # "ACTIVE"}

-------------------------------------------------------------------------------
(* Commands *)

\* startMatching, in REQUESTED only: an offer to one Driver, or the end.
StartDeliveryMatching(v) ==
  LET next == deliveryVersion[v] + 1
      started == <<next, "delivery.matching.started">>
  IN /\ deliveryState[v] = "REQUESTED"
     /\ \E qualified \in SUBSET Drivers :
          \/ \E d \in CourierPool(qualified) :
               /\ courier' = [courier EXCEPT ![v] = d]
               /\ parcelOffer' = [parcelOffer EXCEPT ![v] = "PENDING"]
               /\ parcelReservation' = [parcelReservation EXCEPT ![v] = "ACTIVE"]
               /\ MoveCourier(d, "RESERVED", v)
               /\ MoveDelivery(v, "MATCHING", 1, {started})
          \/ /\ CourierPool(qualified) = {}
             /\ MoveDelivery(v, "NO_DRIVER_AVAILABLE", 2,
                             {started, <<next + 1, "delivery.no_driver_available">>})
             /\ UNCHANGED <<workVars, courier, parcelOffer, parcelReservation>>
     /\ UNCHANGED <<overdue, custody>>

\* acceptOffer, before the deadline.
AcceptDelivery(v) ==
  LET d == courier[v] IN
  /\ parcelOffer[v] = "PENDING" /\ parcelReservation[v] = "ACTIVE"
  /\ ~overdue[v]
  /\ deliveryState[v] = "MATCHING"
  /\ workState[d] = "RESERVED" /\ currentDelivery[d] = v /\ currentTrip[d] = NoTrip
  /\ MoveCourier(d, "TO_PICKUP", v)
  /\ parcelOffer' = [parcelOffer EXCEPT ![v] = "ACCEPTED"]
  /\ parcelReservation' = [parcelReservation EXCEPT ![v] = "COMMITTED"]
  /\ custody' = [custody EXCEPT ![v] = "ACTIVE"]
  /\ MoveDelivery(v, "DRIVER_TO_PICKUP", 1,
                  {<<deliveryVersion[v] + 1, "delivery.driver.assigned">>})
  /\ UNCHANGED <<courier, overdue>>

\* Mutant of CloseCustody: the assignment is left open.
LeaveCustody(v) == UNCHANGED custody

\* COMPLETE_DELIVERY closes the assignment, with the proof it requires.
CloseCustody(v) == custody' = [custody EXCEPT ![v] = "COMPLETED"]

\* transitionAssignedDelivery: one row of deliveryTransitionPolicy.
AdvanceDelivery(v, from, to, workFrom, workTo, event) ==
  LET d == courier[v] IN
  /\ custody[v] = "ACTIVE"
  /\ deliveryState[v] = from
  /\ workState[d] = workFrom /\ currentDelivery[d] = v /\ currentTrip[d] = NoTrip
  /\ MoveDelivery(v, to, 1, {<<deliveryVersion[v] + 1, event>>})
  /\ IF to = "DELIVERED"
     THEN CloseCustody(v) /\ MoveCourier(d, workTo, NoDelivery)
     ELSE MoveCourier(d, workTo, v) /\ UNCHANGED custody
  /\ UNCHANGED <<courier, parcelOffer, parcelReservation, overdue>>

ArriveForParcel(v) ==
  AdvanceDelivery(v, "DRIVER_TO_PICKUP", "AT_PICKUP",
                  "TO_PICKUP", "TO_PICKUP", "delivery.driver.arrived_at_pickup")

ConfirmPickupCustody(v) ==
  AdvanceDelivery(v, "AT_PICKUP", "IN_TRANSIT",
                  "TO_PICKUP", "ON_TRIP", "delivery.pickup.custody_confirmed")

CompleteDelivery(v) ==
  AdvanceDelivery(v, "IN_TRANSIT", "DELIVERED",
                  "ON_TRIP", "AVAILABLE", "delivery.completed")

-------------------------------------------------------------------------------
(* Time and the expiry worker *)

\* The deadline an offer shares with its reservation passes.
ParcelDeadlinePasses(v) ==
  /\ parcelOffer[v] = "PENDING"
  /\ ~overdue[v]
  /\ overdue' = [overdue EXCEPT ![v] = TRUE]
  /\ UNCHANGED <<workVars, deliveryState, deliveryVersion, courier, parcelOffer,
                 parcelReservation, custody, parcelOutbox>>

\* Mutant of FreeCourier: the Driver's row is left as it is.
ForgetCourier(d, v) == UNCHANGED workVars

\* The last UPDATE of expireDeliveryOffer: the Driver, if still reserved for
\* this Delivery, is available again.
FreeCourier(d, v) ==
  IF workState[d] = "RESERVED" /\ currentDelivery[d] = v
  THEN MoveCourier(d, "AVAILABLE", NoDelivery)
  ELSE UNCHANGED workVars

\* Mutant of ExpireDueDelivery: a row of the scan is not checked again, and a
\* second sweep expires what the first one has expired.
ExpireScannedDelivery(v) ==
  /\ overdue[v]
  /\ parcelOffer' = [parcelOffer EXCEPT ![v] = "EXPIRED"]
  /\ parcelReservation' = [parcelReservation EXCEPT ![v] =
                             IF @ = "ACTIVE" THEN "EXPIRED" ELSE @]
  /\ FreeCourier(courier[v], v)
  /\ MoveDelivery(v, "NO_DRIVER_AVAILABLE", 1,
                  {<<deliveryVersion[v] + 1, "delivery.no_driver_available">>})
  /\ UNCHANGED <<courier, overdue, custody>>

\* One row of expireDueOffers, checked again under the locks; there is no
\* second attempt.  A Delivery that is not MATCHING would keep its state, but
\* no pending offer is ever on one (ParcelsAgree).
ExpireDueDelivery(v) ==
  /\ parcelOffer[v] = "PENDING"
  /\ overdue[v]
  /\ deliveryState[v] = "MATCHING"
  /\ parcelOffer' = [parcelOffer EXCEPT ![v] = "EXPIRED"]
  /\ parcelReservation' = [parcelReservation EXCEPT ![v] =
                             IF @ = "ACTIVE" THEN "EXPIRED" ELSE @]
  /\ FreeCourier(courier[v], v)
  /\ MoveDelivery(v, "NO_DRIVER_AVAILABLE", 1,
                  {<<deliveryVersion[v] + 1, "delivery.no_driver_available">>})
  /\ UNCHANGED <<courier, overdue, custody>>

DeliveryStep(v) ==
  \/ StartDeliveryMatching(v)
  \/ AcceptDelivery(v)
  \/ ArriveForParcel(v)
  \/ ConfirmPickupCustody(v)
  \/ CompleteDelivery(v)
  \/ ParcelDeadlinePasses(v)
  \/ ExpireDueDelivery(v)

===============================================================================
