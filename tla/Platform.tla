------------------------------- MODULE Platform -------------------------------
(***************************************************************************)
(* Rides and deliveries together.  They own separate tables and meet only  *)
(* in dispatch.driver_work_states, so what one of them may do to a Driver  *)
(* is decided by a row the other writes.  This module composes Dispatch    *)
(* with Delivery and states what must hold across the two.                 *)
(***************************************************************************)
EXTENDS DispatchProperties, Delivery

platformVars == <<dispatchVars, parcelVars>>

PlatformInit == DispatchInit /\ ParcelTablesInit

PlatformNext ==
  \/ DispatchNext /\ UNCHANGED parcelVars
  \/ \E v \in Deliveries : DeliveryStep(v) /\ UNCHANGED rideVars

PlatformSpec == PlatformInit /\ [][PlatformNext]_platformVars

\* The delivery worker keeps sweeping on its interval timer and clocks advance,
\* as the ride worker does (WorkerFairness); commands are never owed.
ParcelWorkerFairness ==
  \A v \in Deliveries :
    /\ WF_platformVars(ParcelDeadlinePasses(v) /\ UNCHANGED rideVars)
    /\ WF_platformVars(ExpireDueDelivery(v) /\ UNCHANGED rideVars)

FairPlatformSpec == PlatformSpec /\ WorkerFairness /\ ParcelWorkerFairness

-------------------------------------------------------------------------------
(* Invariants *)

\* Every table of rides and Deliveries, and the Driver rows they share, hold
\* only the statuses and references their types allow.
PlatformTypeOK == RideTypeOK /\ ParcelTypeOK

CarryingStates == {"DRIVER_TO_PICKUP", "AT_PICKUP", "IN_TRANSIT"}

\* A Delivery's state, its offer, its reservation and its assignment tell one
\* story: an offer is pending exactly while the Delivery is MATCHING, accepted
\* exactly when the Delivery went on, and the assignment is open exactly while
\* somebody is on the way with or to the parcel.
ParcelsAgree ==
  \A v \in Deliveries :
    /\ deliveryState[v] = "MATCHING" <=> parcelOffer[v] = "PENDING"
    /\ deliveryState[v] \in CarryingStates \cup {"DELIVERED"} <=> parcelOffer[v] = "ACCEPTED"
    /\ parcelOffer[v] = "PENDING" <=> parcelReservation[v] = "ACTIVE"
    /\ parcelOffer[v] = "ACCEPTED" <=> parcelReservation[v] = "COMMITTED"
    /\ custody[v] = "ACTIVE" <=> deliveryState[v] \in CarryingStates
    /\ custody[v] = "COMPLETED" <=> deliveryState[v] = "DELIVERED"

CarriedBy(v, d) ==
  courier[v] = d /\ (parcelOffer[v] = "PENDING" \/ custody[v] = "ACTIVE")

CourierWork(v) ==
  CASE deliveryState[v] = "MATCHING"   -> "RESERVED"
    [] deliveryState[v] = "IN_TRANSIT" -> "ON_TRIP"
    [] OTHER                           -> "TO_PICKUP"

\* The Driver's row tells the truth about the parcel tables as well: a Driver
\* is bound to exactly the Delivery offered to or carried by that Driver.
\* With WorkAgrees this keeps a Driver from having a Trip and a Delivery, or
\* two of either, whichever handlers of the two modules interleave.
CouriersAgree ==
  \A d \in Drivers, v \in Deliveries :
    /\ currentDelivery[d] = v <=> CarriedBy(v, d)
    /\ currentDelivery[d] = v => workState[d] = CourierWork(v)

-------------------------------------------------------------------------------
(* Action properties *)

ClosedDeliveryStates == {"DELIVERED", "CANCELLED", "NO_DRIVER_AVAILABLE"}

\* Custody is settled once: a parcel never passes to another Driver than the one
\* it was offered to, a resolved offer keeps its outcome, and a Delivery that
\* ended never changes again, however often and however late the commands are
\* sent and the worker sweeps.
ParcelsSettledForGood ==
  [][\A v \in Deliveries :
       /\ courier[v] # NoDriver => courier'[v] = courier[v]
       /\ parcelOffer[v] \in {"ACCEPTED", "EXPIRED"} =>
            UNCHANGED <<parcelOffer[v], parcelReservation[v]>>
       /\ deliveryState[v] \in ClosedDeliveryStates =>
            UNCHANGED <<deliveryState[v], deliveryVersion[v], custody[v],
                        parcelOutbox[v]>>]_parcelVars

-------------------------------------------------------------------------------
(* The abstract specification *)

jobStage == [j \in Trips \cup Deliveries |->
  IF j \in Trips THEN tripStage[j]
  ELSE IF deliveryState[j] \in ClosedDeliveryStates THEN "closed"
  ELSE IF deliveryState[j] \in CarryingStates THEN "committed"
  ELSE IF deliveryState[j] = "MATCHING" THEN "held" ELSE "open"]

jobHolder == [j \in Trips \cup Deliveries |->
  IF j \in Trips THEN tripHolder[j]
  ELSE IF \E d \in Drivers : currentDelivery[d] = j
         THEN CHOOSE d \in Drivers : currentDelivery[d] = j
  ELSE NoDriver]

jobAsked == [j \in Trips \cup Deliveries |->
  IF j \in Trips THEN tripAsked[j] ELSE {courier[j]} \ {NoDriver}]

Shared == INSTANCE DriverCommitment WITH
  Jobs <- Trips \cup Deliveries, Nobody <- NoDriver, stage <- jobStage,
  holder <- jobHolder, asked <- jobAsked, onDuty <- driversOnDuty

\* The two modules together implement exclusive commitment over the union of
\* their jobs, although neither reads the other's tables.
ImplementsSharedCommitment == Shared!Spec

-------------------------------------------------------------------------------
(* Liveness *)

\* A Driver reserved for a Delivery is let go of, or commits to it, even if
\* nobody sends another command: the delivery worker sees to it.
CourierReservationEnds ==
  \A d \in Drivers, v \in Deliveries :
    (workState[d] = "RESERVED" /\ currentDelivery[d] = v)
      ~> ~(workState[d] = "RESERVED" /\ currentDelivery[d] = v)

===============================================================================
