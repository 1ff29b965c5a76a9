---------------------------- MODULE PlatformProofs ----------------------------
(***************************************************************************)
(* Proof that rides and deliveries, which share nothing but the Drivers'   *)
(* rows, never disagree about a Driver.  A ride handler knows only the     *)
(* column for Trips and a delivery handler mostly the one for Deliveries;  *)
(* that each stays away from the Drivers of the other follows from the     *)
(* invariants of both, so they are proved together.                        *)
(***************************************************************************)
EXTENDS Platform, DispatchProofs

\* All that is said of one Delivery.
ParcelStory(v) ==
  /\ deliveryState[v] = "MATCHING" <=> parcelOffer[v] = "PENDING"
  /\ deliveryState[v] \in CarryingStates \cup {"DELIVERED"} <=> parcelOffer[v] = "ACCEPTED"
  /\ parcelOffer[v] = "PENDING" <=> parcelReservation[v] = "ACTIVE"
  /\ parcelOffer[v] = "ACCEPTED" <=> parcelReservation[v] = "COMMITTED"
  /\ custody[v] = "ACTIVE" <=> deliveryState[v] \in CarryingStates
  /\ custody[v] = "COMPLETED" <=> deliveryState[v] = "DELIVERED"
  /\ parcelOffer[v] # "NONE" => courier[v] \in Drivers
  /\ deliveryState[v] = "REQUESTED" => courier[v] = NoDriver

ParcelWork(v) ==
  \A d \in Drivers :
    /\ currentDelivery[d] = v <=> CarriedBy(v, d)
    /\ currentDelivery[d] = v => workState[d] = CourierWork(v)

PlatformInv ==
  /\ RidesAgree /\ ParcelTypeOK
  /\ \A v \in Deliveries : ParcelStory(v) /\ ParcelWork(v)

-------------------------------------------------------------------------------
(* Ride steps *)

\* What a ride step may not do: touch the column for Deliveries, or move a
\* Driver who has a Delivery.
LeavesCouriers ==
  /\ currentDelivery' = currentDelivery
  /\ \A d \in Drivers : workState'[d] = workState[d] \/ currentDelivery[d] = NoDelivery

\* What a handler of a Trip may not do besides: take a Driver off duty or put one
\* on.
KeepsDuty == \A d \in Drivers : workState'[d] = "OFFLINE" <=> workState[d] = "OFFLINE"

OnlyAssigns == LeavesCouriers /\ KeepsDuty

LEMMA OnTripHasNoParcel ==
  ASSUME RidesAgree, NEW d \in Drivers, currentTrip[d] # NoTrip \/ workState[d] \notin BusyStates
  PROVE  currentDelivery[d] = NoDelivery
  BY DEF RidesAgree, WorkBound

LEMMA MoverOnlyAssigns ==
  ASSUME RidesAgree, NEW d \in Drivers, NEW t \in Trips, currentTrip[d] = t,
         NEW s, s # "OFFLINE", NEW u, MoveDriver(d, s, u)
  PROVE  OnlyAssigns
<1>1. currentDelivery[d] = NoDelivery
  BY OnTripHasNoParcel, NullAssumption
<1>2. \A e \in Drivers : e # d => workState'[e] = workState[e]
  BY DEF MoveDriver, RidesAgree, RideTypeOK, WorkTypeOK
<1>3. workState[d] # "OFFLINE" /\ workState'[d] # "OFFLINE"
  BY NullAssumption DEF MoveDriver, RidesAgree, RideTypeOK, WorkTypeOK, WorkBound, BusyStates
<1> QED
  BY <1>1, <1>2, <1>3 DEF MoveDriver, LeavesCouriers, KeepsDuty, OnlyAssigns

LEMMA NextOfferOnlyAssigns ==
  ASSUME RidesAgree, NEW t \in Trips, NEW rows, NEW v, NEW evs, NEW event,
         NEW freed \in SUBSET Drivers, \A e \in freed : currentTrip[e] = t,
         ReserveNextOffer(t, rows, v, evs, freed, event), UNCHANGED currentDelivery
  PROVE  OnlyAssigns
<1> DEFINE released == [d \in Drivers |-> IF d \in freed THEN "AVAILABLE" ELSE workState[d]]
<1>1. \A e \in freed : currentDelivery[e] = NoDelivery /\ workState[e] # "OFFLINE"
  BY OnTripHasNoParcel, NullAssumption DEF RidesAgree, WorkBound, BusyStates
<1>2. \/ workState' = released
      \/ \E d \in Drivers : /\ workState[d] = "AVAILABLE"
                            /\ workState' = [released EXCEPT ![d] = "RESERVED"]
  BY DEF ReserveNextOffer, Candidates
<1>3. /\ \A e \in Drivers \ freed : released[e] = workState[e]
      /\ \A e \in freed : released[e] # "OFFLINE"
  OBVIOUS
<1>4. DOMAIN released = Drivers
  OBVIOUS
<1> HIDE DEF released
<1>5. CASE workState' = released
  BY <1>1, <1>3, <1>5 DEF LeavesCouriers, KeepsDuty, OnlyAssigns
<1>6. ASSUME NEW d \in Drivers, workState[d] = "AVAILABLE",
             workState' = [released EXCEPT ![d] = "RESERVED"]
      PROVE  OnlyAssigns
  <2>1. currentDelivery[d] = NoDelivery
    BY <1>6, OnTripHasNoParcel DEF BusyStates
  <2>2. /\ \A e \in Drivers : e # d => workState'[e] = released[e]
        /\ workState'[d] # "OFFLINE" /\ workState[d] # "OFFLINE"
    BY <1>4, <1>6
  <2> QED
    BY <1>1, <1>3, <2>1, <2>2 DEF LeavesCouriers, KeepsDuty, OnlyAssigns
<1> QED
  BY <1>2, <1>5, <1>6

LEMMA OfferStepOnlyAssigns ==
  ASSUME RidesAgree, NEW t \in Trips, NEW n \in Attempts(t), OfferStep(t, n)
  PROVE  OnlyAssigns
<1> DEFINE d == offers[t][n].driver
<1>1. d \in Drivers
  BY OfferRowFacts DEF RidesAgree, RideTypeOK
<1>2. CASE AcceptInTime(t, n)
  BY <1>1, <1>2, MoverOnlyAssigns DEF AcceptInTime
<1>3. CASE AnswerLate(t, n)
  <2>1. CASE workState[d] = "RESERVED" /\ currentTrip[d] = t
    <3>1. MoveDriver(d, "AVAILABLE", NoTrip)
      BY <1>3, <2>1 DEF AnswerLate, ExpireOffer
    <3> QED
      BY <1>1, <2>1, <3>1, MoverOnlyAssigns
  <2>2. CASE ~(workState[d] = "RESERVED" /\ currentTrip[d] = t)
    BY <1>3, <2>2 DEF AnswerLate, ExpireOffer, workVars, LeavesCouriers, KeepsDuty, OnlyAssigns
  <2> QED
    BY <2>1, <2>2
<1>4. CASE RejectInTime(t, n)
  <2>1. /\ ReserveNextOffer(t, Resolve(t, n, "REJECTED", "RELEASED"), version[t] + 1,
                            {<<version[t] + 1, "dispatch.offer.rejected">>}, {d},
                            "dispatch.offer.reassigned")
        /\ currentTrip[d] = t /\ UNCHANGED currentDelivery
    BY <1>4 DEF RejectInTime
  <2>2. {d} \in SUBSET Drivers /\ \A e \in {d} : currentTrip[e] = t
    BY <1>1, <2>1
  <2> QED
    BY <2>1, <2>2, NextOfferOnlyAssigns
<1>5. CASE DeadlinePasses(t, n)
  BY <1>5 DEF DeadlinePasses, workVars, LeavesCouriers, KeepsDuty, OnlyAssigns
<1>6. CASE ExpireDueOffer(t, n)
  <2> DEFINE freed == {e \in {d} : workState[e] = "RESERVED" /\ currentTrip[e] = t}
  <2>1. /\ ReserveNextOffer(t, Resolve(t, n, "EXPIRED", "EXPIRED"), version[t] + 1,
                            {<<version[t] + 1, "dispatch.offer.expired">>}, freed,
                            "dispatch.offer.reassigned")
        /\ UNCHANGED currentDelivery
    BY <1>6 DEF ExpireDueOffer
  <2>2. freed \in SUBSET Drivers /\ \A e \in freed : currentTrip[e] = t
    BY <1>1
  <2> HIDE DEF freed
  <2> QED
    BY <2>1, <2>2, NextOfferOnlyAssigns
<1> QED
  BY <1>2, <1>3, <1>4, <1>5, <1>6 DEF OfferStep, AcceptOffer, RejectOffer

LEMMA TripStepOnlyAssigns ==
  ASSUME RidesAgree, NEW t \in Trips, TripStep(t)
  PROVE  OnlyAssigns
<1>1. CASE StartMatching(t)
  <2>1. PICK v, evs : /\ ReserveNextOffer(t, offers[t], v, evs, {}, "dispatch.offer.created")
                      /\ UNCHANGED currentDelivery
    BY <1>1 DEF StartMatching
  <2> QED
    BY <2>1, NextOfferOnlyAssigns
<1>2. ASSUME ArriveAtPickup(t) \/ StartTrip(t) \/ CompleteTrip(t) \/ CancelAssigned(t)
      PROVE  OnlyAssigns
  <2>1. assignment[t] = "ACTIVE" /\ currentTrip[assignee[t]] = t
    BY <1>2 DEF ArriveAtPickup, StartTrip, CompleteTrip, AdvanceTrip, CancelAssigned
  <2>2. assignee[t] \in Drivers
    BY <2>1, AssignedFacts
  <2>3. \E s, u : s # "OFFLINE" /\ MoveDriver(assignee[t], s, u)
    BY <1>2 DEF ArriveAtPickup, StartTrip, CompleteTrip, AdvanceTrip, CancelAssigned
  <2> QED
    BY <2>1, <2>2, <2>3, MoverOnlyAssigns
<1>3. CASE CancelUncommitted(t)
  <2>1. ASSUME NEW n \in Pending(t), currentTrip[offers[t][n].driver] = t,
               MoveDriver(offers[t][n].driver, "AVAILABLE", NoTrip)
        PROVE  OnlyAssigns
    <3>1. offers[t][n].driver \in Drivers
      BY OfferRowFacts DEF RidesAgree, RideTypeOK, Pending
    <3> QED
      BY <2>1, <3>1, MoverOnlyAssigns
  <2> QED
    BY <1>3, <2>1 DEF CancelUncommitted, LeavesCouriers, KeepsDuty, OnlyAssigns, workVars
<1> QED
  BY <1>1, <1>2, <1>3, OfferStepOnlyAssigns DEF TripStep, CancelTrip

LEMMA RideStepLeavesCouriers ==
  ASSUME RidesAgree, DispatchNext
  PROVE  LeavesCouriers
<1>1. ASSUME NEW d \in Drivers, ChooseWorkState(d) PROVE LeavesCouriers
  <2>1. currentDelivery[d] = NoDelivery
    BY <1>1, OnTripHasNoParcel DEF ChooseWorkState, SetWorkState, IdleStates, BusyStates
  <2> QED
    BY <1>1, <2>1 DEF ChooseWorkState, SetWorkState, LeavesCouriers, RidesAgree, RideTypeOK,
       WorkTypeOK
<1> QED
  BY <1>1, TripStepOnlyAssigns DEF DispatchNext, OnlyAssigns

LEMMA RideStepKeepsInv ==
  ASSUME PlatformInv, DispatchNext, UNCHANGED parcelVars
  PROVE  PlatformInv'
<1>1. RidesAgree' /\ LeavesCouriers
  BY RidesAgreeStep, RideStepLeavesCouriers DEF PlatformInv
<1>2. ParcelTypeOK'
  BY <1>1 DEF PlatformInv, ParcelTypeOK, parcelVars, RidesAgree, RideTypeOK
<1>3. ASSUME NEW v \in Deliveries PROVE (ParcelStory(v) /\ ParcelWork(v))'
  BY <1>1, NullAssumption DEF PlatformInv, ParcelStory, ParcelWork, CarriedBy, CourierWork, parcelVars,
     LeavesCouriers
<1> QED
  BY <1>1, <1>2, <1>3 DEF PlatformInv

-------------------------------------------------------------------------------
(* Delivery steps *)

\* A step of Delivery v: it writes the rows of v, and of Drivers who have no Trip
\* and, before and after, v or no Delivery.
OnlyParcel(v) ==
  /\ UNCHANGED rideVars /\ currentTrip' = currentTrip /\ WorkTypeOK'
  /\ \A u \in Deliveries \ {v} :
       /\ deliveryState'[u] = deliveryState[u] /\ courier'[u] = courier[u]
       /\ parcelOffer'[u] = parcelOffer[u] /\ custody'[u] = custody[u]
       /\ parcelReservation'[u] = parcelReservation[u]
  /\ \A d \in Drivers :
       \/ workState'[d] = workState[d] /\ currentDelivery'[d] = currentDelivery[d]
       \/ /\ currentTrip[d] = NoTrip
          /\ currentDelivery[d] \in {v, NoDelivery} /\ currentDelivery'[d] \in {v, NoDelivery}
          /\ workState'[d] \in BusyStates <=> currentDelivery'[d] = v

LEMMA ParcelStepKeepsRides ==
  ASSUME RidesAgree, NEW v \in Deliveries, OnlyParcel(v)
  PROVE  RidesAgree'
<1>1. RideTypeOK'
  BY DEF RidesAgree, RideTypeOK, OnlyParcel, rideVars
<1>2. ASSUME NEW d \in Drivers PROVE WorkBound(d)'
  BY NullAssumption DEF RidesAgree, WorkBound, OnlyParcel
<1>3. ASSUME NEW t \in Trips PROVE TripAgrees(t)'
  <2>1. TripAgrees(t)
    BY DEF RidesAgree
  <2>2. TripOffersAgree(t)' /\ TripAssignmentAgrees(t)'
    BY <2>1 DEF OnlyParcel, rideVars, TripAgrees, TripOffersAgree, TripAssignmentAgrees, Attempts
  <2>3. WorkFor(t)' = WorkFor(t) /\ \A d \in Drivers : Occupies(t, d)' <=> Occupies(t, d)
    BY DEF OnlyParcel, rideVars, WorkFor, Occupies, Attempts
  <2>4. TripWorkAgrees(t)'
    BY <2>1, <2>3, NullAssumption DEF OnlyParcel, TripAgrees, TripWorkAgrees
  <2> QED
    BY <2>2, <2>4 DEF TripAgrees
<1> QED
  BY <1>1, <1>2, <1>3 DEF RidesAgree

LEMMA OneParcelAtATime ==
  ASSUME PlatformInv, NEW v \in Deliveries, OnlyParcel(v), ParcelTypeOK',
         ParcelStory(v)', ParcelWork(v)'
  PROVE  PlatformInv'
<1>1. ASSUME NEW u \in Deliveries \ {v} PROVE ParcelStory(u)' /\ ParcelWork(u)'
  <2>1. ParcelStory(u) /\ ParcelWork(u)
    BY DEF PlatformInv
  <2>2. ParcelStory(u)'
    BY <2>1 DEF OnlyParcel, ParcelStory
  <2>3. CourierWork(u)' = CourierWork(u) /\ \A d \in Drivers : CarriedBy(u, d)' <=> CarriedBy(u, d)
    BY DEF OnlyParcel, CourierWork, CarriedBy
  <2>4. ParcelWork(u)'
    BY <2>1, <2>3, NullAssumption DEF OnlyParcel, ParcelWork
  <2> QED
    BY <2>2, <2>4
<1> QED
  BY <1>1, ParcelStepKeepsRides DEF PlatformInv

\* What one Driver's move does to the Drivers' rows.
LEMMA CourierMoves ==
  ASSUME PlatformInv, NEW v \in Deliveries, NEW d \in Drivers,
         currentTrip[d] = NoTrip, currentDelivery[d] \in {v, NoDelivery},
         NEW s \in WorkStates, NEW u \in {v, NoDelivery}, s \in BusyStates <=> u = v,
         MoveCourier(d, s, u)
  PROVE  /\ WorkTypeOK' /\ currentTrip' = currentTrip
         /\ workState'[d] = s /\ currentDelivery'[d] = u
         /\ \A e \in Drivers : e # d => /\ workState'[e] = workState[e]
                                        /\ currentDelivery'[e] = currentDelivery[e]
  BY DEF PlatformInv, ParcelTypeOK, WorkTypeOK, MoveCourier

LEMMA ParcelMoves ==
  ASSUME ParcelTypeOK, NEW v \in Deliveries, NEW state \in DeliveryStates, NEW n \in Nat,
         NEW evs \in SUBSET (Nat \X ParcelEvents), MoveDelivery(v, state, n, evs)
  PROVE  /\ deliveryState' \in [Deliveries -> DeliveryStates]
         /\ deliveryVersion' \in [Deliveries -> Nat]
         /\ parcelOutbox' \in [Deliveries -> SUBSET (Nat \X ParcelEvents)]
         /\ deliveryState'[v] = state
         /\ \A u \in Deliveries \ {v} : deliveryState'[u] = deliveryState[u]
<1>1. deliveryState' \in [Deliveries -> DeliveryStates] /\ deliveryVersion' \in [Deliveries -> Nat]
  BY DEF ParcelTypeOK, MoveDelivery
<1>2. parcelOutbox[v] \cup evs \in SUBSET (Nat \X ParcelEvents)
  BY DEF ParcelTypeOK
<1>3. parcelOutbox' = [parcelOutbox EXCEPT ![v] = parcelOutbox[v] \cup evs]
  BY DEF MoveDelivery
<1>4. parcelOutbox' \in [Deliveries -> SUBSET (Nat \X ParcelEvents)]
  BY <1>2, <1>3 DEF ParcelTypeOK
<1> QED
  BY <1>1, <1>4 DEF ParcelTypeOK, MoveDelivery

\* Once there is an offer, the Driver it went to is bound to v as long as it is
\* pending or the parcel is on its way, and nobody else is.
LEMMA CarrierFacts ==
  ASSUME PlatformInv, NEW v \in Deliveries,
         parcelOffer[v] = "PENDING" \/ custody[v] = "ACTIVE"
  PROVE  /\ courier[v] \in Drivers
         /\ currentDelivery[courier[v]] = v /\ currentTrip[courier[v]] = NoTrip
         /\ workState[courier[v]] = CourierWork(v)
         /\ \A d \in Drivers : currentDelivery[d] = v => d = courier[v]
<1>1. ParcelStory(v) /\ ParcelWork(v)
  BY DEF PlatformInv
<1>2. courier[v] \in Drivers
  BY <1>1 DEF ParcelStory
<1>3. currentDelivery[courier[v]] = v /\ workState[courier[v]] = CourierWork(v)
  BY <1>1, <1>2 DEF ParcelWork, CarriedBy
<1>4. currentTrip[courier[v]] = NoTrip
  BY <1>2, <1>3, NullAssumption DEF PlatformInv, RidesAgree, WorkBound
<1>5. \A d \in Drivers : currentDelivery[d] = v => d = courier[v]
  BY <1>1 DEF ParcelWork, CarriedBy
<1> QED
  BY <1>2, <1>3, <1>4, <1>5

LEMMA StartDeliveryMatchingKeepsInv ==
  ASSUME PlatformInv, NEW v \in Deliveries, StartDeliveryMatching(v), UNCHANGED rideVars
  PROVE  PlatformInv'
<1> DEFINE next == deliveryVersion[v] + 1
           started == <<next, "delivery.matching.started">>
<1>1. /\ ParcelTypeOK /\ ParcelStory(v) /\ ParcelWork(v)
      /\ deliveryState[v] = "REQUESTED" /\ UNCHANGED <<overdue, custody>>
  BY DEF PlatformInv, StartDeliveryMatching
<1>2. /\ started \in Nat \X ParcelEvents
      /\ <<next + 1, "delivery.no_driver_available">> \in Nat \X ParcelEvents
  BY <1>1 DEF ParcelTypeOK, ParcelEvents
<1>3. /\ custody[v] \notin {"ACTIVE", "COMPLETED"}
      /\ parcelOffer[v] \notin {"PENDING", "ACCEPTED"}
      /\ parcelReservation[v] \notin {"ACTIVE", "COMMITTED"}
      /\ \A d \in Drivers : currentDelivery[d] # v
  BY <1>1 DEF ParcelStory, ParcelWork, CarriedBy, CarryingStates
<1> HIDE DEF next, started
<1>4. ASSUME NEW d \in Drivers, workState[d] = "AVAILABLE", currentTrip[d] = NoTrip,
             currentDelivery[d] = NoDelivery,
             courier' = [courier EXCEPT ![v] = d],
             parcelOffer' = [parcelOffer EXCEPT ![v] = "PENDING"],
             parcelReservation' = [parcelReservation EXCEPT ![v] = "ACTIVE"],
             MoveCourier(d, "RESERVED", v), MoveDelivery(v, "MATCHING", 1, {started})
      PROVE  PlatformInv'
  <2>1. /\ WorkTypeOK' /\ currentTrip' = currentTrip
        /\ workState'[d] = "RESERVED" /\ currentDelivery'[d] = v
        /\ \A e \in Drivers : e # d => /\ workState'[e] = workState[e]
                                       /\ currentDelivery'[e] = currentDelivery[e]
    BY <1>4, CourierMoves DEF WorkStates, BusyStates
  <2>2. /\ deliveryState' \in [Deliveries -> DeliveryStates]
        /\ deliveryVersion' \in [Deliveries -> Nat]
        /\ parcelOutbox' \in [Deliveries -> SUBSET (Nat \X ParcelEvents)]
        /\ deliveryState'[v] = "MATCHING"
        /\ \A u \in Deliveries \ {v} : deliveryState'[u] = deliveryState[u]
    <3>1. {started} \in SUBSET (Nat \X ParcelEvents) /\ "MATCHING" \in DeliveryStates
      BY <1>2 DEF DeliveryStates
    <3> QED
      BY <1>1, <1>4, <3>1, ParcelMoves
  <2>3. ParcelTypeOK'
    BY <1>1, <1>4, <2>1, <2>2 DEF ParcelTypeOK, ParcelOfferStatuses, ParcelReservationStatuses
  <2>4. /\ courier'[v] = d /\ parcelOffer'[v] = "PENDING" /\ parcelReservation'[v] = "ACTIVE"
        /\ custody'[v] = custody[v]
    BY <1>1, <1>4 DEF ParcelTypeOK
  <2>5. OnlyParcel(v)
    BY <1>1, <1>4, <2>1, <2>2 DEF OnlyParcel, ParcelTypeOK, BusyStates
  <2>6. ParcelStory(v)'
    BY <1>3, <2>2, <2>4 DEF ParcelStory, CarryingStates
  <2>7. ParcelWork(v)'
    BY <1>3, <2>1, <2>2, <2>4 DEF ParcelWork, CarriedBy, CourierWork
  <2> QED
    BY <2>3, <2>5, <2>6, <2>7, OneParcelAtATime
<1>5. ASSUME MoveDelivery(v, "NO_DRIVER_AVAILABLE", 2,
                          {started, <<next + 1, "delivery.no_driver_available">>}),
             UNCHANGED <<workVars, courier, parcelOffer, parcelReservation>>
      PROVE  PlatformInv'
  <2>1. /\ deliveryState' \in [Deliveries -> DeliveryStates]
        /\ deliveryVersion' \in [Deliveries -> Nat]
        /\ parcelOutbox' \in [Deliveries -> SUBSET (Nat \X ParcelEvents)]
        /\ deliveryState'[v] = "NO_DRIVER_AVAILABLE"
        /\ \A u \in Deliveries \ {v} : deliveryState'[u] = deliveryState[u]
    <3>1. /\ {started, <<next + 1, "delivery.no_driver_available">>}
               \in SUBSET (Nat \X ParcelEvents)
          /\ "NO_DRIVER_AVAILABLE" \in DeliveryStates
      BY <1>2 DEF DeliveryStates
    <3> QED
      BY <1>1, <1>5, <3>1, ParcelMoves
  <2>2. ParcelTypeOK'
    BY <1>1, <1>5, <2>1 DEF ParcelTypeOK, WorkTypeOK, workVars
  <2>3. OnlyParcel(v)
    BY <1>1, <1>5, <2>1, <2>2 DEF OnlyParcel, ParcelTypeOK, workVars
  <2>4. ParcelStory(v)'
    BY <1>1, <1>3, <1>5, <2>1 DEF ParcelStory, CarryingStates
  <2>5. ParcelWork(v)'
    BY <1>1, <1>3, <1>5, <2>1 DEF ParcelWork, CarriedBy, CourierWork, workVars
  <2> QED
    BY <2>2, <2>3, <2>4, <2>5, OneParcelAtATime
<1> QED
  BY <1>4, <1>5 DEF StartDeliveryMatching, CourierPool, next, started

\* Every other handler moves the Driver who has v and the rows of v together;
\* what it leaves alone it may as well write again.
CarrierStep(v, s, u, state, event, o, r, c) ==
  /\ MoveCourier(courier[v], s, u)
  /\ MoveDelivery(v, state, 1, {<<deliveryVersion[v] + 1, event>>})
  /\ parcelOffer' = [parcelOffer EXCEPT ![v] = o]
  /\ parcelReservation' = [parcelReservation EXCEPT ![v] = r]
  /\ custody' = [custody EXCEPT ![v] = c]
  /\ UNCHANGED <<courier, overdue, rideVars>>

\* The values written fit together.
Fits(v, s, u, state, event, o, r, c) ==
  /\ s \in WorkStates /\ u \in {v, NoDelivery}
  /\ state \in DeliveryStates /\ event \in ParcelEvents
  /\ o \in ParcelOfferStatuses /\ r \in ParcelReservationStatuses /\ c \in CustodyStatuses
  /\ s \in BusyStates <=> u = v
  /\ state # "REQUESTED" /\ (state = "MATCHING" <=> o = "PENDING")
  /\ state \in CarryingStates \cup {"DELIVERED"} <=> o = "ACCEPTED"
  /\ o = "PENDING" <=> r = "ACTIVE"
  /\ o = "ACCEPTED" <=> r = "COMMITTED"
  /\ c = "ACTIVE" <=> state \in CarryingStates
  /\ c = "COMPLETED" <=> state = "DELIVERED"
  /\ u = v <=> o = "PENDING" \/ c = "ACTIVE"
  /\ u = v => s = IF state = "MATCHING" THEN "RESERVED"
                  ELSE IF state = "IN_TRANSIT" THEN "ON_TRIP" ELSE "TO_PICKUP"

LEMMA CarrierStepKeepsInv ==
  ASSUME PlatformInv, NEW v \in Deliveries,
         parcelOffer[v] = "PENDING" \/ custody[v] = "ACTIVE",
         NEW s, NEW u, NEW state, NEW event, NEW o, NEW r, NEW c,
         CarrierStep(v, s, u, state, event, o, r, c), Fits(v, s, u, state, event, o, r, c)
  PROVE  PlatformInv'
<1> USE DEF CarrierStep, Fits
<1>1. PICK d \in Drivers :
        /\ d = courier[v] /\ currentDelivery[d] = v /\ currentTrip[d] = NoTrip
        /\ \A e \in Drivers : currentDelivery[e] = v => e = d
  BY CarrierFacts
<1>2. MoveCourier(d, s, u)
  BY <1>1
<1>3. /\ WorkTypeOK' /\ currentTrip' = currentTrip
      /\ workState'[d] = s /\ currentDelivery'[d] = u
      /\ \A e \in Drivers : e # d => /\ workState'[e] = workState[e]
                                     /\ currentDelivery'[e] = currentDelivery[e]
  BY <1>1, <1>2, CourierMoves
<1>4. /\ deliveryState' \in [Deliveries -> DeliveryStates]
      /\ deliveryVersion' \in [Deliveries -> Nat]
      /\ parcelOutbox' \in [Deliveries -> SUBSET (Nat \X ParcelEvents)]
      /\ deliveryState'[v] = state
      /\ \A w \in Deliveries \ {v} : deliveryState'[w] = deliveryState[w]
  <2>1. ParcelTypeOK
    BY DEF PlatformInv
  <2>2. {<<deliveryVersion[v] + 1, event>>} \in SUBSET (Nat \X ParcelEvents)
    BY <2>1 DEF ParcelTypeOK
  <2> QED
    BY <2>1, <2>2, ParcelMoves
<1>5. ParcelTypeOK'
  BY <1>3, <1>4 DEF PlatformInv, ParcelTypeOK
<1>6. /\ courier'[v] = d /\ parcelOffer'[v] = o /\ parcelReservation'[v] = r
      /\ custody'[v] = c
  BY <1>1 DEF PlatformInv, ParcelTypeOK
<1>7. OnlyParcel(v)
  BY <1>1, <1>3, <1>4 DEF OnlyParcel, PlatformInv, ParcelTypeOK
<1>8. ParcelStory(v)'
  <2>1. parcelOffer[v] # "NONE"
    BY DEF PlatformInv, ParcelStory, CarryingStates
  <2> QED
    BY <1>1, <1>4, <1>6 DEF ParcelStory
<1>9. ParcelWork(v)'
  <2>1. \A e \in Drivers : currentDelivery'[e] = v <=> e = d /\ u = v
    BY <1>1, <1>3, NullAssumption
  <2>2. \A e \in Drivers : CarriedBy(v, e)' <=> e = d /\ u = v
    BY <1>6 DEF CarriedBy
  <2>3. u = v => CourierWork(v)' = s
    BY <1>4 DEF CourierWork
  <2> QED
    BY <1>3, <2>1, <2>2, <2>3 DEF ParcelWork
<1> QED
  BY <1>5, <1>7, <1>8, <1>9, OneParcelAtATime

\* The states such a step leads to.
Follows(from, to) ==
  \/ from = "MATCHING" /\ to = "DRIVER_TO_PICKUP"
  \/ from \in CarryingStates /\ to \in {"AT_PICKUP", "IN_TRANSIT"}
  \/ to \in {"DELIVERED", "NO_DRIVER_AVAILABLE"}

CarrierMoves(v) ==
  /\ parcelOffer[v] = "PENDING" \/ custody[v] = "ACTIVE"
  /\ \E s, u, state, event, o, r, c :
       /\ CarrierStep(v, s, u, state, event, o, r, c)
       /\ Fits(v, s, u, state, event, o, r, c)
       /\ s # "OFFLINE" /\ Follows(deliveryState[v], state)

LEMMA CarrierMovesKeepsInv ==
  ASSUME PlatformInv, NEW v \in Deliveries, CarrierMoves(v)
  PROVE  PlatformInv'
  BY CarrierStepKeepsInv DEF CarrierMoves

LEMMA AcceptDeliveryMoves ==
  ASSUME PlatformInv, NEW v \in Deliveries, AcceptDelivery(v), UNCHANGED rideVars
  PROVE  CarrierMoves(v)
<1>1. CarrierStep(v, "TO_PICKUP", v, "DRIVER_TO_PICKUP", "delivery.driver.assigned",
                  "ACCEPTED", "COMMITTED", "ACTIVE")
  BY DEF AcceptDelivery, CarrierStep
<1>2. Fits(v, "TO_PICKUP", v, "DRIVER_TO_PICKUP", "delivery.driver.assigned",
           "ACCEPTED", "COMMITTED", "ACTIVE")
  BY DEF Fits, WorkStates, BusyStates, DeliveryStates, ParcelEvents, ParcelOfferStatuses,
         ParcelReservationStatuses, CustodyStatuses, CarryingStates
<1>3. parcelOffer[v] = "PENDING" /\ Follows(deliveryState[v], "DRIVER_TO_PICKUP")
  BY DEF AcceptDelivery, Follows
<1> QED
  BY <1>1, <1>2, <1>3 DEF CarrierMoves

LEMMA AdvanceDeliveryMoves ==
  ASSUME PlatformInv, NEW v \in Deliveries, UNCHANGED rideVars,
         ArriveForParcel(v) \/ ConfirmPickupCustody(v) \/ CompleteDelivery(v)
  PROVE  CarrierMoves(v)
<1>1. ParcelTypeOK /\ ParcelStory(v)
  BY DEF PlatformInv
<1>2. /\ custody[v] = "ACTIVE" /\ deliveryState[v] \in CarryingStates
      /\ parcelOffer[v] = "ACCEPTED" /\ parcelReservation[v] = "COMMITTED"
      /\ UNCHANGED <<courier, parcelOffer, parcelReservation, overdue, rideVars>>
  BY <1>1 DEF ParcelStory, ArriveForParcel, ConfirmPickupCustody, CompleteDelivery, AdvanceDelivery
<1>3. /\ parcelOffer' = [parcelOffer EXCEPT ![v] = "ACCEPTED"]
      /\ parcelReservation' = [parcelReservation EXCEPT ![v] = "COMMITTED"]
  BY <1>1, <1>2 DEF ParcelTypeOK
<1>4. UNCHANGED custody => custody' = [custody EXCEPT ![v] = "ACTIVE"]
  BY <1>1, <1>2 DEF ParcelTypeOK
<1>5. CASE ArriveForParcel(v)
  <2>1. CarrierStep(v, "TO_PICKUP", v, "AT_PICKUP",
                    "delivery.driver.arrived_at_pickup", "ACCEPTED", "COMMITTED", "ACTIVE")
    BY <1>2, <1>3, <1>4, <1>5 DEF ArriveForParcel, AdvanceDelivery, CarrierStep
  <2>2. Fits(v, "TO_PICKUP", v, "AT_PICKUP",
             "delivery.driver.arrived_at_pickup", "ACCEPTED", "COMMITTED", "ACTIVE")
    BY DEF Fits, WorkStates, IdleStates, BusyStates, DeliveryStates, ParcelEvents,
       ParcelOfferStatuses, ParcelReservationStatuses, CustodyStatuses, CarryingStates
  <2> QED
    BY <1>2, <2>1, <2>2 DEF CarrierMoves, Follows
<1>6. CASE ConfirmPickupCustody(v)
  <2>1. CarrierStep(v, "ON_TRIP", v, "IN_TRANSIT",
                    "delivery.pickup.custody_confirmed", "ACCEPTED", "COMMITTED", "ACTIVE")
    BY <1>2, <1>3, <1>4, <1>6 DEF ConfirmPickupCustody, AdvanceDelivery, CarrierStep
  <2>2. Fits(v, "ON_TRIP", v, "IN_TRANSIT",
             "delivery.pickup.custody_confirmed", "ACCEPTED", "COMMITTED", "ACTIVE")
    BY DEF Fits, WorkStates, IdleStates, BusyStates, DeliveryStates, ParcelEvents,
       ParcelOfferStatuses, ParcelReservationStatuses, CustodyStatuses, CarryingStates
  <2> QED
    BY <1>2, <2>1, <2>2 DEF CarrierMoves, Follows
<1>7. CASE CompleteDelivery(v)
  <2>1. CarrierStep(v, "AVAILABLE", NoDelivery, "DELIVERED",
                    "delivery.completed", "ACCEPTED", "COMMITTED", "COMPLETED")
    BY <1>2, <1>3, <1>7 DEF CompleteDelivery, AdvanceDelivery, CarrierStep, CloseCustody
  <2>2. Fits(v, "AVAILABLE", NoDelivery, "DELIVERED",
             "delivery.completed", "ACCEPTED", "COMMITTED", "COMPLETED")
    BY NullAssumption DEF Fits, WorkStates, IdleStates, BusyStates, DeliveryStates, ParcelEvents,
       ParcelOfferStatuses, ParcelReservationStatuses, CustodyStatuses, CarryingStates
  <2> QED
    BY <1>2, <2>1, <2>2 DEF CarrierMoves, Follows
<1> QED
  BY <1>5, <1>6, <1>7

\* FreeCourier never finds somebody else's Driver: the guard of its UPDATE is
\* always met when the offer it expires is pending.
LEMMA ExpireDueDeliveryMoves ==
  ASSUME PlatformInv, NEW v \in Deliveries, ExpireDueDelivery(v), UNCHANGED rideVars
  PROVE  CarrierMoves(v)
<1>1. ParcelTypeOK /\ ParcelStory(v) /\ parcelOffer[v] = "PENDING" /\ deliveryState[v] = "MATCHING"
  BY DEF PlatformInv, ExpireDueDelivery
<1>2. workState[courier[v]] = "RESERVED" /\ currentDelivery[courier[v]] = v
  BY <1>1, CarrierFacts DEF CourierWork
<1>3. MoveCourier(courier[v], "AVAILABLE", NoDelivery)
  BY <1>2 DEF ExpireDueDelivery, FreeCourier
<1>4. /\ parcelOffer' = [parcelOffer EXCEPT ![v] = "EXPIRED"]
      /\ MoveDelivery(v, "NO_DRIVER_AVAILABLE", 1,
                      {<<deliveryVersion[v] + 1, "delivery.no_driver_available">>})
      /\ UNCHANGED <<courier, overdue, custody, rideVars>>
  BY DEF ExpireDueDelivery
<1>5. parcelReservation' = [parcelReservation EXCEPT ![v] = "EXPIRED"]
  BY <1>1 DEF ExpireDueDelivery, ParcelStory
<1>6. PICK c \in CustodyStatuses : c = custody[v] /\ c # "ACTIVE" /\ c # "COMPLETED"
  BY <1>1 DEF ParcelTypeOK, ParcelStory, CarryingStates
<1>7. custody' = [custody EXCEPT ![v] = c]
  BY <1>1, <1>4, <1>6 DEF ParcelTypeOK
<1>8. CarrierStep(v, "AVAILABLE", NoDelivery, "NO_DRIVER_AVAILABLE",
                  "delivery.no_driver_available", "EXPIRED", "EXPIRED", c)
  BY <1>3, <1>4, <1>5, <1>7 DEF CarrierStep
<1>9. Fits(v, "AVAILABLE", NoDelivery, "NO_DRIVER_AVAILABLE",
           "delivery.no_driver_available", "EXPIRED", "EXPIRED", c)
  BY <1>6, NullAssumption
     DEF Fits, WorkStates, IdleStates, BusyStates, DeliveryStates, ParcelEvents,
         ParcelOfferStatuses, ParcelReservationStatuses, CarryingStates
<1> QED
  BY <1>1, <1>8, <1>9 DEF CarrierMoves, Follows

LEMMA ParcelDeadlineKeepsInv ==
  ASSUME PlatformInv, NEW v \in Deliveries, ParcelDeadlinePasses(v), UNCHANGED rideVars
  PROVE  PlatformInv'
<1>1. /\ UNCHANGED <<workState, currentTrip, currentDelivery, deliveryState, deliveryVersion,
                     courier, parcelOffer, parcelReservation, custody, parcelOutbox>>
      /\ overdue' \in [Deliveries -> BOOLEAN]
  BY DEF ParcelDeadlinePasses, workVars, PlatformInv, ParcelTypeOK
<1>2. WorkTypeOK' /\ ParcelTypeOK'
  BY <1>1 DEF PlatformInv, ParcelTypeOK, WorkTypeOK
<1>3. OnlyParcel(v)
  BY <1>1, <1>2 DEF OnlyParcel
<1>4. ParcelStory(v)' /\ ParcelWork(v)'
  BY <1>1 DEF PlatformInv, ParcelStory, ParcelWork, CarriedBy, CourierWork
<1> QED
  BY <1>2, <1>3, <1>4, OneParcelAtATime

-------------------------------------------------------------------------------
(* The theorems *)

LEMMA PlatformInvInitially == PlatformInit => PlatformInv
<1> SUFFICES ASSUME PlatformInit PROVE PlatformInv
  OBVIOUS
<1>1. RidesAgree
  BY RidesAgreeInitially DEF PlatformInit
<1>2. WorkInit /\ ParcelTablesInit
  BY DEF PlatformInit, DispatchInit
<1>3. WorkTypeOK
  BY <1>1 DEF RidesAgree, RideTypeOK
<1>4. parcelOutbox \in [Deliveries -> SUBSET (Nat \X ParcelEvents)]
  BY <1>2 DEF ParcelTablesInit, ParcelEvents
<1>5. ParcelTypeOK
  BY <1>2, <1>3, <1>4 DEF ParcelTypeOK, ParcelTablesInit, DeliveryStates, ParcelOfferStatuses,
     ParcelReservationStatuses, CustodyStatuses
<1>6. ASSUME NEW v \in Deliveries PROVE ParcelStory(v) /\ ParcelWork(v)
  BY <1>2, NullAssumption DEF ParcelTablesInit, WorkInit, ParcelStory, ParcelWork, CarriedBy,
     CarryingStates
<1> QED
  BY <1>1, <1>5, <1>6 DEF PlatformInv

LEMMA PlatformInvStep == PlatformInv /\ [PlatformNext]_platformVars => PlatformInv'
<1> SUFFICES ASSUME PlatformInv, [PlatformNext]_platformVars PROVE PlatformInv'
  OBVIOUS
<1>1. CASE DispatchNext /\ UNCHANGED parcelVars
  BY <1>1, RideStepKeepsInv
<1>2. ASSUME NEW v \in Deliveries, DeliveryStep(v), UNCHANGED rideVars PROVE PlatformInv'
  BY <1>2, StartDeliveryMatchingKeepsInv, AcceptDeliveryMoves, AdvanceDeliveryMoves,
     ExpireDueDeliveryMoves, CarrierMovesKeepsInv, ParcelDeadlineKeepsInv DEF DeliveryStep
<1>3. CASE UNCHANGED platformVars
  <2>1. UNCHANGED <<dispatchVars, parcelVars>>
    BY <1>3 DEF platformVars
  <2>2. RidesAgree'
    BY <2>1, RidesAgreeStep DEF PlatformInv
  <2>3. ParcelTypeOK'
    BY <2>1, <2>2 DEF PlatformInv, ParcelTypeOK, parcelVars, RidesAgree, RideTypeOK
  <2>4. UNCHANGED <<workState, currentDelivery>>
    BY <2>1 DEF dispatchVars, workVars
  <2>5. ASSUME NEW v \in Deliveries PROVE (ParcelStory(v) /\ ParcelWork(v))'
    BY <2>1, <2>4 DEF PlatformInv, ParcelStory, ParcelWork, CarriedBy, CourierWork, parcelVars
  <2> QED
    BY <2>2, <2>3, <2>5 DEF PlatformInv
<1> QED
  BY <1>1, <1>2, <1>3 DEF PlatformNext

\* The invariant the results below are read off: the tables of rides agree, the
\* tables of Deliveries agree, and the shared Drivers' rows agree with both.
THEOREM PlatformInvAlways == PlatformSpec => []PlatformInv
<1> QED
  BY PlatformInvInitially, PlatformInvStep, PTL DEF PlatformSpec

\* The tables of rides and Deliveries only ever hold the statuses and references
\* their types allow, whichever handlers of the two write the Driver rows.
THEOREM PlatformTypes == PlatformSpec => []PlatformTypeOK
<1>1. PlatformInv => PlatformTypeOK
  BY DEF PlatformInv, RidesAgree, PlatformTypeOK
<1> QED
  BY <1>1, PlatformInvAlways, PTL

\* A Delivery's state, its offer, its reservation and its assignment tell one
\* story, whatever the handlers of delivery.repository.ts and of rides do.
THEOREM ParcelsAlwaysAgree == PlatformSpec => []ParcelsAgree
<1>1. PlatformInv => ParcelsAgree
  BY DEF PlatformInv, ParcelStory, ParcelsAgree
<1> QED
  BY <1>1, PlatformInvAlways, PTL

\* A Driver is bound to a Delivery exactly while it is offered to or carried by
\* that Driver, in the work state that belongs to it: no ride handler, which does
\* not look at current_delivery_id when it moves a Driver, ever takes one away.
THEOREM CouriersAlwaysAgree == PlatformSpec => []CouriersAgree
<1>1. PlatformInv => CouriersAgree
  BY DEF PlatformInv, ParcelWork, CouriersAgree
<1> QED
  BY <1>1, PlatformInvAlways, PTL

\* With Deliveries running beside the rides, a Driver's row still names exactly
\* the Trip that occupies the Driver, and never a Trip and a Delivery at once.
THEOREM SharedWorkAlwaysAgrees == PlatformSpec => []WorkAgrees
<1>1. PlatformInv => WorkAgrees
  BY DEF PlatformInv, RidesAgree, WorkAgrees, TripAgrees, TripWorkAgrees, WorkBound
<1> QED
  BY <1>1, PlatformInvAlways, PTL

-------------------------------------------------------------------------------
(* What holds of rides alone holds beside Deliveries *)

\* A step of the two together is a step of rides, or leaves the tables of rides.
LEMMA RideStepOrNone ==
  ASSUME [PlatformNext]_platformVars
  PROVE  [DispatchNext]_dispatchVars \/ UNCHANGED rideVars
  BY DEF PlatformNext, platformVars

\* A Trip has a pending offer only while it is MATCHING, with its reservation:
\* no delivery handler interferes.
THEOREM SharedOffersAlwaysAgree == PlatformSpec => []OffersAgree
<1>1. PlatformInv => OffersAgree
  BY DEF PlatformInv, RidesAgree, TripAgrees, OffersAgree
<1> QED
  BY <1>1, PlatformInvAlways, PTL

\* A Trip has an assigned Driver, who accepted the last offer, exactly while it is
\* under way or completed, with Deliveries beside it as well.
THEOREM SharedAssignmentsAlwaysAgree == PlatformSpec => []AssignmentAgrees
<1>1. PlatformInv => AssignmentAgrees
  BY DEF PlatformInv, RidesAgree, TripAgrees, AssignmentAgrees
<1> QED
  BY <1>1, PlatformInvAlways, PTL

\* Every Trip version is announced once it is committed, and no other.
THEOREM SharedVersionsAlwaysPublished == PlatformSpec => []EveryVersionPublished
<1>1. PlatformInit => EveryVersionPublished
  BY DEF PlatformInit, DispatchInit, RideTablesInit, EveryVersionPublished
<1>2. PlatformInv /\ EveryVersionPublished /\ [PlatformNext]_platformVars
        => EveryVersionPublished'
  <2> SUFFICES ASSUME PlatformInv, EveryVersionPublished, [PlatformNext]_platformVars
               PROVE  EveryVersionPublished'
    OBVIOUS
  <2>1. CASE [DispatchNext]_dispatchVars
    BY <2>1, VersionsPublishedStep DEF PlatformInv, RidesAgree
  <2>2. CASE UNCHANGED rideVars
    BY <2>2 DEF EveryVersionPublished, rideVars
  <2> QED
    BY <2>1, <2>2, RideStepOrNone
<1> QED
  BY <1>1, <1>2, PlatformInvAlways, PTL DEF PlatformSpec

\* No transaction of either module takes a Trip out of its lifecycle table.
THEOREM SharedTripsFollowTheTable == PlatformSpec => LifecycleSteps
<1>1. PlatformInv /\ [PlatformNext]_platformVars =>
        [\A t \in Trips :
           <<tripState[t], version[t]>>' # <<tripState[t], version[t]>> =>
             RecordedSteps(tripState[t], tripState'[t], version'[t] - version[t])]_dispatchVars
  <2> SUFFICES ASSUME PlatformInv, [PlatformNext]_platformVars
               PROVE  \A t \in Trips : InsideTable(t)
    BY DEF InsideTable
  <2>1. CASE [DispatchNext]_dispatchVars
    BY <2>1, LifecycleStep DEF PlatformInv, RidesAgree
  <2>2. CASE UNCHANGED rideVars
    BY <2>2 DEF InsideTable, rideVars
  <2> QED
    BY <2>1, <2>2, RideStepOrNone
<1> QED
  BY <1>1, PlatformInvAlways, PTL DEF PlatformSpec, LifecycleSteps

\* No transaction of either module rewrites a resolved ride offer or a Trip that
\* ended.
THEOREM SharedTripsStaySettled == PlatformSpec => SettledForGood
<1>1. PlatformInv /\ [PlatformNext]_platformVars =>
        [\A t \in Trips :
           /\ \A n \in Attempts(t) : offers[t][n].status # "PENDING" =>
                n \in DOMAIN offers'[t] /\ offers'[t][n] = offers[t][n]
           /\ tripState[t] \in terminalTripStates =>
                UNCHANGED <<tripState[t], version[t], offers[t], assignment[t],
                            assignee[t], outbox[t]>>]_dispatchVars
  <2> SUFFICES ASSUME PlatformInv, [PlatformNext]_platformVars
               PROVE  \A t \in Trips : Settled(t)
    BY DEF Settled, KeepsResolved, Attempts
  <2>1. CASE [DispatchNext]_dispatchVars
    BY <2>1, SettledStep DEF PlatformInv
  <2>2. CASE UNCHANGED rideVars
    BY <2>2 DEF Settled, KeepsResolved, rideVars
  <2> QED
    BY <2>1, <2>2, RideStepOrNone
<1> QED
  BY <1>1, PlatformInvAlways, PTL DEF PlatformSpec, SettledForGood

-------------------------------------------------------------------------------
(* Settled Deliveries *)

SettledParcel(v) ==
  /\ courier[v] # NoDriver => courier'[v] = courier[v]
  /\ parcelOffer[v] \in {"ACCEPTED", "EXPIRED"} =>
       UNCHANGED <<parcelOffer[v], parcelReservation[v]>>
  /\ deliveryState[v] \in ClosedDeliveryStates =>
       UNCHANGED <<deliveryState[v], deliveryVersion[v], custody[v], parcelOutbox[v]>>

SameParcel(v) ==
  UNCHANGED <<deliveryState[v], deliveryVersion[v], courier[v], parcelOffer[v],
              parcelReservation[v], custody[v], parcelOutbox[v]>>

LEMMA SameParcelIsSettled ==
  ASSUME NEW v \in Deliveries, SameParcel(v)
  PROVE  SettledParcel(v)
  BY DEF SameParcel, SettledParcel

\* A step for one Delivery leaves the rows of the others.
LEMMA OtherParcelsStay ==
  ASSUME ParcelTypeOK, NEW v \in Deliveries, DeliveryStep(v), NEW u \in Deliveries, u # v
  PROVE  SameParcel(u)
<1>1. ASSUME NEW state, NEW n, NEW evs, MoveDelivery(v, state, n, evs)
      PROVE  UNCHANGED <<deliveryState[u], deliveryVersion[u], parcelOutbox[u]>>
  BY <1>1 DEF MoveDelivery, ParcelTypeOK
<1>2. ASSUME NEW row, custody' = [custody EXCEPT ![v] = row]
      PROVE  custody'[u] = custody[u]
  BY <1>2 DEF ParcelTypeOK
<1>3. UNCHANGED <<courier[u], parcelOffer[u], parcelReservation[u]>>
  BY DEF DeliveryStep, StartDeliveryMatching, AcceptDelivery, ArriveForParcel,
     ConfirmPickupCustody, CompleteDelivery, AdvanceDelivery, ParcelDeadlinePasses,
     ExpireDueDelivery, ParcelTypeOK
<1>4. CASE StartDeliveryMatching(v)
  BY <1>1, <1>3, <1>4 DEF StartDeliveryMatching, SameParcel
<1>5. CASE AcceptDelivery(v)
  BY <1>1, <1>2, <1>3, <1>5 DEF AcceptDelivery, SameParcel
<1>6. CASE ArriveForParcel(v) \/ ConfirmPickupCustody(v) \/ CompleteDelivery(v)
  BY <1>1, <1>2, <1>3, <1>6 DEF ArriveForParcel, ConfirmPickupCustody, CompleteDelivery,
     AdvanceDelivery, CloseCustody, SameParcel
<1>7. CASE ParcelDeadlinePasses(v)
  BY <1>7 DEF ParcelDeadlinePasses, SameParcel
<1>8. CASE ExpireDueDelivery(v)
  BY <1>1, <1>3, <1>8 DEF ExpireDueDelivery, SameParcel
<1> QED
  BY <1>4, <1>5, <1>6, <1>7, <1>8 DEF DeliveryStep

\* Each handler checks the state, the offer or the assignment it is about.
LEMMA ParcelStepSettles ==
  ASSUME PlatformInv, NEW v \in Deliveries, DeliveryStep(v)
  PROVE  SettledParcel(v)
<1>1. ParcelStory(v) /\ ParcelTypeOK
  BY DEF PlatformInv
<1>2. CASE StartDeliveryMatching(v)
  <2>1. deliveryState[v] = "REQUESTED"
    BY <1>2 DEF StartDeliveryMatching
  <2>2. courier[v] = NoDriver /\ parcelOffer[v] = "NONE"
    BY <1>1, <2>1, NullAssumption DEF ParcelStory
  <2> QED
    BY <2>1, <2>2 DEF SettledParcel, ClosedDeliveryStates
<1>3. CASE AcceptDelivery(v) \/ ExpireDueDelivery(v)
  BY <1>3 DEF AcceptDelivery, ExpireDueDelivery, SettledParcel, ClosedDeliveryStates
<1>4. CASE ArriveForParcel(v) \/ ConfirmPickupCustody(v) \/ CompleteDelivery(v)
  BY <1>4 DEF ArriveForParcel, ConfirmPickupCustody, CompleteDelivery, AdvanceDelivery,
     SettledParcel, ClosedDeliveryStates
<1>5. CASE ParcelDeadlinePasses(v)
  BY <1>5, SameParcelIsSettled DEF ParcelDeadlinePasses, SameParcel
<1> QED
  BY <1>2, <1>3, <1>4, <1>5 DEF DeliveryStep

\* A parcel stays with the Driver it was offered to, a resolved offer keeps its
\* outcome and an ended Delivery is never touched again, in every execution.
THEOREM ParcelsStaySettled == PlatformSpec => ParcelsSettledForGood
<1>1. PlatformInv /\ [PlatformNext]_platformVars =>
        [\A v \in Deliveries :
           /\ courier[v] # NoDriver => courier'[v] = courier[v]
           /\ parcelOffer[v] \in {"ACCEPTED", "EXPIRED"} =>
                UNCHANGED <<parcelOffer[v], parcelReservation[v]>>
           /\ deliveryState[v] \in ClosedDeliveryStates =>
                UNCHANGED <<deliveryState[v], deliveryVersion[v], custody[v],
                            parcelOutbox[v]>>]_parcelVars
  <2> SUFFICES ASSUME PlatformInv, [PlatformNext]_platformVars, NEW v \in Deliveries
               PROVE  SettledParcel(v)
    BY DEF SettledParcel
  <2>1. CASE UNCHANGED parcelVars
    BY <2>1, SameParcelIsSettled DEF parcelVars, SameParcel
  <2>2. ASSUME NEW u \in Deliveries, DeliveryStep(u) PROVE SettledParcel(v)
    <3>1. CASE v = u
      BY <2>2, <3>1, ParcelStepSettles
    <3>2. CASE v # u
      BY <2>2, <3>2, OtherParcelsStay, SameParcelIsSettled DEF PlatformInv
    <3> QED
      BY <3>1, <3>2
  <2> QED
    BY <2>1, <2>2 DEF PlatformNext, platformVars
<1> QED
  BY <1>1, PlatformInvAlways, PTL DEF PlatformSpec, ParcelsSettledForGood

-------------------------------------------------------------------------------
(* Refinement: the jobs and their holders, as DriverCommitment sees them *)

AllJobs == Trips \cup Deliveries

\* Driver e is bound to job j, by the column for its kind.
Bound(e, j) == IF j \in Trips THEN currentTrip[e] = j ELSE currentDelivery[e] = j

\* Trips and parcels have identifiers of their own.
KindsApart == Trips \cap Deliveries = {}

LEMMA Chosen ==
  ASSUME NEW f, NEW j, NEW d \in Drivers, \A e \in Drivers : f[e] = j <=> e = d
  PROVE  (IF \E e \in Drivers : f[e] = j THEN CHOOSE e \in Drivers : f[e] = j
          ELSE NoDriver) = d
<1>1. PICK h : h = CHOOSE e \in Drivers : f[e] = j
  OBVIOUS
<1>2. h \in Drivers /\ f[h] = j
  BY <1>1
<1> QED
  BY <1>1, <1>2

\* The holder of a job is the Driver bound to it, before and after a step.
LEMMA HolderIsBound ==
  ASSUME NEW j \in AllJobs
  PROVE  /\ \A d \in Drivers : (\A e \in Drivers : Bound(e, j) <=> e = d) => jobHolder[j] = d
         /\ (\A e \in Drivers : ~Bound(e, j)) => jobHolder[j] = NoDriver
         /\ \A d \in Drivers : (\A e \in Drivers : Bound(e, j)' <=> e = d) => jobHolder'[j] = d
         /\ (\A e \in Drivers : ~Bound(e, j)') => jobHolder'[j] = NoDriver
<1>1. CASE j \in Trips
  <2>1. jobHolder[j] = IF \E e \in Drivers : currentTrip[e] = j
                       THEN CHOOSE e \in Drivers : currentTrip[e] = j ELSE NoDriver
    BY <1>1 DEF AllJobs, jobHolder, tripHolder
  <2>2. jobHolder'[j] = IF \E e \in Drivers : currentTrip'[e] = j
                        THEN CHOOSE e \in Drivers : currentTrip'[e] = j ELSE NoDriver
    BY <1>1 DEF AllJobs, jobHolder, tripHolder
  <2>3. \A e \in Drivers : /\ Bound(e, j) <=> currentTrip[e] = j
                           /\ Bound(e, j)' <=> currentTrip'[e] = j
    BY <1>1 DEF Bound
  <2> QED
    BY <2>1, <2>2, <2>3, Chosen
<1>2. CASE j \notin Trips
  <2>1. jobHolder[j] = IF \E e \in Drivers : currentDelivery[e] = j
                       THEN CHOOSE e \in Drivers : currentDelivery[e] = j ELSE NoDriver
    BY <1>2 DEF AllJobs, jobHolder
  <2>2. jobHolder'[j] = IF \E e \in Drivers : currentDelivery'[e] = j
                        THEN CHOOSE e \in Drivers : currentDelivery'[e] = j ELSE NoDriver
    BY <1>2 DEF AllJobs, jobHolder
  <2>3. \A e \in Drivers : /\ Bound(e, j) <=> currentDelivery[e] = j
                           /\ Bound(e, j)' <=> currentDelivery'[e] = j
    BY <1>2 DEF Bound
  <2> QED
    BY <2>1, <2>2, <2>3, Chosen
<1> QED
  BY <1>1, <1>2

LEMMA BoundOnce ==
  ASSUME PlatformInv, NEW j \in AllJobs
  PROVE  \/ \A e \in Drivers : ~Bound(e, j)
         \/ \E d \in Drivers : \A e \in Drivers : Bound(e, j) <=> e = d
<1>1. CASE j \in Trips
  <2>1. CASE Pending(j) # {}
    <3>1. PICK n \in Attempts(j) : offers[j][n].status = "PENDING"
      BY <2>1 DEF Pending
    <3>2. offers[j][n].driver \in Drivers
      BY <1>1, OfferRowFacts DEF PlatformInv, RidesAgree, RideTypeOK
    <3> QED
      BY <1>1, <3>1, <3>2, PendingFacts DEF Bound, PlatformInv
  <2>2. CASE assignment[j] = "ACTIVE"
    BY <1>1, <2>2, AssignedFacts DEF Bound, PlatformInv
  <2>3. CASE Pending(j) = {} /\ assignment[j] # "ACTIVE"
    BY <1>1, <2>3, UnoccupiedFacts DEF Bound, PlatformInv
  <2> QED
    BY <2>1, <2>2, <2>3
<1>2. CASE j \in Deliveries \ Trips
  BY <1>2 DEF Bound, PlatformInv, ParcelWork, CarriedBy
<1> QED
  BY <1>1, <1>2 DEF AllJobs

LEMMA HolderStays ==
  ASSUME PlatformInv, NEW j \in AllJobs, \A e \in Drivers : Bound(e, j)' <=> Bound(e, j)
  PROVE  jobHolder'[j] = jobHolder[j]
  BY BoundOnce, HolderIsBound

\* A Driver with no job is the holder of none.
LEMMA IdleIsFree ==
  ASSUME PlatformInv, NEW d \in Drivers, workState[d] \in IdleStates, NEW j \in AllJobs
  PROVE  jobHolder[j] # d
<1>1. ~Bound(d, j)
  BY NullAssumption DEF PlatformInv, RidesAgree, WorkBound, Bound, IdleStates, BusyStates, AllJobs
<1> QED
  BY <1>1, BoundOnce, HolderIsBound, NullAssumption

-------------------------------------------------------------------------------
(* Steps of DriverCommitment, one job at a time *)

\* Job k looks as before.
Same(k) ==
  /\ jobStage'[k] = jobStage[k] /\ jobHolder'[k] = jobHolder[k] /\ jobAsked'[k] = jobAsked[k]

OnlyJob(j) == (\A k \in AllJobs \ {j} : Same(k)) /\ driversOnDuty' = driversOnDuty

LEMMA JobFunctions ==
  /\ jobStage = [k \in AllJobs |-> jobStage[k]] /\ jobStage' = [k \in AllJobs |-> jobStage'[k]]
  /\ jobHolder = [k \in AllJobs |-> jobHolder[k]] /\ jobHolder' = [k \in AllJobs |-> jobHolder'[k]]
  /\ jobAsked = [k \in AllJobs |-> jobAsked[k]] /\ jobAsked' = [k \in AllJobs |-> jobAsked'[k]]
<1>1. jobStage = [k \in AllJobs |-> jobStage[k]] /\ jobStage' = [k \in AllJobs |-> jobStage'[k]]
  BY DEF jobStage, AllJobs
<1>2. jobHolder = [k \in AllJobs |-> jobHolder[k]] /\ jobHolder' = [k \in AllJobs |-> jobHolder'[k]]
  BY DEF jobHolder, AllJobs
<1>3. jobAsked = [k \in AllJobs |-> jobAsked[k]] /\ jobAsked' = [k \in AllJobs |-> jobAsked'[k]]
  BY DEF jobAsked, AllJobs
<1> QED
  BY <1>1, <1>2, <1>3

LEMMA OneEntry ==
  ASSUME NEW S, NEW f, NEW g, f = [k \in S |-> f[k]], g = [k \in S |-> g[k]], NEW j \in S,
         \A k \in S \ {j} : g[k] = f[k]
  PROVE  g = [f EXCEPT ![j] = g[j]] /\ (g[j] = f[j] => g = f)
  OBVIOUS

LEMMA OnlyJobUpdates ==
  ASSUME NEW j \in AllJobs, OnlyJob(j)
  PROVE  /\ jobStage' = [jobStage EXCEPT ![j] = jobStage'[j]]
         /\ jobHolder' = [jobHolder EXCEPT ![j] = jobHolder'[j]]
         /\ jobAsked' = [jobAsked EXCEPT ![j] = jobAsked'[j]]
         /\ jobStage'[j] = jobStage[j] => jobStage' = jobStage
         /\ jobHolder'[j] = jobHolder[j] => jobHolder' = jobHolder
         /\ jobAsked'[j] = jobAsked[j] => jobAsked' = jobAsked
  BY JobFunctions, OneEntry DEF OnlyJob, Same

LEMMA Stutters ==
  ASSUME NEW j \in AllJobs, OnlyJob(j), Same(j)
  PROVE  [Shared!Next]_(Shared!vars)
  BY OnlyJobUpdates DEF Same, OnlyJob, Shared!vars

LEMMA Commits ==
  ASSUME NEW j \in AllJobs, OnlyJob(j), jobStage[j] = "held", jobStage'[j] = "committed",
         jobHolder'[j] = jobHolder[j], jobAsked'[j] = jobAsked[j]
  PROVE  [Shared!Next]_(Shared!vars)
<1>1. Shared!Commit(j)
  BY OnlyJobUpdates DEF OnlyJob, Shared!Commit
<1> QED
  BY <1>1 DEF Shared!Next, AllJobs

LEMMA Releases ==
  ASSUME NEW j \in AllJobs, OnlyJob(j), jobStage[j] = "held", jobStage'[j] = "open",
         jobHolder'[j] = NoDriver, jobAsked'[j] = jobAsked[j]
  PROVE  [Shared!Next]_(Shared!vars)
<1>1. Shared!Release(j)
  BY OnlyJobUpdates DEF OnlyJob, Shared!Release
<1> QED
  BY <1>1 DEF Shared!Next, AllJobs

LEMMA Closes ==
  ASSUME NEW j \in AllJobs, OnlyJob(j), jobStage[j] # "closed", jobStage'[j] = "closed",
         jobHolder'[j] = NoDriver, jobAsked'[j] = jobAsked[j]
  PROVE  [Shared!Next]_(Shared!vars)
<1>1. Shared!Close(j)
  BY OnlyJobUpdates DEF OnlyJob, Shared!Close
<1> QED
  BY <1>1 DEF Shared!Next, AllJobs

LEMMA Holds ==
  ASSUME PlatformInv, NEW j \in AllJobs, OnlyJob(j), jobStage[j] \in {"open", "held"},
         NEW d \in Drivers, workState[d] = "AVAILABLE", d \notin jobAsked[j],
         jobStage'[j] = "held", jobHolder'[j] = d, jobAsked'[j] = jobAsked[j] \cup {d}
  PROVE  [Shared!Next]_(Shared!vars)
<1>1. d \in driversOnDuty /\ \A k \in AllJobs : jobHolder[k] # d
  BY IdleIsFree DEF driversOnDuty, IdleStates
<1>2. d \in Shared!MayAsk(j)
  BY <1>1 DEF Shared!MayAsk, Shared!Free, AllJobs
<1>3. Shared!Hold(j, d)
  BY <1>2, OnlyJobUpdates DEF OnlyJob, Shared!Hold
<1> QED
  BY <1>3 DEF Shared!Next, AllJobs

-------------------------------------------------------------------------------
(* Ride steps are steps of DriverCommitment *)

LEMMA TripLooks ==
  ASSUME NEW t \in Trips
  PROVE  /\ tripState[t] \in terminalTripStates => jobStage[t] = "closed"
         /\ tripState[t] \in UnderwayStates => jobStage[t] = "committed"
         /\ tripState[t] \in {"REQUESTED", "MATCHING"} =>
              jobStage[t] = IF Pending(t) # {} THEN "held" ELSE "open"
         /\ jobAsked[t] = {offers[t][n].driver : n \in DOMAIN offers[t]}
  BY DEF jobStage, jobAsked, tripStage, tripAsked, terminalTripStates, UnderwayStates, Attempts

LEMMA TripWillLook ==
  ASSUME NEW t \in Trips
  PROVE  /\ tripState'[t] \in terminalTripStates => jobStage'[t] = "closed"
         /\ tripState'[t] \in UnderwayStates => jobStage'[t] = "committed"
         /\ tripState'[t] \in {"REQUESTED", "MATCHING"} =>
              jobStage'[t] = IF Pending(t)' # {} THEN "held" ELSE "open"
         /\ jobAsked'[t] = {offers'[t][n].driver : n \in DOMAIN offers'[t]}
  BY DEF jobStage, jobAsked, tripStage, tripAsked, terminalTripStates, UnderwayStates, Attempts

LEMMA ParcelLooks ==
  ASSUME KindsApart, NEW v \in Deliveries
  PROVE  /\ deliveryState[v] \in {"DELIVERED", "CANCELLED", "NO_DRIVER_AVAILABLE"} =>
              jobStage[v] = "closed"
         /\ deliveryState[v] \in CarryingStates => jobStage[v] = "committed"
         /\ deliveryState[v] = "MATCHING" => jobStage[v] = "held"
         /\ deliveryState[v] = "REQUESTED" => jobStage[v] = "open"
         /\ jobAsked[v] = {courier[v]} \ {NoDriver}
  BY DEF jobStage, jobAsked, ClosedDeliveryStates, CarryingStates, KindsApart

LEMMA ParcelWillLook ==
  ASSUME KindsApart, NEW v \in Deliveries
  PROVE  /\ deliveryState'[v] \in {"DELIVERED", "CANCELLED", "NO_DRIVER_AVAILABLE"} =>
              jobStage'[v] = "closed"
         /\ deliveryState'[v] \in CarryingStates => jobStage'[v] = "committed"
         /\ deliveryState'[v] = "MATCHING" => jobStage'[v] = "held"
         /\ jobAsked'[v] = {courier'[v]} \ {NoDriver}
  BY DEF jobStage, jobAsked, ClosedDeliveryStates, CarryingStates, KindsApart

\* Deliveries whose rows are left alone look as before.
LEMMA ParcelStays ==
  ASSUME KindsApart, PlatformInv, PlatformInv', NEW v \in Deliveries,
         deliveryState'[v] = deliveryState[v], courier'[v] = courier[v],
         parcelOffer'[v] = parcelOffer[v], custody'[v] = custody[v]
  PROVE  Same(v)
<1>1. jobStage'[v] = jobStage[v] /\ jobAsked'[v] = jobAsked[v]
  BY DEF jobStage, jobAsked, KindsApart
<1>2. ASSUME NEW e \in Drivers PROVE Bound(e, v)' <=> Bound(e, v)
  BY DEF KindsApart, Bound, PlatformInv, ParcelWork, CarriedBy
<1> QED
  BY <1>1, <1>2, HolderStays DEF Same, AllJobs

\* The holder of a Trip is the Driver it occupies.
LEMMA OccupantStays ==
  ASSUME PlatformInv, PlatformInv', NEW t \in Trips,
         \A e \in Drivers : Occupies(t, e)' <=> Occupies(t, e)
  PROVE  jobHolder'[t] = jobHolder[t]
<1>1. ASSUME NEW e \in Drivers PROVE Bound(e, t)' <=> Bound(e, t)
  BY DEF Bound, PlatformInv, RidesAgree, TripAgrees, TripWorkAgrees
<1> QED
  BY <1>1, HolderStays DEF AllJobs

LEMMA NobodyOccupied ==
  ASSUME PlatformInv', NEW t \in Trips, \A e \in Drivers : ~Occupies(t, e)'
  PROVE  jobHolder'[t] = NoDriver
<1>1. ASSUME NEW e \in Drivers PROVE ~Bound(e, t)'
  BY DEF Bound, PlatformInv, RidesAgree, TripAgrees, TripWorkAgrees
<1> QED
  BY <1>1, HolderIsBound DEF AllJobs

LEMMA ClosedTripIsFree ==
  ASSUME PlatformInv', NEW t \in Trips, tripState'[t] \in terminalTripStates
  PROVE  jobStage'[t] = "closed" /\ jobHolder'[t] = NoDriver
<1>1. ASSUME NEW e \in Drivers PROVE ~Occupies(t, e)'
  BY DEF PlatformInv, RidesAgree, TripAgrees, TripOffersAgree, TripAssignmentAgrees, Occupies,
     terminalTripStates, UnderwayStates
<1> QED
  BY <1>1, NobodyOccupied, TripWillLook

\* Trips whose rows are left alone look as before.
LEMMA TripStays ==
  ASSUME PlatformInv, PlatformInv', NEW t \in Trips,
         tripState'[t] = tripState[t], offers'[t] = offers[t],
         assignee'[t] = assignee[t], assignment'[t] = assignment[t]
  PROVE  Same(t)
<1>1. jobStage'[t] = jobStage[t] /\ jobAsked'[t] = jobAsked[t]
  BY DEF jobStage, jobAsked, tripStage, tripAsked, Pending, Attempts
<1>2. ASSUME NEW e \in Drivers PROVE Occupies(t, e)' <=> Occupies(t, e)
  BY DEF Occupies, Attempts
<1> QED
  BY <1>1, <1>2, OccupantStays DEF Same

LEMMA TripStepOnlyJob ==
  ASSUME KindsApart, PlatformInv, NEW t \in Trips, TripStep(t), UNCHANGED parcelVars
  PROVE  PlatformInv' /\ OnlyJob(t)
<1>1. PlatformInv'
  BY RideStepKeepsInv DEF DispatchNext
<1>2. ASSUME NEW k \in AllJobs \ {t} PROVE Same(k)
  <2>1. CASE k \in Trips
    BY <1>1, <2>1, TripStepRows, TripStays DEF PlatformInv
  <2>2. CASE k \in Deliveries
    BY <1>1, <2>2, ParcelStays DEF parcelVars
  <2> QED
    BY <2>1, <2>2 DEF AllJobs
<1>3. driversOnDuty' = driversOnDuty
  BY TripStepOnlyAssigns DEF OnlyAssigns, KeepsDuty, driversOnDuty, PlatformInv
<1> QED
  BY <1>1, <1>2, <1>3 DEF OnlyJob

LEMMA SameDrivers ==
  ASSUME NEW f, NEW g, DOMAIN g = DOMAIN f, \A m \in DOMAIN f : g[m].driver = f[m].driver
  PROVE  {g[n].driver : n \in DOMAIN g} = {f[n].driver : n \in DOMAIN f}
  OBVIOUS

LEMMA AskedStays ==
  ASSUME NEW t \in Trips, DOMAIN offers'[t] = DOMAIN offers[t],
         \A m \in DOMAIN offers[t] : offers'[t][m].driver = offers[t][m].driver
  PROVE  jobAsked'[t] = jobAsked[t]
<1>1. {offers'[t][n].driver : n \in DOMAIN offers'[t]} = {offers[t][n].driver : n \in DOMAIN offers[t]}
  BY SameDrivers
<1>2. /\ jobAsked[t] = {offers[t][n].driver : n \in DOMAIN offers[t]}
      /\ jobAsked'[t] = {offers'[t][n].driver : n \in DOMAIN offers'[t]}
  BY TripLooks, TripWillLook
<1> QED
  BY <1>1, <1>2

\* What resolving the pending attempt leaves behind.
LEMMA Resolving ==
  ASSUME PlatformInv, NEW t \in Trips, NEW n \in Attempts(t), offers[t][n].status = "PENDING",
         NEW o \in OfferStatuses, o # "PENDING", NEW r \in ReservationStatuses,
         offers' = [offers EXCEPT ![t] = Resolve(t, n, o, r)]
  PROVE  /\ Pending(t)' = {}
         /\ jobAsked'[t] = jobAsked[t]
         /\ jobStage[t] = "held" /\ tripState[t] = "MATCHING"
         /\ offers[t][n].driver \in Drivers
         /\ \A e \in Drivers : Occupies(t, e) <=> e = offers[t][n].driver
<1>1. RidesAgree /\ offers \in [Trips -> Seq(Offers)] /\ n \in DOMAIN offers[t]
  BY DEF PlatformInv, RidesAgree, RideTypeOK, Attempts
<1>2. /\ DOMAIN offers'[t] = DOMAIN offers[t]
      /\ offers'[t][n].driver = offers[t][n].driver /\ offers'[t][n].status = o
      /\ \A m \in DOMAIN offers[t] : m # n => offers'[t][m] = offers[t][m]
  <2>1. offers'[t] = Resolve(t, n, o, r)
    BY <1>1
  <2> QED
    BY <1>1, <2>1, ResolveFacts
<1>3. /\ tripState[t] = "MATCHING"
      /\ \A m \in Attempts(t) \ {n} : offers[t][m].status # "PENDING"
      /\ \A e \in Drivers : currentTrip[e] = t <=> e = offers[t][n].driver
  BY <1>1, PendingFacts
<1>4. Pending(t)' = {}
  BY <1>2, <1>3 DEF Pending, Attempts
<1>5. jobAsked'[t] = jobAsked[t]
  BY <1>2, AskedStays
<1>6. jobStage[t] = "held"
  BY <1>3, TripLooks DEF Pending
<1>7. offers[t][n].driver \in Drivers
  BY <1>1, OfferRowFacts
<1>8. \A e \in Drivers : Occupies(t, e) <=> e = offers[t][n].driver
  BY <1>1, <1>3 DEF RidesAgree, TripAgrees, TripWorkAgrees
<1> QED
  BY <1>3, <1>4, <1>5, <1>6, <1>7, <1>8

\* reserveNextOffer holds the Trip for the next Driver, or closes it.
LEMMA ReservingRefines ==
  ASSUME PlatformInv, PlatformInv', NEW t \in Trips, OnlyJob(t),
         tripState[t] \in {"REQUESTED", "MATCHING"},
         NEW rows, AllResolved(t, rows), NEW v, NEW evs, NEW freed, NEW event,
         ReserveNextOffer(t, rows, v, evs, freed, event)
  PROVE  [Shared!Next]_(Shared!vars)
<1>1. jobStage[t] \in {"open", "held"}
  BY TripLooks
<1>2. /\ rows \in Seq(Offers) /\ Len(rows) \in Nat /\ DOMAIN rows = 1..Len(rows)
      /\ \A m \in 1..Len(rows) : rows[m].status # "PENDING"
      /\ offers \in [Trips -> Seq(Offers)] /\ tripState \in [Trips -> TripStates]
  <2>1. rows \in Seq(Offers) /\ \A m \in 1..Len(rows) : rows[m].status # "PENDING"
    BY DEF AllResolved
  <2>2. offers \in [Trips -> Seq(Offers)] /\ tripState \in [Trips -> TripStates]
    BY DEF PlatformInv, RidesAgree, RideTypeOK
  <2> QED
    BY <2>1, <2>2
<1>3. jobAsked[t] = {rows[m].driver : m \in 1..Len(rows)}
  <2>1. DOMAIN offers[t] = 1..Len(rows)
    BY <1>2 DEF AllResolved
  <2> QED
    BY <2>1, TripLooks DEF AllResolved
<1>4. ASSUME NEW d \in Drivers, workState[d] = "AVAILABLE", d \notin jobAsked[t],
             offers'[t] = Append(rows, NewOffer(d)), tripState'[t] = "MATCHING"
      PROVE  [Shared!Next]_(Shared!vars)
  <2> DEFINE n == Len(rows) + 1
  <2>1. NewOffer(d) \in Offers /\ NewOffer(d).driver = d /\ NewOffer(d).status = "PENDING"
    BY DEF NewOffer, Offers, OfferStatuses, ReservationStatuses
  <2>2. /\ DOMAIN offers'[t] = 1..Len(rows) \cup {n}
        /\ offers'[t][n] = NewOffer(d)
        /\ \A m \in 1..Len(rows) : offers'[t][m] = rows[m]
    BY <1>2, <1>4, <2>1
  <2>3. jobStage'[t] = "held"
    BY <1>4, <2>1, <2>2, TripWillLook DEF Pending, Attempts
  <2>4. jobAsked'[t] = jobAsked[t] \cup {d}
    BY <1>3, <2>1, <2>2, TripWillLook
  <2>5. ASSUME NEW e \in Drivers PROVE Occupies(t, e)' <=> e = d
    <3>1. assignment'[t] # "ACTIVE"
      BY <1>4 DEF PlatformInv, RidesAgree, TripAgrees, TripAssignmentAgrees, UnderwayStates
    <3> QED
      BY <1>2, <2>1, <2>2, <3>1 DEF Occupies, Attempts
  <2>6. ASSUME NEW e \in Drivers PROVE Bound(e, t)' <=> e = d
    BY <2>5 DEF Bound, PlatformInv, RidesAgree, TripAgrees, TripWorkAgrees
  <2>7. jobHolder'[t] = d
    BY <2>6, HolderIsBound DEF AllJobs
  <2> QED
    BY <1>1, <1>4, <2>3, <2>4, <2>7, Holds DEF AllJobs
<1>5. ASSUME offers'[t] = rows, tripState'[t] = "NO_DRIVER_AVAILABLE"
      PROVE  [Shared!Next]_(Shared!vars)
  <2>1. jobAsked'[t] = jobAsked[t]
    BY <1>2, <1>3, <1>5, TripWillLook
  <2>2. jobStage'[t] = "closed" /\ jobHolder'[t] = NoDriver
    BY <1>5, ClosedTripIsFree DEF terminalTripStates
  <2> QED
    BY <1>1, <2>1, <2>2, Closes DEF AllJobs
<1>6. \/ /\ offers'[t] = rows /\ tripState'[t] = "NO_DRIVER_AVAILABLE"
      \/ \E d \in Drivers :
           /\ workState[d] = "AVAILABLE" /\ d \notin jobAsked[t]
           /\ offers'[t] = Append(rows, NewOffer(d)) /\ tripState'[t] = "MATCHING"
  <2>1. ASSUME NEW qualified \in SUBSET Drivers, NEW d \in Candidates(t, qualified)
        PROVE  d \in Drivers /\ workState[d] = "AVAILABLE" /\ d \notin jobAsked[t]
    BY TripLooks DEF Candidates, Attempts
  <2> QED
    BY <1>2, <2>1 DEF ReserveNextOffer
<1> QED
  BY <1>4, <1>5, <1>6

LEMMA OfferStepRefines ==
  ASSUME KindsApart, PlatformInv, NEW t \in Trips, NEW n \in Attempts(t), OfferStep(t, n),
         UNCHANGED parcelVars
  PROVE  [Shared!Next]_(Shared!vars)
<1>1. PlatformInv' /\ OnlyJob(t) /\ t \in AllJobs
  BY TripStepOnlyJob DEF TripStep, AllJobs
<1>2. RidesAgree
  BY DEF PlatformInv
<1>3. CASE AcceptInTime(t, n)
  <2>1. /\ offers[t][n].status = "PENDING"
        /\ offers' = [offers EXCEPT ![t] = Resolve(t, n, "ACCEPTED", "COMMITTED")]
        /\ "ACCEPTED" \in OfferStatuses /\ "COMMITTED" \in ReservationStatuses
    BY <1>3 DEF AcceptInTime, Answerable, OfferStatuses, ReservationStatuses
  <2>2. /\ Pending(t)' = {} /\ jobAsked'[t] = jobAsked[t] /\ jobStage[t] = "held"
        /\ \A e \in Drivers : Occupies(t, e) <=> e = offers[t][n].driver
    BY <2>1, Resolving
  <2>3. /\ assignment'[t] = "ACTIVE" /\ assignee'[t] = offers[t][n].driver
        /\ tripState'[t] = "DRIVER_TO_PICKUP"
    BY <1>2, <1>3 DEF AcceptInTime, RidesAgree, RideTypeOK
  <2>4. \A e \in Drivers : Occupies(t, e)' <=> e = offers[t][n].driver
    BY <2>2, <2>3 DEF Occupies, Pending
  <2>5. jobHolder'[t] = jobHolder[t]
    BY <1>1, <2>2, <2>4, OccupantStays
  <2>6. jobStage'[t] = "committed"
    BY <2>3, TripWillLook DEF UnderwayStates
  <2> QED
    BY <1>1, <2>2, <2>5, <2>6, Commits
<1>4. CASE AnswerLate(t, n)
  <2>1. /\ offers[t][n].status = "PENDING"
        /\ offers' = [offers EXCEPT ![t] = Resolve(t, n, "EXPIRED", "EXPIRED")]
        /\ "EXPIRED" \in OfferStatuses /\ "EXPIRED" \in ReservationStatuses
        /\ UNCHANGED <<tripState, assignment, assignee>>
    BY <1>4 DEF AnswerLate, ExpireOffer, Answerable, OfferStatuses, ReservationStatuses
  <2>2. /\ Pending(t)' = {} /\ jobAsked'[t] = jobAsked[t] /\ jobStage[t] = "held"
        /\ tripState[t] = "MATCHING"
    BY <2>1, Resolving
  <2>3. \A e \in Drivers : ~Occupies(t, e)'
    BY <1>2, <2>1, <2>2, NotUnderway DEF Occupies, Pending
  <2>4. jobHolder'[t] = NoDriver /\ jobStage'[t] = "open"
    BY <1>1, <2>1, <2>2, <2>3, NobodyOccupied, TripWillLook
  <2> QED
    BY <1>1, <2>2, <2>4, Releases
<1>5. CASE RejectInTime(t, n)
  <2>1. AllResolved(t, Resolve(t, n, "REJECTED", "RELEASED"))
    BY <1>2, <1>5, ResolvedRows, ReservationOf("REJECTED") = "RELEASED"
       DEF ReservationOf, RejectInTime, Answerable
  <2> QED
    BY <1>1, <1>5, <2>1, ReservingRefines DEF RejectInTime
<1>6. CASE ExpireDueOffer(t, n)
  <2>1. AllResolved(t, Resolve(t, n, "EXPIRED", "EXPIRED"))
    BY <1>2, <1>6, ResolvedRows, ReservationOf("EXPIRED") = "EXPIRED"
       DEF ReservationOf, ExpireDueOffer, ExpiryDue
  <2> QED
    BY <1>1, <1>6, <2>1, ReservingRefines DEF ExpireDueOffer, ExpiryDue
<1>7. CASE DeadlinePasses(t, n)
  <2>1. /\ offers \in [Trips -> Seq(Offers)] /\ n \in DOMAIN offers[t]
        /\ offers[t] \in Seq(Offers) /\ offers[t][n] \in Offers
    BY <1>2, OfferRowFacts DEF RidesAgree, RideTypeOK, Attempts
  <2> DEFINE row == [offers[t][n] EXCEPT !.late = TRUE]
  <2>2. row.status = offers[t][n].status /\ row.driver = offers[t][n].driver
    BY <2>1 DEF Offers
  <2>3. offers' = [offers EXCEPT ![t] = [offers[t] EXCEPT ![n] = row]]
    BY <1>7, <2>1 DEF DeadlinePasses
  <2> HIDE DEF row
  <2>4. /\ DOMAIN offers'[t] = DOMAIN offers[t]
        /\ \A m \in DOMAIN offers[t] : /\ offers'[t][m].status = offers[t][m].status
                                       /\ offers'[t][m].driver = offers[t][m].driver
    BY <2>1, <2>2, <2>3
  <2>5. /\ jobAsked'[t] = jobAsked[t] /\ Pending(t)' = Pending(t)
        /\ \A e \in Drivers : Occupies(t, e)' <=> Occupies(t, e)
    BY <1>7, <2>4, AskedStays DEF Pending, Occupies, Attempts, DeadlinePasses
  <2>6. jobHolder'[t] = jobHolder[t] /\ jobStage'[t] = jobStage[t]
    BY <1>1, <1>7, <2>5, OccupantStays DEF DeadlinePasses, jobStage, tripStage
  <2> QED
    BY <1>1, <2>5, <2>6, Stutters DEF Same
<1> QED
  BY <1>3, <1>4, <1>5, <1>6, <1>7 DEF OfferStep, AcceptOffer, RejectOffer

LEMMA TripStepRefines ==
  ASSUME KindsApart, PlatformInv, NEW t \in Trips, TripStep(t), UNCHANGED parcelVars
  PROVE  [Shared!Next]_(Shared!vars)
<1>1. PlatformInv' /\ OnlyJob(t) /\ t \in AllJobs
  BY TripStepOnlyJob DEF AllJobs
<1>2. /\ RidesAgree /\ tripState \in [Trips -> TripStates] /\ assignment[t] \in AssignmentStatuses
      /\ assignment \in [Trips -> AssignmentStatuses]
  BY DEF PlatformInv, RidesAgree, RideTypeOK
<1>3. CASE StartMatching(t)
  <2>1. /\ tripState[t] \in {"REQUESTED", "MATCHING"} /\ Pending(t) = {}
        /\ \E v, evs : ReserveNextOffer(t, offers[t], v, evs, {}, "dispatch.offer.created")
    BY <1>3 DEF StartMatching
  <2>2. AllResolved(t, offers[t])
    <3>1. offers[t] \in Seq(Offers)
      BY <1>2 DEF RidesAgree, RideTypeOK
    <3>2. ASSUME NEW m \in 1..Len(offers[t])
          PROVE  /\ offers[t][m].status \in {"REJECTED", "EXPIRED", "REVOKED"}
                 /\ offers[t][m].reservation = ReservationOf(offers[t][m].status)
      <4>1. m \in Attempts(t)
        BY <3>1 DEF Attempts
      <4>2. offers[t][m].status \in OfferStatuses
        BY <1>2, <4>1, OfferRowFacts DEF RidesAgree, RideTypeOK
      <4>3. offers[t][m].status \notin {"PENDING", "ACCEPTED"}
        BY <1>2, <2>1, <4>1, NotUnderway DEF Pending
      <4> QED
        BY <1>2, <4>1, <4>2, <4>3 DEF OfferStatuses, RidesAgree, TripAgrees, TripOffersAgree
    <3> QED
      BY <3>1, <3>2 DEF AllResolved
  <2> QED
    BY <1>1, <2>1, <2>2, ReservingRefines
<1>4. CASE ArriveAtPickup(t) \/ StartTrip(t)
  <2>1. /\ UNCHANGED <<offers, assignee, assignment>>
        /\ tripState[t] \in UnderwayStates /\ tripState'[t] \in UnderwayStates
    BY <1>2, <1>4 DEF ArriveAtPickup, StartTrip, AdvanceTrip, UnderwayStates
  <2>2. \A e \in Drivers : Occupies(t, e)' <=> Occupies(t, e)
    BY <2>1 DEF Occupies, Attempts
  <2>3. jobHolder'[t] = jobHolder[t] /\ jobAsked'[t] = jobAsked[t]
    BY <1>1, <2>1, <2>2, OccupantStays, AskedStays
  <2>4. jobStage'[t] = jobStage[t]
    BY <2>1, TripLooks, TripWillLook
  <2> QED
    BY <1>1, <2>3, <2>4, Stutters DEF Same
<1>5. ASSUME tripState[t] \notin terminalTripStates, tripState'[t] \in terminalTripStates,
             jobAsked'[t] = jobAsked[t]
      PROVE  [Shared!Next]_(Shared!vars)
  <2>1. jobStage[t] # "closed"
    BY <1>2, <1>5, TripLooks DEF TripStates, terminalTripStates, UnderwayStates
  <2> QED
    BY <1>1, <1>5, <2>1, ClosedTripIsFree, Closes
<1>6. CASE CompleteTrip(t) \/ CancelAssigned(t)
  <2>1. /\ UNCHANGED offers
        /\ tripState[t] \notin terminalTripStates /\ tripState'[t] \in terminalTripStates
    BY <1>2, <1>6 DEF CompleteTrip, AdvanceTrip, CancelAssigned, EndByCancellation,
       AssignedStates, terminalTripStates
  <2> QED
    BY <1>5, <2>1, AskedStays
<1>7. CASE CancelUncommitted(t)
  <2>1. tripState[t] \notin terminalTripStates /\ tripState'[t] \in terminalTripStates
    BY <1>2, <1>7 DEF CancelUncommitted, EndByCancellation, UncommittedStates, terminalTripStates
  <2>2. ASSUME NEW n \in Pending(t),
               offers' = [offers EXCEPT ![t] = Resolve(t, n, "REVOKED", "RELEASED")]
        PROVE  jobAsked'[t] = jobAsked[t]
    BY <2>2, Resolving DEF Pending, OfferStatuses, ReservationStatuses
  <2>3. jobAsked'[t] = jobAsked[t]
    BY <1>7, <2>2, AskedStays DEF CancelUncommitted
  <2> QED
    BY <1>5, <2>1, <2>3
<1> QED
  BY <1>3, <1>4, <1>6, <1>7, OfferStepRefines DEF TripStep, CancelTrip

-------------------------------------------------------------------------------
(* Delivery steps are steps of DriverCommitment *)

LEMMA ParcelStepOnlyJob ==
  ASSUME KindsApart, PlatformInv, PlatformInv', NEW v \in Deliveries, OnlyParcel(v), KeepsDuty
  PROVE  OnlyJob(v) /\ v \in AllJobs
<1>1. ASSUME NEW k \in AllJobs \ {v} PROVE Same(k)
  <2>1. CASE k \in Trips
    BY <2>1, TripStays DEF OnlyParcel, rideVars
  <2>2. CASE k \in Deliveries
    BY <1>1, <2>2, ParcelStays DEF OnlyParcel
  <2> QED
    BY <2>1, <2>2 DEF AllJobs
<1>2. driversOnDuty' = driversOnDuty
  BY DEF KeepsDuty, driversOnDuty
<1> QED
  BY <1>1, <1>2 DEF OnlyJob, AllJobs

\* Nobody is bound to a Delivery that has no pending offer and is not carried.
LEMMA ParcelHolder ==
  ASSUME KindsApart, PlatformInv', NEW v \in Deliveries
  PROVE  /\ courier'[v] \in Drivers /\ (parcelOffer'[v] = "PENDING" \/ custody'[v] = "ACTIVE") =>
              jobHolder'[v] = courier'[v]
         /\ ~(parcelOffer'[v] = "PENDING" \/ custody'[v] = "ACTIVE") => jobHolder'[v] = NoDriver
<1>1. ASSUME NEW e \in Drivers
      PROVE  Bound(e, v)' <=> /\ courier'[v] = e
                              /\ parcelOffer'[v] = "PENDING" \/ custody'[v] = "ACTIVE"
  BY DEF KindsApart, Bound, PlatformInv, ParcelWork, CarriedBy
<1> QED
  BY <1>1, HolderIsBound DEF AllJobs

LEMMA StartDeliveryMatchingRefines ==
  ASSUME KindsApart, PlatformInv, NEW v \in Deliveries, StartDeliveryMatching(v),
         UNCHANGED rideVars
  PROVE  [Shared!Next]_(Shared!vars)
<1>1. PlatformInv'
  BY StartDeliveryMatchingKeepsInv
<1>2. /\ ParcelTypeOK /\ WorkTypeOK /\ ParcelStory(v) /\ ParcelStory(v)'
      /\ deliveryState[v] = "REQUESTED" /\ courier[v] = NoDriver
  BY <1>1 DEF PlatformInv, ParcelTypeOK, ParcelStory, StartDeliveryMatching
<1>3. jobStage[v] = "open" /\ jobAsked[v] = {}
  BY <1>2, ParcelLooks
<1>4. ASSUME NEW d \in Drivers, workState[d] = "AVAILABLE", currentTrip[d] = NoTrip,
             currentDelivery[d] = NoDelivery,
             courier' = [courier EXCEPT ![v] = d],
             parcelOffer' = [parcelOffer EXCEPT ![v] = "PENDING"],
             parcelReservation' = [parcelReservation EXCEPT ![v] = "ACTIVE"],
             MoveCourier(d, "RESERVED", v), deliveryState' = [deliveryState EXCEPT ![v] = "MATCHING"],
             UNCHANGED custody
      PROVE  [Shared!Next]_(Shared!vars)
  <2>1. /\ courier'[v] = d /\ parcelOffer'[v] = "PENDING" /\ deliveryState'[v] = "MATCHING"
        /\ workState'[d] = "RESERVED" /\ currentDelivery'[d] = v
        /\ \A e \in Drivers : e # d => /\ workState'[e] = workState[e]
                                       /\ currentDelivery'[e] = currentDelivery[e]
        /\ UNCHANGED currentTrip /\ WorkTypeOK'
    BY <1>1, <1>2, <1>4 DEF ParcelTypeOK, WorkTypeOK, MoveCourier, PlatformInv
  <2>2. OnlyParcel(v) /\ KeepsDuty
    BY <1>2, <1>4, <2>1 DEF OnlyParcel, KeepsDuty, ParcelTypeOK, BusyStates
  <2>3. jobStage'[v] = "held" /\ jobHolder'[v] = d /\ jobAsked'[v] = {d}
    BY <1>1, <2>1, ParcelWillLook, ParcelHolder, NullAssumption
  <2> QED
    BY <1>1, <1>3, <1>4, <2>2, <2>3, ParcelStepOnlyJob, Holds
<1>5. ASSUME deliveryState' = [deliveryState EXCEPT ![v] = "NO_DRIVER_AVAILABLE"],
             UNCHANGED <<workVars, courier, parcelOffer, parcelReservation, custody>>
      PROVE  [Shared!Next]_(Shared!vars)
  <2>1. deliveryState'[v] = "NO_DRIVER_AVAILABLE" /\ UNCHANGED <<workState, currentTrip, currentDelivery>>
    BY <1>2, <1>5 DEF ParcelTypeOK, workVars
  <2>2. OnlyParcel(v) /\ KeepsDuty
    BY <1>1, <1>2, <1>5, <2>1 DEF OnlyParcel, KeepsDuty, ParcelTypeOK, PlatformInv
  <2>3. ~(parcelOffer'[v] = "PENDING" \/ custody'[v] = "ACTIVE")
    BY <1>2, <2>1 DEF ParcelStory, CarryingStates
  <2>4. jobStage'[v] = "closed" /\ jobHolder'[v] = NoDriver /\ jobAsked'[v] = {}
    BY <1>1, <1>2, <1>5, <2>1, <2>3, ParcelWillLook, ParcelHolder
  <2> QED
    BY <1>1, <1>3, <2>2, <2>4, ParcelStepOnlyJob, Closes
<1> QED
  BY <1>4, <1>5 DEF StartDeliveryMatching, CourierPool, MoveDelivery

\* The other steps leave the courier as it is.
LEMMA CarrierStepRefines ==
  ASSUME KindsApart, PlatformInv, NEW v \in Deliveries,
         parcelOffer[v] = "PENDING" \/ custody[v] = "ACTIVE",
         NEW s, NEW u, NEW state, NEW event, NEW o, NEW r, NEW c,
         CarrierStep(v, s, u, state, event, o, r, c), Fits(v, s, u, state, event, o, r, c),
         s # "OFFLINE",
         \/ jobStage[v] = "held" /\ state = "DRIVER_TO_PICKUP"
         \/ jobStage[v] = "committed" /\ state \in {"AT_PICKUP", "IN_TRANSIT"}
         \/ state \in {"DELIVERED", "NO_DRIVER_AVAILABLE"}
  PROVE  [Shared!Next]_(Shared!vars)
<1>1. PlatformInv'
  BY CarrierStepKeepsInv
<1>2. PICK d \in Drivers :
        /\ d = courier[v] /\ currentDelivery[d] = v /\ currentTrip[d] = NoTrip
        /\ \A e \in Drivers : currentDelivery[e] = v => e = d
        /\ workState[d] # "OFFLINE"
  BY CarrierFacts DEF CourierWork
<1>3. /\ WorkTypeOK /\ WorkTypeOK' /\ ParcelTypeOK /\ ParcelStory(v)
      /\ UNCHANGED <<courier, rideVars>>
      /\ parcelOffer'[v] = o /\ custody'[v] = c /\ deliveryState'[v] = state
  BY <1>1 DEF PlatformInv, ParcelTypeOK, CarrierStep, MoveDelivery
<1>4. /\ workState'[d] = s /\ currentDelivery'[d] = u /\ currentTrip' = currentTrip
      /\ \A e \in Drivers : e # d => /\ workState'[e] = workState[e]
                                     /\ currentDelivery'[e] = currentDelivery[e]
  BY <1>2, <1>3 DEF CarrierStep, MoveCourier, WorkTypeOK
<1>5. OnlyParcel(v) /\ KeepsDuty
  <2>1. u \in {v, NoDelivery} /\ (s \in BusyStates <=> u = v)
    BY DEF Fits
  <2>2. \A w \in Deliveries \ {v} :
          /\ deliveryState'[w] = deliveryState[w] /\ courier'[w] = courier[w]
          /\ parcelOffer'[w] = parcelOffer[w] /\ custody'[w] = custody[w]
          /\ parcelReservation'[w] = parcelReservation[w]
    BY <1>3 DEF CarrierStep, MoveDelivery, ParcelTypeOK
  <2> QED
    BY <1>2, <1>3, <1>4, <2>1, <2>2 DEF OnlyParcel, KeepsDuty
<1>6. OnlyJob(v) /\ v \in AllJobs
  BY <1>1, <1>5, ParcelStepOnlyJob
<1>7. jobAsked'[v] = jobAsked[v]
  BY <1>3, ParcelLooks, ParcelWillLook
<1>8. CASE state \in CarryingStates
  <2>1. jobStage'[v] = "committed"
    BY <1>3, <1>8, ParcelWillLook
  <2>2. c = "ACTIVE" /\ u = v
    BY <1>8 DEF Fits
  <2>3. \A e \in Drivers : Bound(e, v)' <=> Bound(e, v)
    BY <1>2, <1>4, <2>2 DEF Bound, KindsApart
  <2>4. jobHolder'[v] = jobHolder[v]
    BY <1>6, <2>3, HolderStays
  <2> QED
    BY <1>6, <1>7, <1>8, <2>1, <2>4, Commits, Stutters DEF Same, CarryingStates
<1>9. CASE state \in {"DELIVERED", "NO_DRIVER_AVAILABLE"}
  <2>1. jobStage'[v] = "closed"
    BY <1>3, <1>9, ParcelWillLook
  <2>2. o # "PENDING" /\ c # "ACTIVE"
    BY <1>9 DEF Fits, CarryingStates
  <2>3. jobHolder'[v] = NoDriver
    BY <1>1, <1>3, <2>2, ParcelHolder
  <2>4. jobStage[v] # "closed"
    <3>1. deliveryState[v] \in CarryingStates \cup {"MATCHING"}
      BY <1>3 DEF ParcelStory
    <3> QED
      BY <3>1, ParcelLooks
  <2> QED
    BY <1>6, <1>7, <2>1, <2>3, <2>4, Closes
<1> QED
  BY <1>8, <1>9 DEF CarryingStates

LEMMA CarrierMovesRefines ==
  ASSUME KindsApart, PlatformInv, NEW v \in Deliveries, CarrierMoves(v)
  PROVE  [Shared!Next]_(Shared!vars)
<1>1. PICK s, u, state, event, o, r, c :
        /\ CarrierStep(v, s, u, state, event, o, r, c)
        /\ Fits(v, s, u, state, event, o, r, c)
        /\ s # "OFFLINE" /\ Follows(deliveryState[v], state)
  BY DEF CarrierMoves
<1>2. \/ jobStage[v] = "held" /\ state = "DRIVER_TO_PICKUP"
      \/ jobStage[v] = "committed" /\ state \in {"AT_PICKUP", "IN_TRANSIT"}
      \/ state \in {"DELIVERED", "NO_DRIVER_AVAILABLE"}
  BY <1>1, ParcelLooks DEF Follows
<1>3. parcelOffer[v] = "PENDING" \/ custody[v] = "ACTIVE"
  BY DEF CarrierMoves
<1> QED
  BY <1>1, <1>2, <1>3, CarrierStepRefines

LEMMA ParcelDeadlineRefines ==
  ASSUME KindsApart, PlatformInv, NEW v \in Deliveries, ParcelDeadlinePasses(v),
         UNCHANGED rideVars
  PROVE  [Shared!Next]_(Shared!vars)
<1>1. PlatformInv' /\ ParcelTypeOK'
  BY ParcelDeadlineKeepsInv DEF PlatformInv
<1>2. UNCHANGED <<workState, currentTrip, currentDelivery, deliveryState, deliveryVersion,
                  courier, parcelOffer, parcelReservation, custody, parcelOutbox>>
  BY DEF ParcelDeadlinePasses, workVars
<1>3. OnlyParcel(v) /\ KeepsDuty
  BY <1>1, <1>2 DEF OnlyParcel, KeepsDuty, ParcelTypeOK
<1>4. Same(v)
  BY <1>1, <1>2, ParcelStays
<1> QED
  BY <1>1, <1>3, <1>4, ParcelStepOnlyJob, Stutters

-------------------------------------------------------------------------------
(* Work states and initial states *)

\* Every job looks as before.
AllSame == \A k \in AllJobs : Same(k)

LEMMA NothingChanged ==
  ASSUME AllSame
  PROVE  UNCHANGED <<jobStage, jobHolder, jobAsked>>
  BY JobFunctions DEF AllSame, Same

LEMMA RowsUnchanged ==
  ASSUME KindsApart, PlatformInv, PlatformInv', UNCHANGED <<rideVars, parcelVars>>
  PROVE  AllSame
<1>1. ASSUME NEW t \in Trips PROVE Same(t)
  BY TripStays DEF rideVars
<1>2. ASSUME NEW v \in Deliveries PROVE Same(v)
  BY ParcelStays DEF parcelVars
<1> QED
  BY <1>1, <1>2 DEF AllSame, AllJobs

LEMMA ChooseWorkStateRefines ==
  ASSUME KindsApart, PlatformInv, NEW d \in Drivers, ChooseWorkState(d), UNCHANGED parcelVars
  PROVE  [Shared!Next]_(Shared!vars)
<1>1. PlatformInv'
  BY RideStepKeepsInv DEF DispatchNext
<1>2. UNCHANGED <<jobStage, jobHolder, jobAsked>>
  BY <1>1, RowsUnchanged, NothingChanged DEF ChooseWorkState
<1>3. Shared!Free(d)
  BY IdleIsFree DEF ChooseWorkState, SetWorkState, Shared!Free, AllJobs
<1>4. \A e \in Drivers : e # d => workState'[e] = workState[e]
  BY DEF ChooseWorkState, SetWorkState, PlatformInv, ParcelTypeOK, WorkTypeOK
<1>5. driversOnDuty' \in {driversOnDuty \cup {d}, driversOnDuty \ {d}}
  BY <1>4 DEF driversOnDuty
<1>6. Shared!ChangeDuty(d)
  BY <1>2, <1>3, <1>5 DEF Shared!ChangeDuty
<1> QED
  BY <1>6 DEF Shared!Next

LEMMA PlatformInitRefines == PlatformInit => Shared!Init
<1> SUFFICES ASSUME PlatformInit PROVE Shared!Init
  OBVIOUS
<1>1. /\ workState = [d \in Drivers |-> "OFFLINE"]
      /\ currentTrip = [d \in Drivers |-> NoTrip]
      /\ currentDelivery = [d \in Drivers |-> NoDelivery]
      /\ tripState = [t \in Trips |-> "REQUESTED"]
      /\ offers = [t \in Trips |-> <<>>]
      /\ deliveryState = [v \in Deliveries |-> "REQUESTED"]
      /\ courier = [v \in Deliveries |-> NoDriver]
  BY DEF PlatformInit, DispatchInit, WorkInit, RideTablesInit, ParcelTablesInit
<1>2. driversOnDuty = {}
  BY <1>1 DEF driversOnDuty
<1>3. jobStage = [j \in AllJobs |-> "open"]
  <2>1. ASSUME NEW t \in Trips PROVE Pending(t) = {}
    BY <1>1 DEF Pending, Attempts
  <2>2. ASSUME NEW j \in AllJobs PROVE jobStage[j] = "open"
    BY <1>1, <2>1 DEF AllJobs, jobStage, tripStage, terminalTripStates, UnderwayStates,
       ClosedDeliveryStates, CarryingStates
  <2> QED
    BY <2>2, JobFunctions
<1>4. jobHolder = [j \in AllJobs |-> NoDriver]
  <2>1. ASSUME NEW j \in AllJobs, NEW e \in Drivers PROVE ~Bound(e, j)
    BY <1>1, NullAssumption DEF Bound, AllJobs
  <2>2. ASSUME NEW j \in AllJobs PROVE jobHolder[j] = NoDriver
    BY <2>1, HolderIsBound
  <2> QED
    BY <2>2, JobFunctions
<1>5. jobAsked = [j \in AllJobs |-> {}]
  <2>1. ASSUME NEW j \in AllJobs PROVE jobAsked[j] = {}
    BY <1>1 DEF AllJobs, jobAsked, tripAsked, Attempts
  <2> QED
    BY <2>1, JobFunctions
<1> QED
  BY <1>2, <1>3, <1>4, <1>5 DEF Shared!Init, AllJobs

LEMMA PlatformStepRefines ==
  ASSUME KindsApart, PlatformInv, PlatformInv', [PlatformNext]_platformVars
  PROVE  [Shared!Next]_(Shared!vars)
<1>1. CASE DispatchNext /\ UNCHANGED parcelVars
  BY <1>1, ChooseWorkStateRefines, TripStepRefines DEF DispatchNext
<1>2. ASSUME NEW v \in Deliveries, DeliveryStep(v), UNCHANGED rideVars
      PROVE  [Shared!Next]_(Shared!vars)
  BY <1>2, StartDeliveryMatchingRefines, AcceptDeliveryMoves, AdvanceDeliveryMoves,
     ExpireDueDeliveryMoves, CarrierMovesRefines, ParcelDeadlineRefines DEF DeliveryStep
<1>3. CASE UNCHANGED platformVars
  <2>1. UNCHANGED <<rideVars, parcelVars>> /\ UNCHANGED workState
    BY <1>3 DEF platformVars, dispatchVars, workVars, rideVars
  <2>2. UNCHANGED <<jobStage, jobHolder, jobAsked>>
    BY <2>1, RowsUnchanged, NothingChanged
  <2>3. driversOnDuty' = driversOnDuty
    BY <2>1 DEF driversOnDuty
  <2> QED
    BY <2>2, <2>3 DEF Shared!vars
<1> QED
  BY <1>1, <1>2, <1>3 DEF PlatformNext

\* Rides and Deliveries together implement DriverCommitment over the union of
\* their jobs: every handler of either module holds one job for a Driver who has
\* none, commits, releases or closes it, or changes nothing that is seen there,
\* although neither module reads the other's tables.
THEOREM PlatformRefinesCommitment ==
  ASSUME KindsApart
  PROVE  PlatformSpec => ImplementsSharedCommitment
<1>1. PlatformInv /\ PlatformInv' /\ [PlatformNext]_platformVars => [Shared!Next]_(Shared!vars)
  BY PlatformStepRefines
<1> QED
  BY <1>1, PlatformInitRefines, PlatformInvAlways, PTL
     DEF PlatformSpec, ImplementsSharedCommitment, Shared!Spec

===============================================================================
