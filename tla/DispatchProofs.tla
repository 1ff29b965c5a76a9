---------------------------- MODULE DispatchProofs ----------------------------
(***************************************************************************)
(* Proofs about ride dispatch, for any number of Drivers, Trips and offer  *)
(* attempts.                                                               *)
(***************************************************************************)
EXTENDS DispatchProperties, TLAPS

(* Operators the handlers are built from *)

\* What the type of the offers table says of one row.
LEMMA OfferRowFacts ==
  ASSUME offers \in [Trips -> Seq(Offers)], NEW t \in Trips, NEW n \in Attempts(t)
  PROVE  /\ n \in 1..Len(offers[t])
         /\ offers[t][n] \in Offers
         /\ offers[t][n].driver \in Drivers
         /\ offers[t][n].status \in OfferStatuses
         /\ offers[t][n].reservation \in ReservationStatuses
         /\ offers[t][n].late \in BOOLEAN
  <1>1. offers[t] \in Seq(Offers) /\ n \in DOMAIN offers[t]
    BY DEF Attempts
  <1>2. n \in 1..Len(offers[t]) /\ offers[t][n] \in Offers
    BY <1>1
  <1> QED
    BY <1>2 DEF Offers

\* Resolving one attempt of a well-typed list of offers gives such a list, of
\* the same length, that differs in that attempt's two statuses only.
LEMMA ResolveFacts ==
  ASSUME offers \in [Trips -> Seq(Offers)],
         NEW t \in Trips, NEW n \in DOMAIN offers[t],
         NEW o \in OfferStatuses, NEW r \in ReservationStatuses
  PROVE  /\ Resolve(t, n, o, r) \in Seq(Offers)
         /\ Len(Resolve(t, n, o, r)) = Len(offers[t])
         /\ DOMAIN Resolve(t, n, o, r) = DOMAIN offers[t]
         /\ Resolve(t, n, o, r)[n].driver = offers[t][n].driver
         /\ Resolve(t, n, o, r)[n].status = o
         /\ Resolve(t, n, o, r)[n].reservation = r
         /\ \A m \in DOMAIN offers[t] : m # n => Resolve(t, n, o, r)[m] = offers[t][m]
  <1> DEFINE row == [offers[t][n] EXCEPT !.status = o, !.reservation = r]
  <1>1. offers[t] \in Seq(Offers) /\ offers[t][n] \in Offers
    OBVIOUS
  <1>2. row \in Offers /\ row.driver = offers[t][n].driver
        /\ row.status = o /\ row.reservation = r
    BY <1>1 DEF Offers
  <1>3. Resolve(t, n, o, r) = [offers[t] EXCEPT ![n] = row]
    BY <1>1 DEF Resolve, Offers
  <1> HIDE DEF row
  <1> QED
    BY <1>1, <1>2, <1>3

-------------------------------------------------------------------------------
(* The type invariant *)

\* A Publish of well-typed events keeps the outbox well-typed.
LEMMA PublishType ==
  ASSUME outbox \in [Trips -> SUBSET (Nat \X EventTypes)],
         NEW t \in Trips, NEW evs \in SUBSET (Nat \X EventTypes), Publish(t, evs)
  PROVE  outbox' \in [Trips -> SUBSET (Nat \X EventTypes)]
  BY DEF Publish

\* reserveNextOffer with its callers' follow-up keeps every table it writes
\* well-typed, given well-typed arguments.
LEMMA ReserveNextOfferType ==
  ASSUME RideTypeOK,
         NEW t \in Trips, NEW rows \in Seq(Offers), NEW v \in Nat,
         NEW evs \in SUBSET (Nat \X EventTypes), NEW freed \in SUBSET Drivers,
         NEW event \in EventTypes,
         ReserveNextOffer(t, rows, v, evs, freed, event),
         UNCHANGED <<currentDelivery, assignee, assignment>>
  PROVE  RideTypeOK'
  <1> DEFINE released == [d \in Drivers |->
                            IF d \in freed THEN "AVAILABLE" ELSE workState[d]]
             unbound == [d \in Drivers |->
                            IF d \in freed THEN NoTrip ELSE currentTrip[d]]
  <1>1. /\ released \in [Drivers -> WorkStates]
        /\ unbound \in [Drivers -> Trips \cup {NoTrip}]
    BY DEF RideTypeOK, WorkTypeOK, WorkStates, IdleStates
  <1>2. "trip.no_driver_available" \in EventTypes
    BY DEF EventTypes
  <1>3. PICK qualified \in SUBSET Drivers :
          \/ \E d \in Candidates(t, qualified) :
               /\ offers' = [offers EXCEPT ![t] = Append(rows, NewOffer(d))]
               /\ tripState' = [tripState EXCEPT ![t] = "MATCHING"]
               /\ version' = [version EXCEPT ![t] = v]
               /\ Publish(t, evs \cup {<<v, event>>})
               /\ workState' = [released EXCEPT ![d] = "RESERVED"]
               /\ currentTrip' = [unbound EXCEPT ![d] = t]
          \/ /\ offers' = [offers EXCEPT ![t] = rows]
             /\ tripState' = [tripState EXCEPT ![t] = "NO_DRIVER_AVAILABLE"]
             /\ version' = [version EXCEPT ![t] = v + 1]
             /\ Publish(t, evs \cup {<<v + 1, "trip.no_driver_available">>})
             /\ workState' = released
             /\ currentTrip' = unbound
    BY DEF ReserveNextOffer
  <1> HIDE DEF released, unbound
  <1>4. CASE \E d \in Candidates(t, qualified) :
               /\ offers' = [offers EXCEPT ![t] = Append(rows, NewOffer(d))]
               /\ tripState' = [tripState EXCEPT ![t] = "MATCHING"]
               /\ version' = [version EXCEPT ![t] = v]
               /\ Publish(t, evs \cup {<<v, event>>})
               /\ workState' = [released EXCEPT ![d] = "RESERVED"]
               /\ currentTrip' = [unbound EXCEPT ![d] = t]
    <2>1. PICK d \in Candidates(t, qualified) :
               /\ offers' = [offers EXCEPT ![t] = Append(rows, NewOffer(d))]
               /\ tripState' = [tripState EXCEPT ![t] = "MATCHING"]
               /\ version' = [version EXCEPT ![t] = v]
               /\ Publish(t, evs \cup {<<v, event>>})
               /\ workState' = [released EXCEPT ![d] = "RESERVED"]
               /\ currentTrip' = [unbound EXCEPT ![d] = t]
      BY <1>4
    <2>2. d \in Drivers /\ NewOffer(d) \in Offers
      BY DEF Candidates, NewOffer, Offers, OfferStatuses, ReservationStatuses
    <2>3. outbox' \in [Trips -> SUBSET (Nat \X EventTypes)]
      BY <2>1, PublishType, evs \cup {<<v, event>>} \in SUBSET (Nat \X EventTypes)
         DEF RideTypeOK
    <2>4. offers' \in [Trips -> Seq(Offers)]
      BY <2>1, <2>2, Append(rows, NewOffer(d)) \in Seq(Offers) DEF RideTypeOK
    <2>5. WorkTypeOK'
      BY <1>1, <2>1, <2>2 DEF RideTypeOK, WorkTypeOK, WorkStates, BusyStates
    <2> QED
      BY <2>1, <2>3, <2>4, <2>5 DEF RideTypeOK, TripStates
  <1>5. CASE /\ offers' = [offers EXCEPT ![t] = rows]
             /\ tripState' = [tripState EXCEPT ![t] = "NO_DRIVER_AVAILABLE"]
             /\ version' = [version EXCEPT ![t] = v + 1]
             /\ Publish(t, evs \cup {<<v + 1, "trip.no_driver_available">>})
             /\ workState' = released
             /\ currentTrip' = unbound
    <2>1. outbox' \in [Trips -> SUBSET (Nat \X EventTypes)]
      BY <1>2, <1>5, PublishType,
         evs \cup {<<v + 1, "trip.no_driver_available">>} \in SUBSET (Nat \X EventTypes)
         DEF RideTypeOK
    <2>2. WorkTypeOK'
      BY <1>1, <1>5 DEF RideTypeOK, WorkTypeOK
    <2>3. /\ tripState' \in [Trips -> TripStates]
          /\ version' \in [Trips -> Nat]
          /\ offers' \in [Trips -> Seq(Offers)]
      BY <1>5 DEF RideTypeOK, TripStates
    <2> QED
      BY <2>1, <2>2, <2>3 DEF RideTypeOK
  <1> QED
    BY <1>3, <1>4, <1>5

\* The one-row UPDATE of a Driver keeps the Driver table well-typed.
LEMMA MoveDriverType ==
  ASSUME WorkTypeOK, NEW d \in Drivers, NEW s \in WorkStates,
         NEW t \in Trips \cup {NoTrip}, MoveDriver(d, s, t)
  PROVE  WorkTypeOK'
  BY DEF WorkTypeOK, MoveDriver

LEMMA StartMatchingType ==
  ASSUME RideTypeOK, NEW t \in Trips, StartMatching(t)
  PROVE  RideTypeOK'
  <1> DEFINE first == tripState[t] = "REQUESTED"
             v == IF first THEN version[t] + 1 ELSE version[t]
             evs == IF first THEN {<<v, "trip.matching.started">>} ELSE {}
  <1>1. ReserveNextOffer(t, offers[t], v, evs, {}, "dispatch.offer.created")
    BY DEF StartMatching
  <1>2. v \in Nat /\ offers[t] \in Seq(Offers)
    BY DEF RideTypeOK
  <1>3. evs \in SUBSET (Nat \X EventTypes) /\ "dispatch.offer.created" \in EventTypes
    BY <1>2 DEF EventTypes
  <1>4. UNCHANGED <<currentDelivery, assignee, assignment>>
    BY DEF StartMatching
  <1> HIDE DEF v, evs
  <1> QED
    BY <1>1, <1>2, <1>3, <1>4, ReserveNextOfferType

LEMMA AcceptInTimeType ==
  ASSUME RideTypeOK, NEW t \in Trips, NEW n \in Attempts(t), AcceptInTime(t, n)
  PROVE  RideTypeOK'
  <1>1. offers[t][n].driver \in Drivers
    BY OfferRowFacts DEF RideTypeOK
  <1>2. Resolve(t, n, "ACCEPTED", "COMMITTED") \in Seq(Offers)
    BY ResolveFacts DEF RideTypeOK, Attempts, OfferStatuses, ReservationStatuses
  <1>3. WorkTypeOK'
    BY <1>1, MoveDriverType DEF AcceptInTime, RideTypeOK, WorkStates, BusyStates
  <1>4. outbox' \in [Trips -> SUBSET (Nat \X EventTypes)]
    <2>1. {<<version[t] + 1, "trip.driver.assigned">>} \in SUBSET (Nat \X EventTypes)
      BY DEF RideTypeOK, EventTypes
    <2> QED
      BY <2>1, PublishType DEF AcceptInTime, RideTypeOK
  <1>5. offers' \in [Trips -> Seq(Offers)]
    BY <1>2 DEF AcceptInTime, RideTypeOK
  <1>6. /\ tripState' \in [Trips -> TripStates]
        /\ version' \in [Trips -> Nat]
    BY DEF AcceptInTime, RideTypeOK, TripStates
  <1>7. /\ assignee' \in [Trips -> Drivers \cup {NoDriver}]
        /\ assignment' \in [Trips -> AssignmentStatuses]
    BY <1>1 DEF AcceptInTime, RideTypeOK, AssignmentStatuses
  <1> QED
    BY <1>3, <1>4, <1>5, <1>6, <1>7 DEF RideTypeOK

LEMMA AnswerLateType ==
  ASSUME RideTypeOK, NEW t \in Trips, NEW n \in Attempts(t), AnswerLate(t, n)
  PROVE  RideTypeOK'
  <1>1. offers[t][n].driver \in Drivers
    BY OfferRowFacts DEF RideTypeOK
  <1>2. Resolve(t, n, "EXPIRED", "EXPIRED") \in Seq(Offers)
    BY ResolveFacts DEF RideTypeOK, Attempts, OfferStatuses, ReservationStatuses
  <1>3. offers' \in [Trips -> Seq(Offers)]
    BY <1>2 DEF AnswerLate, ExpireOffer, RideTypeOK
  <1>4. WorkTypeOK'
    <2>1. CASE UNCHANGED workVars
      BY <2>1 DEF RideTypeOK, WorkTypeOK, workVars
    <2>2. CASE MoveDriver(offers[t][n].driver, "AVAILABLE", NoTrip)
      BY <1>1, <2>2, MoveDriverType DEF RideTypeOK, WorkStates, IdleStates
    <2> QED
      BY <2>1, <2>2 DEF AnswerLate, ExpireOffer
  <1> QED
    BY <1>3, <1>4 DEF AnswerLate, RideTypeOK

LEMMA RejectInTimeType ==
  ASSUME RideTypeOK, NEW t \in Trips, NEW n \in Attempts(t), RejectInTime(t, n)
  PROVE  RideTypeOK'
  <1> DEFINE rows == Resolve(t, n, "REJECTED", "RELEASED")
             v == version[t] + 1
             evs == {<<v, "dispatch.offer.rejected">>}
             freed == {offers[t][n].driver}
  <1>1. ReserveNextOffer(t, rows, v, evs, freed, "dispatch.offer.reassigned")
    BY DEF RejectInTime
  <1>2. rows \in Seq(Offers)
    BY ResolveFacts DEF RideTypeOK, Attempts, OfferStatuses, ReservationStatuses
  <1>3. v \in Nat /\ freed \in SUBSET Drivers
    BY OfferRowFacts DEF RideTypeOK
  <1>4. evs \in SUBSET (Nat \X EventTypes) /\ "dispatch.offer.reassigned" \in EventTypes
    BY <1>3 DEF EventTypes
  <1>5. UNCHANGED <<currentDelivery, assignee, assignment>>
    BY DEF RejectInTime
  <1> HIDE DEF rows, v, evs, freed
  <1> QED
    BY <1>1, <1>2, <1>3, <1>4, <1>5, ReserveNextOfferType

LEMMA ExpireDueOfferType ==
  ASSUME RideTypeOK, NEW t \in Trips, NEW n \in Attempts(t), ExpireDueOffer(t, n)
  PROVE  RideTypeOK'
  <1> DEFINE rows == Resolve(t, n, "EXPIRED", "EXPIRED")
             v == version[t] + 1
             evs == {<<v, "dispatch.offer.expired">>}
             freed == {e \in {offers[t][n].driver} :
                         workState[e] = "RESERVED" /\ currentTrip[e] = t}
  <1>1. ReserveNextOffer(t, rows, v, evs, freed, "dispatch.offer.reassigned")
    BY DEF ExpireDueOffer
  <1>2. rows \in Seq(Offers)
    BY ResolveFacts DEF RideTypeOK, Attempts, OfferStatuses, ReservationStatuses
  <1>3. v \in Nat /\ freed \in SUBSET Drivers
    BY OfferRowFacts DEF RideTypeOK
  <1>4. evs \in SUBSET (Nat \X EventTypes) /\ "dispatch.offer.reassigned" \in EventTypes
    BY <1>3 DEF EventTypes
  <1>5. UNCHANGED <<currentDelivery, assignee, assignment>>
    BY DEF ExpireDueOffer
  <1> HIDE DEF rows, v, evs, freed
  <1> QED
    BY <1>1, <1>2, <1>3, <1>4, <1>5, ReserveNextOfferType

LEMMA AdvanceTripType ==
  ASSUME RideTypeOK, NEW t \in Trips, NEW from \in TripStates, NEW to \in TripStates,
         NEW workFrom \in BusyStates, NEW workTo \in WorkStates,
         NEW event \in EventTypes,
         AdvanceTrip(t, from, to, workFrom, workTo, event)
  PROVE  RideTypeOK'
  <1>1. assignee[t] \in Drivers \cup {NoDriver} /\ version[t] + 1 \in Nat
    BY DEF RideTypeOK
  <1>2. outbox' \in [Trips -> SUBSET (Nat \X EventTypes)]
    <2>1. {<<version[t] + 1, event>>} \in SUBSET (Nat \X EventTypes)
      BY <1>1
    <2> QED
      BY <2>1, PublishType DEF AdvanceTrip, RideTypeOK
  <1>3. /\ tripState' \in [Trips -> TripStates]
        /\ version' \in [Trips -> Nat]
        /\ offers' \in [Trips -> Seq(Offers)]
        /\ assignee' \in [Trips -> Drivers \cup {NoDriver}]
    BY <1>1 DEF AdvanceTrip, RideTypeOK
  <1>4. CASE to = "COMPLETED"
    <2>1. WorkTypeOK'
      BY <1>4 DEF AdvanceTrip, RideTypeOK, WorkTypeOK, MoveDriver
    <2>2. assignment' \in [Trips -> AssignmentStatuses]
      BY <1>4 DEF AdvanceTrip, RideTypeOK, ResolveAssignment, AssignmentStatuses
    <2> QED
      BY <1>2, <1>3, <2>1, <2>2 DEF RideTypeOK
  <1>5. CASE to # "COMPLETED"
    <2>1. WorkTypeOK'
      BY <1>5 DEF AdvanceTrip, RideTypeOK, WorkTypeOK, MoveDriver
    <2>2. assignment' \in [Trips -> AssignmentStatuses]
      BY <1>5 DEF AdvanceTrip, RideTypeOK
    <2> QED
      BY <1>2, <1>3, <2>1, <2>2 DEF RideTypeOK
  <1> QED
    BY <1>4, <1>5

LEMMA EndByCancellationType ==
  ASSUME RideTypeOK, NEW t \in Trips, EndByCancellation(t)
  PROVE  /\ tripState' \in [Trips -> TripStates]
         /\ version' \in [Trips -> Nat]
         /\ outbox' \in [Trips -> SUBSET (Nat \X EventTypes)]
         /\ assignee' \in [Trips -> Drivers \cup {NoDriver}]
  <1>1. {<<version[t] + 1, "trip.cancelled">>} \in SUBSET (Nat \X EventTypes)
    BY DEF RideTypeOK, EventTypes
  <1>2. outbox' \in [Trips -> SUBSET (Nat \X EventTypes)]
    BY <1>1, PublishType DEF EndByCancellation, RideTypeOK
  <1>3. /\ tripState' \in [Trips -> TripStates]
        /\ version' \in [Trips -> Nat]
    BY DEF EndByCancellation, RideTypeOK, TripStates
  <1> QED
    BY <1>2, <1>3 DEF EndByCancellation, RideTypeOK

LEMMA CancelUncommittedType ==
  ASSUME RideTypeOK, NEW t \in Trips, CancelUncommitted(t)
  PROVE  RideTypeOK'
  <1>1. offers' \in [Trips -> Seq(Offers)] /\ WorkTypeOK'
    <2>1. CASE UNCHANGED <<offers, workVars>>
      BY <2>1 DEF RideTypeOK, WorkTypeOK, workVars
    <2>2. CASE tripState[t] = "MATCHING" /\ Pending(t) # {}
      <3>1. PICK n \in Pending(t) :
              /\ offers' = [offers EXCEPT ![t] = Resolve(t, n, "REVOKED", "RELEASED")]
              /\ MoveDriver(offers[t][n].driver, "AVAILABLE", NoTrip)
        BY <2>2 DEF CancelUncommitted
      <3>2. n \in DOMAIN offers[t]
        BY DEF Pending, Attempts
      <3>3. Resolve(t, n, "REVOKED", "RELEASED") \in Seq(Offers)
        BY <3>2, ResolveFacts DEF RideTypeOK, OfferStatuses, ReservationStatuses
      <3>4. offers[t][n].driver \in Drivers
        BY <3>2, OfferRowFacts DEF RideTypeOK, Attempts
      <3> QED
        BY <3>1, <3>3, <3>4, MoveDriverType DEF RideTypeOK, WorkStates, IdleStates
    <2> QED
      BY <2>1, <2>2 DEF CancelUncommitted
  <1>2. assignment' \in [Trips -> AssignmentStatuses]
    BY DEF CancelUncommitted, RideTypeOK
  <1> QED
    BY <1>1, <1>2, EndByCancellationType DEF CancelUncommitted, RideTypeOK

LEMMA CancelAssignedType ==
  ASSUME RideTypeOK, NEW t \in Trips, CancelAssigned(t)
  PROVE  RideTypeOK'
  <1>1. WorkTypeOK'
    BY DEF CancelAssigned, MoveDriver, RideTypeOK, WorkTypeOK, WorkStates, IdleStates
  <1>2. assignment' \in [Trips -> AssignmentStatuses]
    BY DEF CancelAssigned, RideTypeOK, ResolveAssignment, AssignmentStatuses
  <1>3. offers' \in [Trips -> Seq(Offers)]
    BY DEF CancelAssigned, RideTypeOK
  <1> QED
    BY <1>1, <1>2, <1>3, EndByCancellationType DEF CancelAssigned, RideTypeOK

LEMMA DeadlinePassesType ==
  ASSUME RideTypeOK, NEW t \in Trips, NEW n \in Attempts(t), DeadlinePasses(t, n)
  PROVE  RideTypeOK'
  <1>1. offers[t] \in Seq(Offers) /\ n \in DOMAIN offers[t] /\ offers[t][n] \in Offers
    BY DEF RideTypeOK, Attempts
  <1>2. [offers[t][n] EXCEPT !.late = TRUE] \in Offers
    BY <1>1 DEF Offers
  <1>3. [offers[t] EXCEPT ![n] = [offers[t][n] EXCEPT !.late = TRUE]] \in Seq(Offers)
    BY <1>1, <1>2
  <1>4. offers' \in [Trips -> Seq(Offers)]
    BY <1>3 DEF DeadlinePasses, RideTypeOK
  <1>5. WorkTypeOK'
    BY DEF DeadlinePasses, RideTypeOK, WorkTypeOK, workVars
  <1> QED
    BY <1>4, <1>5 DEF DeadlinePasses, RideTypeOK

LEMMA RideTypeStep ==
  ASSUME RideTypeOK, [DispatchNext]_dispatchVars
  PROVE  RideTypeOK'
  <1>1. ASSUME NEW d \in Drivers, ChooseWorkState(d)
        PROVE  RideTypeOK'
    BY <1>1 DEF ChooseWorkState, SetWorkState, rideVars, RideTypeOK, WorkTypeOK, WorkStates
  <1>2. ASSUME NEW t \in Trips, StartMatching(t)
        PROVE  RideTypeOK'
    BY <1>2, StartMatchingType
  <1>3. ASSUME NEW t \in Trips, ArriveAtPickup(t) \/ StartTrip(t) \/ CompleteTrip(t)
        PROVE  RideTypeOK'
    BY <1>3, AdvanceTripType DEF ArriveAtPickup, StartTrip, CompleteTrip,
       TripStates, WorkStates, BusyStates, IdleStates, EventTypes
  <1>4. ASSUME NEW t \in Trips, CancelTrip(t)
        PROVE  RideTypeOK'
    BY <1>4, CancelUncommittedType, CancelAssignedType DEF CancelTrip
  <1>5. ASSUME NEW t \in Trips, NEW n \in Attempts(t), OfferStep(t, n)
        PROVE  RideTypeOK'
    BY <1>5, AcceptInTimeType, AnswerLateType, RejectInTimeType,
       DeadlinePassesType, ExpireDueOfferType DEF OfferStep, AcceptOffer, RejectOffer
  <1>6. ASSUME UNCHANGED dispatchVars
        PROVE  RideTypeOK'
    BY <1>6 DEF dispatchVars, workVars, rideVars, RideTypeOK, WorkTypeOK
  <1> QED
    BY <1>1, <1>2, <1>3, <1>4, <1>5, <1>6 DEF DispatchNext, TripStep

\* Every table keeps its type in every execution: workers and commands write
\* only states, statuses, versions and events the schema's CHECKs allow.
THEOREM RideTypes == DispatchSpec => []RideTypeOK
  <1>1. DispatchInit => RideTypeOK
    BY DEF DispatchInit, WorkInit, RideTablesInit, RideTypeOK, WorkTypeOK, WorkStates,
       IdleStates, TripStates, AssignmentStatuses, EventTypes
  <1>2. RideTypeOK /\ [DispatchNext]_dispatchVars => RideTypeOK'
    BY RideTypeStep
  <1> QED
    BY <1>1, <1>2, PTL DEF DispatchSpec

-------------------------------------------------------------------------------
(* The tables of ride dispatch always agree.  None of OffersAgree,         *)
(* AssignmentAgrees and WorkAgrees is inductive by itself: a handler       *)
(* trusts what it reads of one table to write another.  Together with the  *)
(* types they are.                                                         *)

\* All that is said of one Trip.
TripAgrees(t) ==
  /\ TripOffersAgree(t)
  /\ TripAssignmentAgrees(t)
  /\ TripWorkAgrees(t)

RidesAgree ==
  /\ RideTypeOK
  /\ \A t \in Trips : TripAgrees(t)
  /\ \A d \in Drivers : WorkBound(d)

\* A step that writes the rows of Trip t only, and of Drivers that are bound to
\* t or to no Trip, before and after.
OnlyTrip(t) ==
  /\ \A u \in Trips \ {t} :
       /\ tripState'[u] = tripState[u]
       /\ offers'[u] = offers[u]
       /\ assignee'[u] = assignee[u]
       /\ assignment'[u] = assignment[u]
  /\ \A d \in Drivers :
       \/ workState'[d] = workState[d] /\ currentTrip'[d] = currentTrip[d]
       \/ currentTrip[d] \in {t, NoTrip} /\ currentTrip'[d] \in {t, NoTrip}

\* Such a step leaves what holds of every other Trip alone.
LEMMA OtherTripsAgree ==
  ASSUME NEW t \in Trips, NEW u \in Trips \ {t}, OnlyTrip(t), TripAgrees(u)
  PROVE  TripAgrees(u)'
  <1>1. TripOffersAgree(u)'
    BY DEF OnlyTrip, TripAgrees, TripOffersAgree, Attempts
  <1>2. TripAssignmentAgrees(u)'
    BY DEF OnlyTrip, TripAgrees, TripAssignmentAgrees, Attempts
  <1>3. TripWorkAgrees(u)'
    <2>1. ASSUME NEW d \in Drivers
          PROVE  Occupies(u, d)' <=> Occupies(u, d)
      BY DEF OnlyTrip, Occupies, Attempts
    <2>2. WorkFor(u)' = WorkFor(u)
      BY DEF OnlyTrip, WorkFor
    <2>3. ASSUME NEW d \in Drivers
          PROVE  /\ currentTrip'[d] = u <=> currentTrip[d] = u
                 /\ currentTrip[d] = u => workState'[d] = workState[d]
      BY NullAssumption DEF OnlyTrip
    <2> QED
      BY <2>1, <2>2, <2>3 DEF TripAgrees, TripWorkAgrees
  <1> QED
    BY <1>1, <1>2, <1>3 DEF TripAgrees

\* So it is enough to look at the Trip a step is about.
LEMMA OneTripAtATime ==
  ASSUME RidesAgree, RideTypeOK', NEW t \in Trips, OnlyTrip(t), TripAgrees(t)',
         \A d \in Drivers : WorkBound(d)'
  PROVE  RidesAgree'
  BY OtherTripsAgree DEF RidesAgree

-------------------------------------------------------------------------------
(* What the invariant says of a Trip with, or without, a pending offer *)

LEMMA NotUnderway ==
  ASSUME RidesAgree, NEW t \in Trips, tripState[t] \in {"REQUESTED", "MATCHING"}
  PROVE  /\ assignment[t] = "NONE"
         /\ assignee[t] = NoDriver
         /\ \A m \in Attempts(t) : offers[t][m].status # "ACCEPTED"
  <1>1. assignment[t] \in AssignmentStatuses /\ TripAssignmentAgrees(t)
    BY DEF RidesAgree, RideTypeOK, TripAgrees
  <1>2. assignment[t] = "NONE"
    BY <1>1 DEF AssignmentStatuses, TripAssignmentAgrees, UnderwayStates
  <1>3. assignee[t] = NoDriver
    BY <1>1, <1>2 DEF TripAssignmentAgrees
  <1>4. ASSUME NEW m \in Attempts(t) PROVE offers[t][m].status # "ACCEPTED"
    <2>1. offers[t][m].driver \in Drivers
      BY <1>4, OfferRowFacts DEF RidesAgree, RideTypeOK
    <2> QED
      BY <1>1, <1>3, <2>1, NullAssumption DEF TripAssignmentAgrees
  <1> QED
    BY <1>2, <1>3, <1>4

LEMMA PendingFacts ==
  ASSUME RidesAgree, NEW t \in Trips, NEW n \in Attempts(t),
         offers[t][n].status = "PENDING"
  PROVE  /\ tripState[t] = "MATCHING"
         /\ n = Len(offers[t])
         /\ offers[t][n].reservation = "ACTIVE"
         /\ \A m \in Attempts(t) \ {n} :
              offers[t][m].status \in {"REJECTED", "EXPIRED", "REVOKED"}
         /\ \A e \in Drivers : currentTrip[e] = t <=> e = offers[t][n].driver
         /\ workState[offers[t][n].driver] = "RESERVED"
         /\ currentTrip[offers[t][n].driver] = t
         /\ currentDelivery[offers[t][n].driver] = NoDelivery
  <1> DEFINE d == offers[t][n].driver
  <1>1. /\ TripOffersAgree(t) /\ TripWorkAgrees(t)
        /\ \A e \in Drivers : WorkBound(e)
    BY DEF RidesAgree, TripAgrees
  <1>2. d \in Drivers
    BY OfferRowFacts DEF RidesAgree, RideTypeOK
  <1>3. /\ tripState[t] = "MATCHING"
        /\ n = Len(offers[t])
        /\ offers[t][n].reservation = "ACTIVE"
    BY <1>1 DEF TripOffersAgree, ReservationOf
  <1>4. /\ assignment[t] = "NONE"
        /\ \A m \in Attempts(t) : offers[t][m].status # "ACCEPTED"
    BY <1>3, NotUnderway
  <1>5. ASSUME NEW m \in Attempts(t) \ {n}
        PROVE  offers[t][m].status \in {"REJECTED", "EXPIRED", "REVOKED"}
    <2>1. offers[t][m].status \in OfferStatuses
      BY OfferRowFacts DEF RidesAgree, RideTypeOK
    <2>2. offers[t][m].status # "PENDING"
      BY <1>1, <1>3 DEF TripOffersAgree
    <2> QED
      BY <1>4, <2>1, <2>2 DEF OfferStatuses
  <1>6. \A e \in Drivers : Occupies(t, e) <=> e = d
    BY <1>4, <1>5 DEF Occupies
  <1>7. \A e \in Drivers : currentTrip[e] = t <=> e = d
    BY <1>1, <1>6 DEF TripWorkAgrees
  <1>8. workState[d] = "RESERVED"
    BY <1>1, <1>2, <1>3, <1>7 DEF TripWorkAgrees, WorkFor
  <1>9. currentDelivery[d] = NoDelivery
    BY <1>1, <1>2, <1>7, NullAssumption DEF WorkBound
  <1> QED
    BY <1>2, <1>3, <1>5, <1>7, <1>8, <1>9

LEMMA UnoccupiedFacts ==
  ASSUME RidesAgree, NEW t \in Trips, Pending(t) = {}, assignment[t] # "ACTIVE"
  PROVE  \A e \in Drivers : currentTrip[e] # t
  BY DEF RidesAgree, TripAgrees, TripWorkAgrees, Occupies, Pending

LEMMA AssignedFacts ==
  ASSUME RidesAgree, NEW t \in Trips, assignment[t] = "ACTIVE"
  PROVE  /\ tripState[t] \in UnderwayStates
         /\ assignee[t] \in Drivers
         /\ \A m \in Attempts(t) : offers[t][m].status # "PENDING"
         /\ \A e \in Drivers : currentTrip[e] = t <=> e = assignee[t]
         /\ currentDelivery[assignee[t]] = NoDelivery
  <1>1. /\ TripOffersAgree(t) /\ TripAssignmentAgrees(t) /\ TripWorkAgrees(t)
        /\ \A e \in Drivers : WorkBound(e)
        /\ assignee[t] \in Drivers \cup {NoDriver}
    BY DEF RidesAgree, TripAgrees, RideTypeOK
  <1>2. tripState[t] \in UnderwayStates /\ assignee[t] \in Drivers
    BY <1>1 DEF TripAssignmentAgrees
  <1>3. \A m \in Attempts(t) : offers[t][m].status # "PENDING"
    BY <1>1, <1>2 DEF TripOffersAgree, UnderwayStates
  <1>4. \A e \in Drivers : currentTrip[e] = t <=> e = assignee[t]
    BY <1>1, <1>3 DEF TripWorkAgrees, Occupies
  <1>5. currentDelivery[assignee[t]] = NoDelivery
    BY <1>1, <1>2, <1>4, NullAssumption DEF WorkBound
  <1> QED
    BY <1>2, <1>3, <1>4, <1>5

-------------------------------------------------------------------------------
(* The next offer *)

\* The Trip's rows as reserveNextOffer is given them: the same attempts with
\* the same Drivers, every one of them resolved.
AllResolved(t, rows) ==
  /\ rows \in Seq(Offers)
  /\ Len(rows) = Len(offers[t])
  /\ \A m \in 1..Len(rows) :
       /\ rows[m].driver = offers[t][m].driver
       /\ rows[m].status \in {"REJECTED", "EXPIRED", "REVOKED"}
       /\ rows[m].reservation = ReservationOf(rows[m].status)

\* Matching with every earlier offer resolved, and the Driver bound to the Trip
\* (if any) freed by the same transaction, keeps the tables in agreement:
\* whether it finds a Driver or closes the Trip.
LEMMA ReserveNextOfferAgrees ==
  ASSUME RidesAgree,
         NEW t \in Trips, NEW rows, AllResolved(t, rows), NEW v \in Nat,
         NEW evs \in SUBSET (Nat \X EventTypes), NEW freed \in SUBSET Drivers,
         NEW event \in EventTypes,
         tripState[t] \in {"REQUESTED", "MATCHING"},
         \A e \in Drivers : currentTrip[e] = t <=> e \in freed,
         ReserveNextOffer(t, rows, v, evs, freed, event),
         UNCHANGED <<currentDelivery, assignee, assignment>>
  PROVE  RidesAgree'
  <1> DEFINE released == [d \in Drivers |->
                            IF d \in freed THEN "AVAILABLE" ELSE workState[d]]
             unbound == [d \in Drivers |->
                            IF d \in freed THEN NoTrip ELSE currentTrip[d]]
             Asks(d) == /\ offers' = [offers EXCEPT ![t] = Append(rows, NewOffer(d))]
                        /\ tripState' = [tripState EXCEPT ![t] = "MATCHING"]
                        /\ workState' = [released EXCEPT ![d] = "RESERVED"]
                        /\ currentTrip' = [unbound EXCEPT ![d] = t]
             GivesUp == /\ offers' = [offers EXCEPT ![t] = rows]
                        /\ tripState' = [tripState EXCEPT ![t] = "NO_DRIVER_AVAILABLE"]
                        /\ workState' = released
                        /\ currentTrip' = unbound
  <1>1. PICK qualified \in SUBSET Drivers :
          (\E d \in Candidates(t, qualified) : Asks(d)) \/ GivesUp
    BY DEF ReserveNextOffer
  <1>2. RideTypeOK'
    BY ReserveNextOfferType DEF RidesAgree, AllResolved
  <1>3. /\ assignment[t] = "NONE" /\ assignee[t] = NoDriver
        /\ assignment'[t] = "NONE" /\ assignee'[t] = NoDriver
    BY NotUnderway
  <1>4. /\ TripOffersAgree(t) /\ TripAssignmentAgrees(t) /\ TripWorkAgrees(t)
        /\ \A e \in Drivers : WorkBound(e)
        /\ offers \in [Trips -> Seq(Offers)] /\ tripState \in [Trips -> TripStates]
        /\ workState \in [Drivers -> WorkStates]
        /\ currentTrip \in [Drivers -> Trips \cup {NoTrip}]
    BY DEF RidesAgree, TripAgrees, RideTypeOK, WorkTypeOK
  <1>5. /\ \A e \in freed : released[e] = "AVAILABLE" /\ unbound[e] = NoTrip
        /\ \A e \in Drivers \ freed : /\ released[e] = workState[e]
                                      /\ unbound[e] = currentTrip[e]
                                      /\ currentTrip[e] # t
        /\ \A e \in freed : currentDelivery[e] = NoDelivery
    BY <1>4, NullAssumption DEF WorkBound
  <1>6. released \in [Drivers -> WorkStates] /\ unbound \in [Drivers -> Trips \cup {NoTrip}]
    BY <1>4 DEF WorkStates, IdleStates
  <1> HIDE DEF released, unbound
  <1>7. ASSUME NEW d \in Candidates(t, qualified), Asks(d)
        PROVE  RidesAgree'
    <2>1. /\ d \in Drivers
          /\ Len(rows) + 1 <= MaxOfferAttempts
          /\ workState[d] = "AVAILABLE" /\ currentTrip[d] = NoTrip
          /\ \A m \in 1..Len(rows) : rows[m].driver # d
      BY <1>4 DEF Candidates, AllResolved, Attempts
    <2> DEFINE all == Append(rows, NewOffer(d))
    <2>2. /\ offers'[t] = all
          /\ Len(all) = Len(rows) + 1 /\ Len(rows) \in Nat
          /\ DOMAIN all = 1..Len(rows) + 1
          /\ all[Len(rows) + 1] = NewOffer(d)
          /\ \A m \in 1..Len(rows) : all[m] = rows[m]
      BY <1>4, <1>7 DEF AllResolved
    <2>3. /\ NewOffer(d).driver = d
          /\ NewOffer(d).status = "PENDING"
          /\ NewOffer(d).reservation = "ACTIVE"
      BY DEF NewOffer
    <2>4. tripState'[t] = "MATCHING"
      BY <1>4, <1>7
    <2> HIDE DEF all
    <2>5. \A m \in 1..Len(rows) :
            /\ all[m].driver = offers[t][m].driver
            /\ all[m].status \in {"REJECTED", "EXPIRED", "REVOKED"}
            /\ all[m].reservation = ReservationOf(all[m].status)
      BY <2>2 DEF AllResolved
    <2>6. TripOffersAgree(t)'
      <3>1. Len(offers'[t]) <= MaxOfferAttempts
        BY <2>1, <2>2
      <3>2. ASSUME NEW m \in 1..Len(rows) + 1
            PROVE  /\ all[m].reservation = ReservationOf(all[m].status)
                   /\ all[m].status \in {"PENDING", "ACCEPTED"} => m = Len(rows) + 1
        <4>1. CASE m = Len(rows) + 1
          BY <4>1, <2>2, <2>3 DEF ReservationOf
        <4>2. CASE m \in 1..Len(rows)
          BY <4>2, <2>5
        <4> QED
          BY <2>2, <4>1, <4>2
      <3>3. ASSUME NEW m \in 1..Len(rows) + 1, NEW k \in 1..Len(rows) + 1,
                   all[m].driver = all[k].driver
            PROVE  m = k
        <4>1. CASE m \in 1..Len(rows) /\ k \in 1..Len(rows)
          <5>1. offers[t][m].driver = offers[t][k].driver
            BY <3>3, <4>1, <2>5
          <5>2. DOMAIN offers[t] = 1..Len(rows)
            BY <1>4 DEF AllResolved
          <5> QED
            BY <1>4, <4>1, <5>1, <5>2 DEF TripOffersAgree, Attempts
        <4>2. CASE ~(m \in 1..Len(rows) /\ k \in 1..Len(rows))
          BY <3>3, <4>2, <2>1, <2>2, <2>3
        <4> QED
          BY <4>1, <4>2
      <3> QED
        BY <2>2, <2>4, <3>1, <3>2, <3>3 DEF TripOffersAgree, Attempts
    <2>7. \A e \in Drivers : Occupies(t, e)' <=> e = d
      <3>1. \A m \in 1..Len(rows) + 1 : all[m].status = "PENDING" <=> m = Len(rows) + 1
        BY <2>2, <2>3, <2>5
      <3> QED
        BY <1>3, <2>2, <2>3, <3>1 DEF Occupies, Attempts
    <2>8. TripAssignmentAgrees(t)'
      <3>1. \A m \in 1..Len(rows) + 1 : all[m].status # "ACCEPTED"
        BY <2>2, <2>3, <2>5
      <3> QED
        BY <1>3, <2>2, <2>4, <3>1 DEF TripAssignmentAgrees, Attempts, UnderwayStates
    <2>9. d \notin freed /\ currentDelivery[d] = NoDelivery
      BY <1>4, <2>1, NullAssumption DEF WorkBound, BusyStates
    <2>10. /\ workState'[d] = "RESERVED" /\ currentTrip'[d] = t
           /\ \A e \in Drivers \ {d} : /\ workState'[e] = released[e]
                                       /\ currentTrip'[e] = unbound[e]
      BY <1>6, <1>7, <2>1
    <2>11. TripWorkAgrees(t)'
      BY <1>5, <2>4, <2>7, <2>10, NullAssumption DEF TripWorkAgrees, WorkFor
    <2>12. \A e \in Drivers : WorkBound(e)'
      <3>1. WorkBound(d)'
        BY <2>9, <2>10, NullAssumption DEF WorkBound, BusyStates
      <3>2. ASSUME NEW e \in Drivers \ {d} PROVE WorkBound(e)'
        BY <1>4, <1>5, <2>10 DEF WorkBound, BusyStates
      <3> QED
        BY <3>1, <3>2
    <2>13. OnlyTrip(t)
      <3>1. \A u \in Trips \ {t} : tripState'[u] = tripState[u] /\ offers'[u] = offers[u]
        BY <1>4, <1>7
      <3>2. ASSUME NEW e \in Drivers
            PROVE  \/ workState'[e] = workState[e] /\ currentTrip'[e] = currentTrip[e]
                   \/ currentTrip[e] \in {t, NoTrip} /\ currentTrip'[e] \in {t, NoTrip}
        BY <1>5, <2>1, <2>10
      <3> QED
        BY <3>1, <3>2 DEF OnlyTrip
    <2> QED
      BY <1>2, <2>6, <2>8, <2>11, <2>12, <2>13, OneTripAtATime DEF TripAgrees
  <1>8. ASSUME GivesUp
        PROVE  RidesAgree'
    <2>1. /\ offers'[t] = rows
          /\ DOMAIN rows = 1..Len(rows)
          /\ tripState'[t] = "NO_DRIVER_AVAILABLE"
      BY <1>4, <1>8 DEF AllResolved
    <2>2. \A m \in 1..Len(rows) : rows[m].status \notin {"PENDING", "ACCEPTED"}
      BY DEF AllResolved
    <2>3. DOMAIN offers[t] = 1..Len(rows)
      BY <1>4 DEF AllResolved
    <2>4. TripOffersAgree(t)'
      BY <1>4, <2>1, <2>2, <2>3 DEF TripOffersAgree, Attempts, AllResolved
    <2>5. TripAssignmentAgrees(t)'
      BY <1>3, <2>1, <2>2 DEF TripAssignmentAgrees, Attempts, UnderwayStates
    <2>6. \A e \in Drivers : ~Occupies(t, e)'
      BY <1>3, <2>1, <2>2 DEF Occupies, Attempts
    <2>7. TripWorkAgrees(t)'
      BY <1>5, <1>8, <2>6, NullAssumption DEF TripWorkAgrees
    <2>8. \A e \in Drivers : WorkBound(e)'
      BY <1>4, <1>5, <1>8 DEF WorkBound, BusyStates
    <2>9. OnlyTrip(t)
      <3>1. \A u \in Trips \ {t} : tripState'[u] = tripState[u] /\ offers'[u] = offers[u]
        BY <1>4, <1>8
      <3>2. ASSUME NEW e \in Drivers
            PROVE  \/ workState'[e] = workState[e] /\ currentTrip'[e] = currentTrip[e]
                   \/ currentTrip[e] \in {t, NoTrip} /\ currentTrip'[e] \in {t, NoTrip}
        BY <1>5, <1>8
      <3> QED
        BY <3>1, <3>2 DEF OnlyTrip
    <2> QED
      BY <1>2, <2>4, <2>5, <2>7, <2>8, <2>9, OneTripAtATime DEF TripAgrees
  <1> QED
    BY <1>1, <1>7, <1>8

\* Resolving the pending attempt gives rows reserveNextOffer may be called with.
LEMMA ResolvedRows ==
  ASSUME RidesAgree, NEW t \in Trips, NEW n \in Attempts(t),
         offers[t][n].status = "PENDING",
         NEW o \in {"REJECTED", "EXPIRED", "REVOKED"}
  PROVE  AllResolved(t, Resolve(t, n, o, ReservationOf(o)))
  <1> DEFINE rows == Resolve(t, n, o, ReservationOf(o))
  <1>1. /\ offers \in [Trips -> Seq(Offers)] /\ n \in DOMAIN offers[t]
        /\ o \in OfferStatuses /\ ReservationOf(o) \in ReservationStatuses
    BY DEF RidesAgree, RideTypeOK, Attempts, OfferStatuses, ReservationOf,
       ReservationStatuses
  <1>2. /\ rows \in Seq(Offers)
        /\ Len(rows) = Len(offers[t])
        /\ DOMAIN rows = DOMAIN offers[t]
        /\ rows[n].driver = offers[t][n].driver
        /\ rows[n].status = o
        /\ rows[n].reservation = ReservationOf(o)
        /\ \A m \in DOMAIN offers[t] : m # n => rows[m] = offers[t][m]
    BY <1>1, ResolveFacts
  <1> HIDE DEF rows
  <1>3. ASSUME NEW m \in 1..Len(rows)
        PROVE  /\ rows[m].driver = offers[t][m].driver
               /\ rows[m].status \in {"REJECTED", "EXPIRED", "REVOKED"}
               /\ rows[m].reservation = ReservationOf(rows[m].status)
    <2>1. m \in Attempts(t) /\ m \in DOMAIN offers[t]
      BY <1>1, <1>2 DEF Attempts
    <2>2. CASE m = n
      BY <1>2, <2>2
    <2>3. CASE m # n
      BY <1>2, <2>1, <2>3, PendingFacts DEF RidesAgree, TripAgrees, TripOffersAgree
    <2> QED
      BY <2>2, <2>3
  <1> QED
    BY <1>2, <1>3 DEF AllResolved, rows

-------------------------------------------------------------------------------
(* One lemma per handler *)

LEMMA StartMatchingAgrees ==
  ASSUME RidesAgree, NEW t \in Trips, StartMatching(t)
  PROVE  RidesAgree'
  <1> DEFINE first == tripState[t] = "REQUESTED"
             v == IF first THEN version[t] + 1 ELSE version[t]
             evs == IF first THEN {<<v, "trip.matching.started">>} ELSE {}
  <1>1. /\ ReserveNextOffer(t, offers[t], v, evs, {}, "dispatch.offer.created")
        /\ tripState[t] \in {"REQUESTED", "MATCHING"}
        /\ UNCHANGED <<currentDelivery, assignee, assignment>>
        /\ Pending(t) = {}
    BY DEF StartMatching
  <1>2. v \in Nat
    BY DEF RidesAgree, RideTypeOK
  <1>3. evs \in SUBSET (Nat \X EventTypes) /\ "dispatch.offer.created" \in EventTypes
    BY <1>2 DEF EventTypes
  <1>4. AllResolved(t, offers[t])
    <2>1. offers[t] \in Seq(Offers)
      BY DEF RidesAgree, RideTypeOK
    <2>2. ASSUME NEW m \in 1..Len(offers[t])
          PROVE  /\ offers[t][m].status \in {"REJECTED", "EXPIRED", "REVOKED"}
                 /\ offers[t][m].reservation = ReservationOf(offers[t][m].status)
      <3>1. m \in Attempts(t)
        BY <2>1 DEF Attempts
      <3>2. offers[t][m].status \in OfferStatuses
        BY <3>1, OfferRowFacts DEF RidesAgree, RideTypeOK
      <3>3. offers[t][m].status \notin {"PENDING", "ACCEPTED"}
        BY <1>1, <3>1, NotUnderway DEF Pending
      <3> QED
        BY <3>1, <3>2, <3>3 DEF OfferStatuses, RidesAgree, TripAgrees, TripOffersAgree
    <2> QED
      BY <2>1, <2>2 DEF AllResolved
  <1>5. \A e \in Drivers : currentTrip[e] = t <=> e \in {}
    BY <1>1, NotUnderway, UnoccupiedFacts
  <1> HIDE DEF v, evs
  <1> QED
    BY <1>1, <1>2, <1>3, <1>4, <1>5, ReserveNextOfferAgrees

LEMMA RejectInTimeAgrees ==
  ASSUME RidesAgree, NEW t \in Trips, NEW n \in Attempts(t), RejectInTime(t, n)
  PROVE  RidesAgree'
  <1> DEFINE rows == Resolve(t, n, "REJECTED", "RELEASED")
             v == version[t] + 1
             evs == {<<v, "dispatch.offer.rejected">>}
             freed == {offers[t][n].driver}
  <1>1. /\ ReserveNextOffer(t, rows, v, evs, freed, "dispatch.offer.reassigned")
        /\ offers[t][n].status = "PENDING"
        /\ tripState[t] = "MATCHING"
        /\ UNCHANGED <<currentDelivery, assignee, assignment>>
    BY DEF RejectInTime, Answerable
  <1>2. AllResolved(t, rows)
    BY <1>1, ResolvedRows, ReservationOf("REJECTED") = "RELEASED" DEF ReservationOf
  <1>3. v \in Nat /\ freed \in SUBSET Drivers
    BY OfferRowFacts DEF RidesAgree, RideTypeOK
  <1>4. evs \in SUBSET (Nat \X EventTypes) /\ "dispatch.offer.reassigned" \in EventTypes
    BY <1>3 DEF EventTypes
  <1>5. \A e \in Drivers : currentTrip[e] = t <=> e \in freed
    BY <1>1, PendingFacts
  <1> HIDE DEF rows, v, evs, freed
  <1> QED
    BY <1>1, <1>2, <1>3, <1>4, <1>5, ReserveNextOfferAgrees

LEMMA ExpireDueOfferAgrees ==
  ASSUME RidesAgree, NEW t \in Trips, NEW n \in Attempts(t), ExpireDueOffer(t, n)
  PROVE  RidesAgree'
  <1> DEFINE rows == Resolve(t, n, "EXPIRED", "EXPIRED")
             v == version[t] + 1
             evs == {<<v, "dispatch.offer.expired">>}
             freed == {e \in {offers[t][n].driver} :
                         workState[e] = "RESERVED" /\ currentTrip[e] = t}
  <1>1. /\ ReserveNextOffer(t, rows, v, evs, freed, "dispatch.offer.reassigned")
        /\ offers[t][n].status = "PENDING"
        /\ tripState[t] = "MATCHING"
        /\ UNCHANGED <<currentDelivery, assignee, assignment>>
    BY DEF ExpireDueOffer, ExpiryDue
  <1>2. AllResolved(t, rows)
    BY <1>1, ResolvedRows, ReservationOf("EXPIRED") = "EXPIRED" DEF ReservationOf
  <1>3. v \in Nat /\ freed \in SUBSET Drivers
    BY OfferRowFacts DEF RidesAgree, RideTypeOK
  <1>4. evs \in SUBSET (Nat \X EventTypes) /\ "dispatch.offer.reassigned" \in EventTypes
    BY <1>3 DEF EventTypes
  <1>5. \A e \in Drivers : currentTrip[e] = t <=> e \in freed
    BY <1>1, PendingFacts
  <1> HIDE DEF rows, v, evs, freed
  <1> QED
    BY <1>1, <1>2, <1>3, <1>4, <1>5, ReserveNextOfferAgrees

\* What letting go of the Driver bound to Trip t does to the Driver table.
LEMMA FreeingDriver ==
  ASSUME RidesAgree, NEW t \in Trips, NEW d \in Drivers,
         currentTrip[d] = t, \A e \in Drivers : currentTrip[e] = t <=> e = d,
         MoveDriver(d, "AVAILABLE", NoTrip)
  PROVE  /\ \A e \in Drivers : currentTrip'[e] # t
         /\ \A e \in Drivers : WorkBound(e)'
         /\ \A e \in Drivers :
              \/ workState'[e] = workState[e] /\ currentTrip'[e] = currentTrip[e]
              \/ currentTrip[e] \in {t, NoTrip} /\ currentTrip'[e] \in {t, NoTrip}
  <1>1. /\ workState \in [Drivers -> WorkStates]
        /\ currentTrip \in [Drivers -> Trips \cup {NoTrip}]
        /\ \A e \in Drivers : WorkBound(e)
    BY DEF RidesAgree, RideTypeOK, WorkTypeOK
  <1>2. /\ workState'[d] = "AVAILABLE" /\ currentTrip'[d] = NoTrip
        /\ \A e \in Drivers \ {d} : /\ workState'[e] = workState[e]
                                    /\ currentTrip'[e] = currentTrip[e]
        /\ currentDelivery' = currentDelivery
    BY <1>1 DEF MoveDriver
  <1>3. \A e \in Drivers : WorkBound(e)'
    BY <1>1, <1>2, NullAssumption DEF WorkBound, BusyStates
  <1> QED
    BY <1>2, <1>3, NullAssumption

\* What moving the Driver bound to Trip t on to another busy state does.
LEMMA MovingDriver ==
  ASSUME RidesAgree, NEW t \in Trips, NEW d \in Drivers,
         currentTrip[d] = t, \A e \in Drivers : currentTrip[e] = t <=> e = d,
         NEW s \in BusyStates, MoveDriver(d, s, t)
  PROVE  /\ \A e \in Drivers : currentTrip'[e] = t <=> e = d
         /\ workState'[d] = s
         /\ \A e \in Drivers : WorkBound(e)'
         /\ \A e \in Drivers :
              \/ workState'[e] = workState[e] /\ currentTrip'[e] = currentTrip[e]
              \/ currentTrip[e] \in {t, NoTrip} /\ currentTrip'[e] \in {t, NoTrip}
  <1>1. /\ workState \in [Drivers -> WorkStates]
        /\ currentTrip \in [Drivers -> Trips \cup {NoTrip}]
        /\ \A e \in Drivers : WorkBound(e)
    BY DEF RidesAgree, RideTypeOK, WorkTypeOK
  <1>2. /\ workState'[d] = s /\ currentTrip'[d] = t
        /\ \A e \in Drivers \ {d} : /\ workState'[e] = workState[e]
                                    /\ currentTrip'[e] = currentTrip[e]
        /\ currentDelivery' = currentDelivery
    BY <1>1 DEF MoveDriver
  <1>3. \A e \in Drivers : WorkBound(e)'
    BY <1>1, <1>2, NullAssumption DEF WorkBound, BusyStates
  <1> QED
    BY <1>2, <1>3, NullAssumption

LEMMA AcceptInTimeAgrees ==
  ASSUME RidesAgree, NEW t \in Trips, NEW n \in Attempts(t), AcceptInTime(t, n)
  PROVE  RidesAgree'
  <1> DEFINE d == offers[t][n].driver
             rows == Resolve(t, n, "ACCEPTED", "COMMITTED")
  <1>1. /\ offers[t][n].status = "PENDING"
        /\ tripState[t] = "MATCHING"
        /\ offers' = [offers EXCEPT ![t] = rows]
        /\ MoveDriver(d, "TO_PICKUP", t)
        /\ assignee' = [assignee EXCEPT ![t] = d]
        /\ assignment' = [assignment EXCEPT ![t] = "ACTIVE"]
        /\ tripState' = [tripState EXCEPT ![t] = "DRIVER_TO_PICKUP"]
    BY DEF AcceptInTime, Answerable
  <1>2. RideTypeOK'
    BY AcceptInTimeType DEF RidesAgree
  <1>3. /\ tripState \in [Trips -> TripStates] /\ offers \in [Trips -> Seq(Offers)]
        /\ assignee \in [Trips -> Drivers \cup {NoDriver}]
        /\ assignment \in [Trips -> AssignmentStatuses]
        /\ d \in Drivers /\ TripOffersAgree(t)
    BY OfferRowFacts DEF RidesAgree, RideTypeOK, TripAgrees
  <1>4. /\ Len(rows) = Len(offers[t])
        /\ DOMAIN rows = DOMAIN offers[t] /\ n \in DOMAIN rows
        /\ rows[n].driver = d
        /\ rows[n].status = "ACCEPTED"
        /\ rows[n].reservation = "COMMITTED"
        /\ \A m \in DOMAIN offers[t] : m # n => rows[m] = offers[t][m]
    BY <1>3, ResolveFacts DEF Attempts, OfferStatuses, ReservationStatuses
  <1>5. /\ \A e \in Drivers : currentTrip[e] = t <=> e = d
        /\ n = Len(offers[t])
        /\ \A m \in Attempts(t) \ {n} :
             offers[t][m].status \in {"REJECTED", "EXPIRED", "REVOKED"}
    BY <1>1, PendingFacts
  <1>6. /\ offers'[t] = rows /\ tripState'[t] = "DRIVER_TO_PICKUP"
        /\ assignee'[t] = d /\ assignment'[t] = "ACTIVE"
    BY <1>1, <1>3
  <1> HIDE DEF d, rows
  <1>7. /\ \A e \in Drivers : currentTrip'[e] = t <=> e = d
        /\ workState'[d] = "TO_PICKUP"
        /\ \A e \in Drivers : WorkBound(e)'
        /\ \A e \in Drivers :
             \/ workState'[e] = workState[e] /\ currentTrip'[e] = currentTrip[e]
             \/ currentTrip[e] \in {t, NoTrip} /\ currentTrip'[e] \in {t, NoTrip}
    BY <1>1, <1>3, <1>5, MovingDriver, "TO_PICKUP" \in BusyStates DEF BusyStates
  <1>8. TripOffersAgree(t)'
    <2>1. ASSUME NEW m \in DOMAIN rows
          PROVE  /\ rows[m].reservation = ReservationOf(rows[m].status)
                 /\ rows[m].status \in {"PENDING", "ACCEPTED"} => m = Len(rows)
                 /\ rows[m].status # "PENDING"
                 /\ rows[m].driver = offers[t][m].driver
      <3>1. CASE m = n
        BY <3>1, <1>4, <1>5 DEF ReservationOf, d
      <3>2. CASE m # n
        BY <3>2, <1>3, <1>4, <1>5 DEF TripOffersAgree, Attempts
      <3> QED
        BY <3>1, <3>2
    <2> QED
      BY <1>3, <1>4, <1>6, <2>1 DEF TripOffersAgree, Attempts
  <1>9. TripAssignmentAgrees(t)'
    <2>1. \A m \in DOMAIN rows : rows[m].status = "ACCEPTED" => m = n
      BY <1>4, <1>5 DEF Attempts
    <2> QED
      BY <1>3, <1>4, <1>6, <2>1, NullAssumption
         DEF TripAssignmentAgrees, Attempts, UnderwayStates
  <1>10. TripWorkAgrees(t)'
    <2>1. \A m \in DOMAIN rows : rows[m].status # "PENDING"
      BY <1>4, <1>5 DEF Attempts
    <2>2. \A e \in Drivers : Occupies(t, e)' <=> e = d
      BY <1>6, <2>1 DEF Occupies, Attempts
    <2> QED
      BY <1>6, <1>7, <2>2 DEF TripWorkAgrees, WorkFor
  <1>11. OnlyTrip(t)
    BY <1>1, <1>3, <1>7 DEF OnlyTrip
  <1> QED
    BY <1>2, <1>7, <1>8, <1>9, <1>10, <1>11, OneTripAtATime DEF TripAgrees

\* An offer is resolved without an answer and its Driver let go of; the Trip
\* stays MATCHING (a late answer) or is CANCELLED.
LEMMA LettingGoAgrees ==
  ASSUME RidesAgree, RideTypeOK', NEW t \in Trips, NEW n \in Attempts(t),
         offers[t][n].status = "PENDING",
         NEW o \in {"EXPIRED", "REVOKED"},
         offers' = [offers EXCEPT ![t] = Resolve(t, n, o, ReservationOf(o))],
         MoveDriver(offers[t][n].driver, "AVAILABLE", NoTrip),
         NEW s \in {"MATCHING", "CANCELLED"},
         tripState' = [tripState EXCEPT ![t] = s],
         UNCHANGED <<assignee, assignment>>
  PROVE  RidesAgree'
  <1> DEFINE d == offers[t][n].driver
             rows == Resolve(t, n, o, ReservationOf(o))
  <1>1. AllResolved(t, rows)
    BY ResolvedRows
  <1>2. /\ tripState \in [Trips -> TripStates] /\ offers \in [Trips -> Seq(Offers)]
        /\ d \in Drivers /\ TripOffersAgree(t)
    BY OfferRowFacts DEF RidesAgree, RideTypeOK, TripAgrees
  <1>3. /\ \A e \in Drivers : currentTrip[e] = t <=> e = d
        /\ tripState[t] = "MATCHING"
    BY PendingFacts
  <1>4. assignment'[t] = "NONE" /\ assignee'[t] = NoDriver
    BY <1>3, NotUnderway
  <1>5. /\ offers'[t] = rows /\ tripState'[t] = s
        /\ DOMAIN rows = 1..Len(rows) /\ DOMAIN offers[t] = 1..Len(rows)
    BY <1>1, <1>2 DEF AllResolved
  <1> HIDE DEF rows
  <1>6. /\ \A e \in Drivers : currentTrip'[e] # t
        /\ \A e \in Drivers : WorkBound(e)'
        /\ \A e \in Drivers :
             \/ workState'[e] = workState[e] /\ currentTrip'[e] = currentTrip[e]
             \/ currentTrip[e] \in {t, NoTrip} /\ currentTrip'[e] \in {t, NoTrip}
    BY <1>2, <1>3, FreeingDriver
  <1>7. TripOffersAgree(t)'
    <2>1. \A m \in 1..Len(rows) : /\ rows[m].status \notin {"PENDING", "ACCEPTED"}
                                  /\ rows[m].reservation = ReservationOf(rows[m].status)
                                  /\ rows[m].driver = offers[t][m].driver
      BY <1>1 DEF AllResolved
    <2>2. Len(rows) = Len(offers[t])
      BY <1>1 DEF AllResolved
    <2> QED
      BY <1>2, <1>5, <2>1, <2>2 DEF TripOffersAgree, Attempts
  <1>8. TripAssignmentAgrees(t)'
    BY <1>1, <1>4, <1>5 DEF TripAssignmentAgrees, Attempts, AllResolved, UnderwayStates
  <1>9. TripWorkAgrees(t)'
    <2>1. \A e \in Drivers : ~Occupies(t, e)'
      BY <1>1, <1>4, <1>5 DEF Occupies, Attempts, AllResolved
    <2> QED
      BY <1>6, <2>1 DEF TripWorkAgrees
  <1>10. OnlyTrip(t)
    BY <1>2, <1>6 DEF OnlyTrip
  <1> QED
    BY <1>6, <1>7, <1>8, <1>9, <1>10, OneTripAtATime DEF TripAgrees

LEMMA AnswerLateAgrees ==
  ASSUME RidesAgree, NEW t \in Trips, NEW n \in Attempts(t), AnswerLate(t, n)
  PROVE  RidesAgree'
  <1>1. /\ offers[t][n].status = "PENDING"
        /\ offers' = [offers EXCEPT ![t] = Resolve(t, n, "EXPIRED", ReservationOf("EXPIRED"))]
        /\ UNCHANGED <<tripState, assignee, assignment>>
    BY DEF AnswerLate, Answerable, ExpireOffer, ReservationOf
  <1>2. MoveDriver(offers[t][n].driver, "AVAILABLE", NoTrip)
    BY <1>1, PendingFacts DEF AnswerLate, ExpireOffer
  <1>3. tripState' = [tripState EXCEPT ![t] = "MATCHING"]
    BY <1>1, PendingFacts DEF RidesAgree, RideTypeOK
  <1>4. RideTypeOK'
    BY AnswerLateType DEF RidesAgree
  <1> QED
    BY <1>1, <1>2, <1>3, <1>4, LettingGoAgrees

LEMMA CancelUncommittedAgrees ==
  ASSUME RidesAgree, NEW t \in Trips, CancelUncommitted(t)
  PROVE  RidesAgree'
  <1>1. /\ tripState[t] \in {"REQUESTED", "MATCHING"}
        /\ tripState' = [tripState EXCEPT ![t] = "CANCELLED"]
        /\ UNCHANGED <<assignee, assignment>>
    BY DEF CancelUncommitted, UncommittedStates, EndByCancellation
  <1>2. RideTypeOK'
    BY CancelUncommittedType DEF RidesAgree
  <1>3. CASE tripState[t] = "MATCHING" /\ Pending(t) # {}
    <2>1. PICK n \in Pending(t) :
            /\ offers' = [offers EXCEPT ![t] = Resolve(t, n, "REVOKED", "RELEASED")]
            /\ MoveDriver(offers[t][n].driver, "AVAILABLE", NoTrip)
      BY <1>3 DEF CancelUncommitted
    <2>2. n \in Attempts(t) /\ offers[t][n].status = "PENDING"
      BY DEF Pending
    <2>3. ReservationOf("REVOKED") = "RELEASED"
      BY DEF ReservationOf
    <2> QED
      BY <1>1, <1>2, <2>1, <2>2, <2>3, LettingGoAgrees
  <1>4. CASE ~(tripState[t] = "MATCHING" /\ Pending(t) # {})
    <2>1. UNCHANGED <<offers, workVars>>
      BY <1>4 DEF CancelUncommitted
    <2>2. Pending(t) = {}
      BY <1>1, <1>4 DEF Pending, RidesAgree, TripAgrees, TripOffersAgree
    <2>3. /\ assignment'[t] = "NONE" /\ assignee'[t] = NoDriver
          /\ TripOffersAgree(t) /\ tripState \in [Trips -> TripStates]
          /\ \A m \in Attempts(t) : offers[t][m].status \notin {"PENDING", "ACCEPTED"}
      BY <1>1, <2>2, NotUnderway DEF Pending, RidesAgree, TripAgrees, RideTypeOK
    <2>4. offers'[t] = offers[t] /\ tripState'[t] = "CANCELLED"
      BY <1>1, <2>1, <2>3
    <2>5. TripOffersAgree(t)'
      BY <2>3, <2>4 DEF TripOffersAgree, Attempts
    <2>6. TripAssignmentAgrees(t)'
      BY <2>3, <2>4 DEF TripAssignmentAgrees, Attempts, UnderwayStates
    <2>7. TripWorkAgrees(t)'
      <3>1. \A e \in Drivers : currentTrip[e] # t
        BY <1>1, <2>2, NotUnderway, UnoccupiedFacts
      <3>2. \A e \in Drivers : ~Occupies(t, e)'
        BY <2>3, <2>4 DEF Occupies, Attempts
      <3> QED
        BY <2>1, <3>1, <3>2 DEF TripWorkAgrees, workVars
    <2>8. OnlyTrip(t) /\ \A e \in Drivers : WorkBound(e)'
      BY <1>1, <2>1, <2>3 DEF OnlyTrip, workVars, RidesAgree, WorkBound
    <2> QED
      BY <1>2, <2>5, <2>6, <2>7, <2>8, OneTripAtATime DEF TripAgrees
  <1> QED
    BY <1>3, <1>4

LEMMA CancelAssignedAgrees ==
  ASSUME RidesAgree, NEW t \in Trips, CancelAssigned(t)
  PROVE  RidesAgree'
  <1>1. /\ assignment[t] = "ACTIVE"
        /\ assignment' = [assignment EXCEPT ![t] = "CANCELLED"]
        /\ tripState' = [tripState EXCEPT ![t] = "CANCELLED"]
        /\ MoveDriver(assignee[t], "AVAILABLE", NoTrip)
        /\ UNCHANGED <<offers, assignee>>
    BY DEF CancelAssigned, ResolveAssignment, EndByCancellation
  <1>2. RideTypeOK'
    BY CancelAssignedType DEF RidesAgree
  <1>3. /\ tripState \in [Trips -> TripStates] /\ assignment \in [Trips -> AssignmentStatuses]
        /\ TripOffersAgree(t) /\ TripAssignmentAgrees(t)
    BY DEF RidesAgree, RideTypeOK, TripAgrees
  <1>4. /\ assignee[t] \in Drivers
        /\ \A m \in Attempts(t) : offers[t][m].status # "PENDING"
        /\ \A e \in Drivers : currentTrip[e] = t <=> e = assignee[t]
    BY <1>1, AssignedFacts
  <1>5. assignment'[t] = "CANCELLED" /\ tripState'[t] = "CANCELLED"
    BY <1>1, <1>3
  <1>6. /\ \A e \in Drivers : currentTrip'[e] # t
        /\ \A e \in Drivers : WorkBound(e)'
        /\ \A e \in Drivers :
             \/ workState'[e] = workState[e] /\ currentTrip'[e] = currentTrip[e]
             \/ currentTrip[e] \in {t, NoTrip} /\ currentTrip'[e] \in {t, NoTrip}
    BY <1>1, <1>4, FreeingDriver
  <1>7. TripOffersAgree(t)'
    BY <1>1, <1>3, <1>4 DEF TripOffersAgree, Attempts
  <1>8. TripAssignmentAgrees(t)'
    BY <1>1, <1>3, <1>5 DEF TripAssignmentAgrees, Attempts, UnderwayStates
  <1>9. TripWorkAgrees(t)'
    <2>1. \A e \in Drivers : ~Occupies(t, e)'
      BY <1>1, <1>4, <1>5 DEF Occupies, Attempts
    <2> QED
      BY <1>6, <2>1 DEF TripWorkAgrees
  <1>10. OnlyTrip(t)
    BY <1>1, <1>3, <1>6 DEF OnlyTrip
  <1> QED
    BY <1>2, <1>6, <1>7, <1>8, <1>9, <1>10, OneTripAtATime DEF TripAgrees

\* The steps of an assigned Trip: those that keep the assignment open first.
LEMMA UnderwayAgrees ==
  ASSUME RidesAgree, RideTypeOK', NEW t \in Trips,
         NEW to \in UnderwayStates, assignment[t] = "ACTIVE",
         tripState' = [tripState EXCEPT ![t] = to],
         NEW s \in BusyStates,
         s = IF to = "IN_PROGRESS" THEN "ON_TRIP" ELSE "TO_PICKUP",
         MoveDriver(assignee[t], s, t),
         UNCHANGED <<offers, assignee, assignment>>
  PROVE  RidesAgree'
  <1>1. /\ tripState \in [Trips -> TripStates]
        /\ TripOffersAgree(t) /\ TripAssignmentAgrees(t)
    BY DEF RidesAgree, RideTypeOK, TripAgrees
  <1>2. /\ assignee[t] \in Drivers
        /\ tripState[t] \in UnderwayStates
        /\ \A m \in Attempts(t) : offers[t][m].status # "PENDING"
        /\ \A e \in Drivers : currentTrip[e] = t <=> e = assignee[t]
    BY AssignedFacts
  <1>3. /\ \A e \in Drivers : currentTrip'[e] = t <=> e = assignee[t]
        /\ workState'[assignee[t]] = s
        /\ \A e \in Drivers : WorkBound(e)'
        /\ \A e \in Drivers :
             \/ workState'[e] = workState[e] /\ currentTrip'[e] = currentTrip[e]
             \/ currentTrip[e] \in {t, NoTrip} /\ currentTrip'[e] \in {t, NoTrip}
    BY <1>2, MovingDriver
  <1>4. tripState'[t] = to
    BY <1>1
  <1>5. TripOffersAgree(t)'
    BY <1>1, <1>2 DEF TripOffersAgree, Attempts
  <1>6. TripAssignmentAgrees(t)'
    BY <1>1, <1>2, <1>4 DEF TripAssignmentAgrees, Attempts, UnderwayStates
  <1>7. TripWorkAgrees(t)'
    <2>1. \A e \in Drivers : Occupies(t, e)' <=> e = assignee[t]
      BY <1>2 DEF Occupies, Attempts
    <2>2. WorkFor(t)' = s
      BY <1>4 DEF WorkFor, UnderwayStates
    <2> QED
      BY <1>3, <2>1, <2>2 DEF TripWorkAgrees
  <1>8. OnlyTrip(t)
    BY <1>1, <1>3 DEF OnlyTrip
  <1> QED
    BY <1>3, <1>5, <1>6, <1>7, <1>8, OneTripAtATime DEF TripAgrees

LEMMA ArriveAtPickupAgrees ==
  ASSUME RidesAgree, NEW t \in Trips, ArriveAtPickup(t)
  PROVE  RidesAgree'
  <1>1. AdvanceTrip(t, "DRIVER_TO_PICKUP", "AT_PICKUP",
                    "TO_PICKUP", "TO_PICKUP", "trip.driver.arrived")
    BY DEF ArriveAtPickup
  <1>2. RideTypeOK'
    BY <1>1, AdvanceTripType DEF RidesAgree, TripStates, WorkStates, BusyStates, EventTypes
  <1> QED
    BY <1>1, <1>2, UnderwayAgrees DEF AdvanceTrip, UnderwayStates, BusyStates

LEMMA StartTripAgrees ==
  ASSUME RidesAgree, NEW t \in Trips, StartTrip(t)
  PROVE  RidesAgree'
  <1>1. AdvanceTrip(t, "AT_PICKUP", "IN_PROGRESS", "TO_PICKUP", "ON_TRIP", "trip.started")
    BY DEF StartTrip
  <1>2. RideTypeOK'
    BY <1>1, AdvanceTripType DEF RidesAgree, TripStates, WorkStates, BusyStates, EventTypes
  <1> QED
    BY <1>1, <1>2, UnderwayAgrees DEF AdvanceTrip, UnderwayStates, BusyStates

LEMMA CompleteTripAgrees ==
  ASSUME RidesAgree, NEW t \in Trips, CompleteTrip(t)
  PROVE  RidesAgree'
  <1>1. AdvanceTrip(t, "IN_PROGRESS", "COMPLETED", "ON_TRIP", "AVAILABLE", "trip.completed")
    BY DEF CompleteTrip
  <1>2. RideTypeOK'
    BY <1>1, AdvanceTripType DEF RidesAgree, TripStates, WorkStates, BusyStates,
       IdleStates, EventTypes
  <1>3. /\ assignment[t] = "ACTIVE"
        /\ tripState' = [tripState EXCEPT ![t] = "COMPLETED"]
        /\ assignment' = [assignment EXCEPT ![t] = "COMPLETED"]
        /\ MoveDriver(assignee[t], "AVAILABLE", NoTrip)
        /\ UNCHANGED <<offers, assignee>>
    BY <1>1 DEF AdvanceTrip, ResolveAssignment
  <1>4. /\ tripState \in [Trips -> TripStates] /\ assignment \in [Trips -> AssignmentStatuses]
        /\ TripOffersAgree(t) /\ TripAssignmentAgrees(t)
    BY DEF RidesAgree, RideTypeOK, TripAgrees
  <1>5. /\ assignee[t] \in Drivers
        /\ \A m \in Attempts(t) : offers[t][m].status # "PENDING"
        /\ \A e \in Drivers : currentTrip[e] = t <=> e = assignee[t]
    BY <1>3, AssignedFacts
  <1>6. assignment'[t] = "COMPLETED" /\ tripState'[t] = "COMPLETED"
    BY <1>3, <1>4
  <1>7. /\ \A e \in Drivers : currentTrip'[e] # t
        /\ \A e \in Drivers : WorkBound(e)'
        /\ \A e \in Drivers :
             \/ workState'[e] = workState[e] /\ currentTrip'[e] = currentTrip[e]
             \/ currentTrip[e] \in {t, NoTrip} /\ currentTrip'[e] \in {t, NoTrip}
    BY <1>3, <1>5, FreeingDriver
  <1>8. TripOffersAgree(t)'
    BY <1>3, <1>4, <1>5 DEF TripOffersAgree, Attempts
  <1>9. TripAssignmentAgrees(t)'
    BY <1>3, <1>4, <1>6 DEF TripAssignmentAgrees, Attempts, UnderwayStates
  <1>10. TripWorkAgrees(t)'
    <2>1. \A e \in Drivers : ~Occupies(t, e)'
      BY <1>3, <1>5, <1>6 DEF Occupies, Attempts
    <2> QED
      BY <1>7, <2>1 DEF TripWorkAgrees
  <1>11. OnlyTrip(t)
    BY <1>3, <1>4, <1>7 DEF OnlyTrip
  <1> QED
    BY <1>2, <1>7, <1>8, <1>9, <1>10, <1>11, OneTripAtATime DEF TripAgrees

LEMMA DeadlinePassesAgrees ==
  ASSUME RidesAgree, NEW t \in Trips, NEW n \in Attempts(t), DeadlinePasses(t, n)
  PROVE  RidesAgree'
  <1>1. RideTypeOK'
    BY DeadlinePassesType DEF RidesAgree
  <1>2. /\ offers \in [Trips -> Seq(Offers)] /\ n \in DOMAIN offers[t]
        /\ offers[t] \in Seq(Offers) /\ offers[t][n] \in Offers
    BY OfferRowFacts DEF RidesAgree, RideTypeOK, Attempts
  <1> DEFINE row == [offers[t][n] EXCEPT !.late = TRUE]
  <1>3. /\ row.driver = offers[t][n].driver /\ row.status = offers[t][n].status
        /\ row.reservation = offers[t][n].reservation
    BY <1>2 DEF Offers
  <1>4. offers'[t] = [offers[t] EXCEPT ![n] = row]
    BY <1>2 DEF DeadlinePasses
  <1> HIDE DEF row
  <1>5. /\ DOMAIN offers'[t] = DOMAIN offers[t] /\ Len(offers'[t]) = Len(offers[t])
        /\ \A m \in DOMAIN offers[t] :
             /\ offers'[t][m].driver = offers[t][m].driver
             /\ offers'[t][m].status = offers[t][m].status
             /\ offers'[t][m].reservation = offers[t][m].reservation
    BY <1>2, <1>3, <1>4
  <1>6. UNCHANGED <<workVars, tripState, assignee, assignment>>
    BY DEF DeadlinePasses
  <1>7. TripAgrees(t)
    BY DEF RidesAgree
  <1>8. TripOffersAgree(t)'
    BY <1>5, <1>6, <1>7 DEF TripAgrees, TripOffersAgree, Attempts
  <1>9. TripAssignmentAgrees(t)'
    BY <1>5, <1>6, <1>7 DEF TripAgrees, TripAssignmentAgrees, Attempts
  <1>10. TripWorkAgrees(t)'
    <2>1. \A d \in Drivers : Occupies(t, d)' <=> Occupies(t, d)
      BY <1>5, <1>6 DEF Occupies, Attempts
    <2>2. WorkFor(t)' = WorkFor(t)
      BY <1>6 DEF WorkFor
    <2> QED
      BY <1>6, <1>7, <2>1, <2>2 DEF TripAgrees, TripWorkAgrees, workVars
  <1>11. OnlyTrip(t)
    BY <1>2, <1>6 DEF OnlyTrip, DeadlinePasses, workVars
  <1>12. \A d \in Drivers : WorkBound(d)'
    BY <1>6 DEF RidesAgree, WorkBound, workVars
  <1> QED
    BY <1>1, <1>8, <1>9, <1>10, <1>11, <1>12, OneTripAtATime DEF TripAgrees

LEMMA ChooseWorkStateAgrees ==
  ASSUME RidesAgree, NEW d \in Drivers, ChooseWorkState(d)
  PROVE  RidesAgree'
  <1>1. RideTypeOK'
    BY RideTypeStep DEF RidesAgree, DispatchNext
  <1>2. PICK s \in IdleStates : SetWorkState(d, s)
    BY DEF ChooseWorkState
  <1>3. /\ workState \in [Drivers -> WorkStates]
        /\ currentTrip \in [Drivers -> Trips \cup {NoTrip}]
        /\ \A e \in Drivers : WorkBound(e)
    BY DEF RidesAgree, RideTypeOK, WorkTypeOK
  <1>4. currentTrip[d] = NoTrip /\ currentDelivery[d] = NoDelivery
    BY <1>2, <1>3 DEF SetWorkState, WorkBound, IdleStates, BusyStates
  <1>5. currentTrip' = currentTrip /\ currentDelivery' = currentDelivery
    BY <1>2, <1>3, <1>4 DEF SetWorkState
  <1>6. /\ workState'[d] = s
        /\ \A e \in Drivers \ {d} : workState'[e] = workState[e]
    BY <1>2, <1>3 DEF SetWorkState
  <1>7. \A e \in Drivers : WorkBound(e)'
    BY <1>3, <1>4, <1>5, <1>6 DEF WorkBound, IdleStates, BusyStates
  <1>8. UNCHANGED rideVars
    BY DEF ChooseWorkState
  <1>9. ASSUME NEW t \in Trips
        PROVE  TripAgrees(t)'
    <2>1. TripAgrees(t)
      BY DEF RidesAgree
    <2>2. TripOffersAgree(t)' /\ TripAssignmentAgrees(t)'
      BY <1>8, <2>1 DEF rideVars, TripAgrees, TripOffersAgree, TripAssignmentAgrees, Attempts
    <2>3. \A e \in Drivers : Occupies(t, e)' <=> Occupies(t, e)
      BY <1>8 DEF rideVars, Occupies, Attempts
    <2>4. WorkFor(t)' = WorkFor(t)
      BY <1>8 DEF rideVars, WorkFor
    <2>5. \A e \in Drivers : currentTrip[e] = t => workState'[e] = workState[e]
      BY <1>4, <1>6, NullAssumption
    <2>6. TripWorkAgrees(t)'
      BY <1>5, <2>1, <2>3, <2>4, <2>5 DEF TripAgrees, TripWorkAgrees
    <2> QED
      BY <2>2, <2>6 DEF TripAgrees
  <1> QED
    BY <1>1, <1>7, <1>9 DEF RidesAgree

-------------------------------------------------------------------------------
(* The theorems *)

LEMMA RidesAgreeInitially == DispatchInit => RidesAgree
  <1> SUFFICES ASSUME DispatchInit PROVE RidesAgree
    OBVIOUS
  <1>1. RideTypeOK
    BY DEF DispatchInit, WorkInit, RideTablesInit, RideTypeOK, WorkTypeOK, WorkStates,
       IdleStates, TripStates, AssignmentStatuses, EventTypes
  <1>2. \A d \in Drivers : WorkBound(d)
    BY DEF DispatchInit, WorkInit, WorkBound, BusyStates
  <1>3. ASSUME NEW t \in Trips
        PROVE  TripAgrees(t)
    <2>1. /\ offers[t] = << >> /\ Attempts(t) = {} /\ Len(offers[t]) = 0
          /\ tripState[t] = "REQUESTED" /\ assignment[t] = "NONE" /\ assignee[t] = NoDriver
      BY DEF DispatchInit, RideTablesInit, Attempts
    <2>2. TripOffersAgree(t)
      BY <2>1, AttemptsAssumption DEF TripOffersAgree
    <2>3. TripAssignmentAgrees(t)
      BY <2>1 DEF TripAssignmentAgrees, UnderwayStates
    <2>4. TripWorkAgrees(t)
      BY <2>1, NullAssumption DEF TripWorkAgrees, Occupies, DispatchInit, WorkInit
    <2> QED
      BY <2>2, <2>3, <2>4 DEF TripAgrees
  <1> QED
    BY <1>1, <1>2, <1>3 DEF RidesAgree

LEMMA RidesAgreeStep ==
  ASSUME RidesAgree, [DispatchNext]_dispatchVars
  PROVE  RidesAgree'
  <1>1. ASSUME NEW d \in Drivers, ChooseWorkState(d)
        PROVE  RidesAgree'
    BY <1>1, ChooseWorkStateAgrees
  <1>2. ASSUME NEW t \in Trips, StartMatching(t)
        PROVE  RidesAgree'
    BY <1>2, StartMatchingAgrees
  <1>3. ASSUME NEW t \in Trips, ArriveAtPickup(t) \/ StartTrip(t) \/ CompleteTrip(t)
        PROVE  RidesAgree'
    BY <1>3, ArriveAtPickupAgrees, StartTripAgrees, CompleteTripAgrees
  <1>4. ASSUME NEW t \in Trips, CancelTrip(t)
        PROVE  RidesAgree'
    BY <1>4, CancelUncommittedAgrees, CancelAssignedAgrees DEF CancelTrip
  <1>5. ASSUME NEW t \in Trips, NEW n \in Attempts(t), OfferStep(t, n)
        PROVE  RidesAgree'
    BY <1>5, AcceptInTimeAgrees, AnswerLateAgrees, RejectInTimeAgrees,
       DeadlinePassesAgrees, ExpireDueOfferAgrees DEF OfferStep, AcceptOffer, RejectOffer
  <1>6. ASSUME UNCHANGED dispatchVars
        PROVE  RidesAgree'
    <2>1. UNCHANGED <<workState, currentTrip, currentDelivery, tripState, version,
                      offers, assignee, assignment, outbox>>
      BY <1>6 DEF dispatchVars, workVars, rideVars
    <2>2. RideTypeOK'
      BY RideTypeStep DEF RidesAgree
    <2>3. \A t \in Trips : TripAgrees(t)'
      BY <2>1 DEF RidesAgree, TripAgrees, TripOffersAgree, TripAssignmentAgrees,
         TripWorkAgrees, Occupies, WorkFor, Attempts
    <2>4. \A d \in Drivers : WorkBound(d)'
      BY <2>1 DEF RidesAgree, WorkBound
    <2> QED
      BY <2>2, <2>3, <2>4 DEF RidesAgree
  <1> QED
    BY <1>1, <1>2, <1>3, <1>4, <1>5, <1>6 DEF DispatchNext, TripStep

\* The five tables of ride dispatch agree in every execution: the invariant
\* the three results below are read off.
THEOREM RidesAgreeAlways == DispatchSpec => []RidesAgree
  <1>1. RidesAgree /\ [DispatchNext]_dispatchVars => RidesAgree'
    BY RidesAgreeStep
  <1> QED
    BY RidesAgreeInitially, <1>1, PTL DEF DispatchSpec

\* At most one offer of a Trip is pending, only while the Trip is MATCHING;
\* nobody is asked twice; the attempt limit holds; reservations follow offers.
THEOREM OffersAlwaysAgree == DispatchSpec => []OffersAgree
  <1>1. RidesAgree => OffersAgree
    BY DEF RidesAgree, TripAgrees, OffersAgree
  <1> QED
    BY RidesAgreeAlways, <1>1, PTL

\* A Trip is underway exactly while its assignment is active, and the
\* assignment belongs to the Driver whose offer was accepted.
THEOREM AssignmentsAlwaysAgree == DispatchSpec => []AssignmentAgrees
  <1>1. RidesAgree => AssignmentAgrees
    BY DEF RidesAgree, TripAgrees, AssignmentAgrees
  <1> QED
    BY RidesAgreeAlways, <1>1, PTL

\* The shared Driver table names exactly the Trip that occupies a Driver, so a
\* Driver is never bound to two Trips and never left bound to none.
THEOREM WorkAlwaysAgrees == DispatchSpec => []WorkAgrees
  <1>1. RidesAgree => WorkAgrees
    BY DEF RidesAgree, TripAgrees, WorkAgrees
  <1> QED
    BY RidesAgreeAlways, <1>1, PTL

-------------------------------------------------------------------------------
(* Versions and events *)

\* The versions of a set of events and one more event.
LEMMA VersionsOfOneMore ==
  ASSUME NEW evs, NEW k, NEW event
  PROVE  {e[1] : e \in evs \cup {<<k, event>>}} = {e[1] : e \in evs} \cup {k}
  <1> DEFINE more == <<k, event>>
  <1>1. more[1] = k
    OBVIOUS
  <1> HIDE DEF more
  <1>2. {e[1] : e \in evs \cup {more}} = {e[1] : e \in evs} \cup {k}
    BY <1>1
  <1> QED
    BY <1>2 DEF more

\* Events that cover the versions a Trip moved on by keep its outbox complete.
LEMMA PublishingVersions ==
  ASSUME RideTypeOK, EveryVersionPublished,
         NEW t \in Trips, NEW k \in Nat, NEW evs, Publish(t, evs),
         version' = [version EXCEPT ![t] = k],
         {e[1] : e \in evs} \cup 0..version[t] = 0..k
  PROVE  EveryVersionPublished'
  <1>1. version'[t] = k /\ \A u \in Trips \ {t} : version'[u] = version[u]
    BY DEF RideTypeOK
  <1>2. outbox'[t] = outbox[t] \cup evs /\ \A u \in Trips \ {t} : outbox'[u] = outbox[u]
    BY DEF RideTypeOK, Publish
  <1>3. {e[1] : e \in outbox[t] \cup evs} = {e[1] : e \in outbox[t]} \cup {e[1] : e \in evs}
    OBVIOUS
  <1>4. {e[1] : e \in outbox'[t]} = 0..k
    BY <1>2, <1>3 DEF EveryVersionPublished
  <1> QED
    BY <1>1, <1>2, <1>4 DEF EveryVersionPublished

\* One event with the next version.
LEMMA PublishingNext ==
  ASSUME RideTypeOK, EveryVersionPublished, NEW t \in Trips, NEW event,
         Publish(t, {<<version[t] + 1, event>>}),
         version' = [version EXCEPT ![t] = @ + 1]
  PROVE  EveryVersionPublished'
  <1>1. PICK k \in Nat : k = version[t] + 1 /\ version[t] \in Nat
    BY DEF RideTypeOK
  <1> DEFINE evs == {<<k, event>>}
  <1>2. {e[1] : e \in evs} = {k}
    OBVIOUS
  <1>3. {e[1] : e \in evs} \cup 0..version[t] = 0..k
    BY <1>1, <1>2
  <1>4. Publish(t, evs) /\ version' = [version EXCEPT ![t] = k]
    BY <1>1
  <1> HIDE DEF evs
  <1> QED
    BY <1>3, <1>4, PublishingVersions

\* reserveNextOffer adds an event with the version its caller reached, or the
\* end of matching with one more.
LEMMA ReservingPublishes ==
  ASSUME RideTypeOK, EveryVersionPublished, NEW t \in Trips,
         NEW rows, NEW v \in Nat, NEW evs, NEW freed, NEW event,
         ReserveNextOffer(t, rows, v, evs, freed, event),
         {e[1] : e \in evs} \cup 0..version[t] = 0..v
  PROVE  EveryVersionPublished'
  <1>1. ASSUME Publish(t, evs \cup {<<v, event>>}), version' = [version EXCEPT ![t] = v]
        PROVE  EveryVersionPublished'
    <2>1. {e[1] : e \in evs \cup {<<v, event>>}} = {e[1] : e \in evs} \cup {v}
      BY VersionsOfOneMore
    <2>2. {e[1] : e \in evs \cup {<<v, event>>}} \cup 0..version[t] = 0..v
      BY <2>1
    <2> QED
      BY <1>1, <2>2, PublishingVersions
  <1>2. ASSUME Publish(t, evs \cup {<<v + 1, "trip.no_driver_available">>}),
               version' = [version EXCEPT ![t] = v + 1]
        PROVE  EveryVersionPublished'
    <2> DEFINE all == evs \cup {<<v + 1, "trip.no_driver_available">>}
    <2>1. {e[1] : e \in all} = {e[1] : e \in evs} \cup {v + 1}
      BY VersionsOfOneMore
    <2>2. PICK k \in Nat : k = v + 1
      OBVIOUS
    <2> HIDE DEF all
    <2>3. {e[1] : e \in all} \cup 0..version[t] = 0..v \cup {k}
      BY <2>1, <2>2
    <2>4. {e[1] : e \in all} \cup 0..version[t] = 0..k
      <3>1. 0..v \cup {k} = 0..k
        BY <2>2
      <3> QED
        BY <2>3, <3>1
    <2>5. Publish(t, all) /\ version' = [version EXCEPT ![t] = k]
      BY <1>2, <2>2 DEF all
    <2> QED
      BY <2>4, <2>5, PublishingVersions
  <1> QED
    BY <1>1, <1>2 DEF ReserveNextOffer

LEMMA VersionsPublishedStep ==
  ASSUME RideTypeOK, EveryVersionPublished, [DispatchNext]_dispatchVars
  PROVE  EveryVersionPublished'
  <1>1. \A t \in Trips : version[t] \in Nat
    BY DEF RideTypeOK
  <1>2. ASSUME UNCHANGED <<version, outbox>> PROVE EveryVersionPublished'
    BY <1>2 DEF EveryVersionPublished
  <1>3. ASSUME NEW d \in Drivers, ChooseWorkState(d) PROVE EveryVersionPublished'
    BY <1>2, <1>3 DEF ChooseWorkState, rideVars
  <1>4. ASSUME NEW t \in Trips, StartMatching(t) PROVE EveryVersionPublished'
    <2>1. CASE tripState[t] = "REQUESTED"
      <3>1. ReserveNextOffer(t, offers[t], version[t] + 1,
                             {<<version[t] + 1, "trip.matching.started">>}, {},
                             "dispatch.offer.created")
        BY <1>4, <2>1 DEF StartMatching
      <3>2. {e[1] : e \in {<<version[t] + 1, "trip.matching.started">>}} = {version[t] + 1}
        OBVIOUS
      <3>3. {e[1] : e \in {<<version[t] + 1, "trip.matching.started">>}} \cup 0..version[t]
              = 0..(version[t] + 1)
        BY <1>1, <3>2
      <3> QED
        BY <1>1, <3>1, <3>3, ReservingPublishes
    <2>2. CASE tripState[t] # "REQUESTED"
      <3>1. ReserveNextOffer(t, offers[t], version[t], {}, {}, "dispatch.offer.created")
        BY <1>4, <2>2 DEF StartMatching
      <3>2. {e[1] : e \in {}} \cup 0..version[t] = 0..version[t]
        OBVIOUS
      <3> QED
        BY <1>1, <3>1, <3>2, ReservingPublishes
    <2> QED
      BY <2>1, <2>2
  <1>5. ASSUME NEW t \in Trips,
               ArriveAtPickup(t) \/ StartTrip(t) \/ CompleteTrip(t) \/ CancelTrip(t)
        PROVE  EveryVersionPublished'
    <2>1. /\ \E event : Publish(t, {<<version[t] + 1, event>>})
          /\ version' = [version EXCEPT ![t] = @ + 1]
      BY <1>5 DEF ArriveAtPickup, StartTrip, CompleteTrip, AdvanceTrip, CancelTrip,
         CancelUncommitted, CancelAssigned, EndByCancellation
    <2> QED
      BY <2>1, PublishingNext
  <1>6. ASSUME NEW t \in Trips, NEW n \in Attempts(t), OfferStep(t, n)
        PROVE  EveryVersionPublished'
    <2>1. CASE AcceptInTime(t, n)
      BY <2>1, PublishingNext DEF AcceptInTime
    <2>2. CASE AnswerLate(t, n) \/ DeadlinePasses(t, n)
      BY <1>2, <2>2 DEF AnswerLate, DeadlinePasses
    <2>3. ASSUME NEW rows, NEW freed, NEW what,
                 ReserveNextOffer(t, rows, version[t] + 1, {<<version[t] + 1, what>>}, freed,
                                  "dispatch.offer.reassigned")
          PROVE  EveryVersionPublished'
      <3>1. {e[1] : e \in {<<version[t] + 1, what>>}} = {version[t] + 1}
        OBVIOUS
      <3>2. {e[1] : e \in {<<version[t] + 1, what>>}} \cup 0..version[t] = 0..(version[t] + 1)
        BY <1>1, <3>1
      <3> QED
        BY <1>1, <2>3, <3>2, ReservingPublishes
    <2>4. CASE RejectInTime(t, n)
      BY <2>3, <2>4 DEF RejectInTime
    <2>5. CASE ExpireDueOffer(t, n)
      BY <2>3, <2>5 DEF ExpireDueOffer
    <2> QED
      BY <1>6, <2>1, <2>2, <2>4, <2>5 DEF OfferStep, AcceptOffer, RejectOffer
  <1>7. CASE UNCHANGED dispatchVars
    BY <1>2, <1>7 DEF dispatchVars, rideVars
  <1> QED
    BY <1>3, <1>4, <1>5, <1>6, <1>7 DEF DispatchNext, TripStep

\* A Trip's outbox announces each of its versions and no other in every
\* execution: a client that follows versions sees no gap.
THEOREM VersionsAlwaysPublished == DispatchSpec => []EveryVersionPublished
  <1>1. DispatchInit => EveryVersionPublished
    BY DEF DispatchInit, RideTablesInit, EveryVersionPublished
  <1>2. RideTypeOK /\ EveryVersionPublished /\ [DispatchNext]_dispatchVars
          => EveryVersionPublished'
    BY VersionsPublishedStep
  <1> QED
    BY RideTypes, <1>1, <1>2, PTL DEF DispatchSpec

-------------------------------------------------------------------------------
(* What a step may never do *)

\* A handler of a Trip writes the rows of that Trip.
LEMMA TripStepRows ==
  ASSUME RidesAgree, NEW t \in Trips, TripStep(t), NEW u \in Trips \ {t}
  PROVE  /\ tripState'[u] = tripState[u] /\ offers'[u] = offers[u]
         /\ assignee'[u] = assignee[u] /\ assignment'[u] = assignment[u]
         /\ version'[u] = version[u] /\ outbox'[u] = outbox[u]
  <1>1. /\ tripState \in [Trips -> TripStates] /\ offers \in [Trips -> Seq(Offers)]
        /\ assignee \in [Trips -> Drivers \cup {NoDriver}]
        /\ assignment \in [Trips -> AssignmentStatuses]
        /\ version \in [Trips -> Nat] /\ outbox \in [Trips -> SUBSET (Nat \X EventTypes)]
    BY DEF RidesAgree, RideTypeOK
  <1>2. ASSUME NEW rows, NEW v, NEW evs, NEW freed, NEW event,
               ReserveNextOffer(t, rows, v, evs, freed, event)
        PROVE  /\ tripState'[u] = tripState[u] /\ offers'[u] = offers[u]
               /\ version'[u] = version[u] /\ outbox'[u] = outbox[u]
    BY <1>1, <1>2 DEF ReserveNextOffer, Publish
  <1>3. CASE StartMatching(t)
    BY <1>2, <1>3 DEF StartMatching
  <1>4. CASE ArriveAtPickup(t) \/ StartTrip(t) \/ CompleteTrip(t)
    BY <1>1, <1>4 DEF ArriveAtPickup, StartTrip, CompleteTrip, AdvanceTrip,
       ResolveAssignment, Publish
  <1>5. CASE CancelTrip(t)
    BY <1>1, <1>5 DEF CancelTrip, CancelUncommitted, CancelAssigned, EndByCancellation,
       ResolveAssignment, Publish
  <1>6. ASSUME NEW n \in Attempts(t), OfferStep(t, n)
        PROVE  /\ tripState'[u] = tripState[u] /\ offers'[u] = offers[u]
               /\ assignee'[u] = assignee[u] /\ assignment'[u] = assignment[u]
               /\ version'[u] = version[u] /\ outbox'[u] = outbox[u]
    <2>1. CASE AcceptInTime(t, n)
      BY <1>1, <2>1 DEF AcceptInTime, Publish
    <2>2. CASE AnswerLate(t, n)
      BY <1>1, <2>2 DEF AnswerLate, ExpireOffer
    <2>3. CASE RejectInTime(t, n)
      BY <1>2, <2>3 DEF RejectInTime
    <2>4. CASE DeadlinePasses(t, n)
      BY <1>1, <2>4 DEF DeadlinePasses
    <2>5. CASE ExpireDueOffer(t, n)
      BY <1>2, <2>5 DEF ExpireDueOffer
    <2> QED
      BY <1>6, <2>1, <2>2, <2>3, <2>4, <2>5 DEF OfferStep, AcceptOffer, RejectOffer
  <1> QED
    BY <1>3, <1>4, <1>5, <1>6 DEF TripStep

\* A command of the domain's table applies.
LEMMA TableApplies ==
  ASSUME NEW s, NEW c, NEW u, <<s, c, u>> \in transitions
  PROVE  Recorded(s, u)
  <1> DEFINE row == <<s, c, u>>
  <1>1. row[2] = c
    OBVIOUS
  <1>2. c \in {tr[2] : tr \in transitions}
    <2> HIDE DEF row
    <2>1. row[2] \in {tr[2] : tr \in transitions}
      BY DEF row
    <2> QED
      BY <1>1, <2>1
  <1> QED
    BY <1>2 DEF Recorded, Applies

\* The transitions the handlers record.
LEMMA RecordedByHandlers ==
  /\ Recorded("REQUESTED", "MATCHING") /\ Recorded("MATCHING", "MATCHING")
  /\ Recorded("MATCHING", "NO_DRIVER_AVAILABLE") /\ Recorded("MATCHING", "DRIVER_TO_PICKUP")
  /\ Recorded("DRIVER_TO_PICKUP", "AT_PICKUP") /\ Recorded("AT_PICKUP", "IN_PROGRESS")
  /\ Recorded("IN_PROGRESS", "COMPLETED")
  /\ \A s \in {"REQUESTED", "MATCHING", "DRIVER_TO_PICKUP", "AT_PICKUP"} :
       Recorded(s, "CANCELLED")
  <1>1. /\ <<"REQUESTED", "START_MATCHING", "MATCHING">> \in transitions
        /\ <<"MATCHING", "ASSIGN_DRIVER", "DRIVER_TO_PICKUP">> \in transitions
        /\ <<"MATCHING", "EXHAUST_MATCHING", "NO_DRIVER_AVAILABLE">> \in transitions
        /\ <<"DRIVER_TO_PICKUP", "MARK_AT_PICKUP", "AT_PICKUP">> \in transitions
        /\ <<"AT_PICKUP", "START_TRIP", "IN_PROGRESS">> \in transitions
        /\ <<"IN_PROGRESS", "COMPLETE_TRIP", "COMPLETED">> \in transitions
        /\ \A s \in {"REQUESTED", "MATCHING", "DRIVER_TO_PICKUP", "AT_PICKUP"} :
             <<s, "CANCEL", "CANCELLED">> \in transitions
    BY DEF transitions
  <1>2. Recorded("MATCHING", "MATCHING")
    BY DEF Recorded
  <1> QED
    BY <1>1, <1>2, TableApplies

InsideTable(t) ==
  <<tripState[t], version[t]>>' # <<tripState[t], version[t]>> =>
    RecordedSteps(tripState[t], tripState'[t], version'[t] - version[t])

LEMMA OneTripMoves ==
  ASSUME RideTypeOK, NEW t \in Trips, NEW s, NEW k \in Nat,
         tripState' = [tripState EXCEPT ![t] = s], version' = [version EXCEPT ![t] = k],
         \/ s = tripState[t] /\ k = version[t]
         \/ k = version[t] + 1 /\ Recorded(tripState[t], s)
         \/ k = version[t] + 2 /\ \E m \in TripStates : Recorded(tripState[t], m) /\ Recorded(m, s)
  PROVE  \A u \in Trips : InsideTable(u)
  <1>1. version[t] \in Nat /\ tripState'[t] = s /\ version'[t] = k
    BY DEF RideTypeOK
  <1>2. InsideTable(t)
    BY <1>1 DEF InsideTable, RecordedSteps
  <1>3. \A u \in Trips \ {t} : tripState'[u] = tripState[u] /\ version'[u] = version[u]
    BY DEF RideTypeOK
  <1>4. \A u \in Trips \ {t} : InsideTable(u)
    BY <1>3 DEF InsideTable
  <1> QED
    BY <1>2, <1>4

LEMMA ReservingStaysInside ==
  ASSUME RideTypeOK, NEW t \in Trips, NEW rows, NEW v \in Nat, NEW evs, NEW freed, NEW event,
         ReserveNextOffer(t, rows, v, evs, freed, event),
         \/ tripState[t] = "MATCHING" /\ v \in {version[t], version[t] + 1}
         \/ tripState[t] = "REQUESTED" /\ v = version[t] + 1
  PROVE  \A u \in Trips : InsideTable(u)
  <1>1. version[t] \in Nat /\ v + 1 \in Nat /\ "MATCHING" \in TripStates
    BY DEF RideTypeOK, TripStates
  <1>2. CASE tripState' = [tripState EXCEPT ![t] = "MATCHING"] /\ version' = [version EXCEPT ![t] = v]
    BY <1>1, <1>2, OneTripMoves, RecordedByHandlers
  <1>3. CASE /\ tripState' = [tripState EXCEPT ![t] = "NO_DRIVER_AVAILABLE"]
             /\ version' = [version EXCEPT ![t] = v + 1]
    <2>1. PICK k \in Nat : k = v + 1
      BY <1>1
    <2>2. \/ k = version[t] + 1 /\ Recorded(tripState[t], "NO_DRIVER_AVAILABLE")
          \/ k = version[t] + 2 /\ \E m \in TripStates :
               Recorded(tripState[t], m) /\ Recorded(m, "NO_DRIVER_AVAILABLE")
      BY <1>1, <2>1, RecordedByHandlers
    <2>3. version' = [version EXCEPT ![t] = k]
      BY <1>3, <2>1
    <2> QED
      BY <1>3, <2>2, <2>3, OneTripMoves
  <1> QED
    BY <1>2, <1>3 DEF ReserveNextOffer

LEMMA LifecycleStep ==
  ASSUME RideTypeOK, [DispatchNext]_dispatchVars
  PROVE  \A u \in Trips : InsideTable(u)
  <1>1. ASSUME UNCHANGED <<tripState, version>> PROVE \A u \in Trips : InsideTable(u)
    BY <1>1 DEF InsideTable
  <1>2. ASSUME NEW t \in Trips, NEW s, Recorded(tripState[t], s),
               tripState' = [tripState EXCEPT ![t] = s],
               version' = [version EXCEPT ![t] = @ + 1]
        PROVE  \A u \in Trips : InsideTable(u)
    <2>1. PICK k \in Nat : k = version[t] + 1
      BY DEF RideTypeOK
    <2> QED
      BY <1>2, <2>1, OneTripMoves
  <1>3. ASSUME NEW t \in Trips, TripStep(t) PROVE \A u \in Trips : InsideTable(u)
    <2>1. version[t] \in Nat
      BY DEF RideTypeOK
    <2>2. CASE StartMatching(t)
      <3>1. PICK v \in Nat :
              /\ \E evs : ReserveNextOffer(t, offers[t], v, evs, {}, "dispatch.offer.created")
              /\ \/ tripState[t] = "MATCHING" /\ v = version[t]
                 \/ tripState[t] = "REQUESTED" /\ v = version[t] + 1
        BY <2>1, <2>2 DEF StartMatching
      <3> QED
        BY <3>1, ReservingStaysInside
    <2>3. CASE ArriveAtPickup(t) \/ StartTrip(t) \/ CompleteTrip(t)
      BY <1>2, <2>3, RecordedByHandlers DEF ArriveAtPickup, StartTrip, CompleteTrip, AdvanceTrip
    <2>4. CASE CancelTrip(t)
      BY <1>2, <2>4, RecordedByHandlers DEF CancelTrip, CancelUncommitted, CancelAssigned,
         EndByCancellation, UncommittedStates, AssignedStates
    <2>5. ASSUME NEW n \in Attempts(t), OfferStep(t, n) PROVE \A u \in Trips : InsideTable(u)
      <3>1. CASE AcceptInTime(t, n)
        BY <1>2, <3>1, RecordedByHandlers DEF AcceptInTime
      <3>2. CASE AnswerLate(t, n) \/ DeadlinePasses(t, n)
        BY <1>1, <3>2 DEF AnswerLate, DeadlinePasses
      <3>3. ASSUME RejectInTime(t, n) \/ ExpireDueOffer(t, n)
            PROVE  \A u \in Trips : InsideTable(u)
        <4>1. PICK v \in Nat :
                /\ \E rows, evs, freed :
                     ReserveNextOffer(t, rows, v, evs, freed, "dispatch.offer.reassigned")
                /\ tripState[t] = "MATCHING" /\ v = version[t] + 1
          BY <2>1, <3>3 DEF RejectInTime, ExpireDueOffer, ExpiryDue
        <4> QED
          BY <4>1, ReservingStaysInside
      <3> QED
        BY <2>5, <3>1, <3>2, <3>3 DEF OfferStep, AcceptOffer, RejectOffer
    <2> QED
      BY <1>3, <2>2, <2>3, <2>4, <2>5 DEF TripStep
  <1>4. CASE UNCHANGED dispatchVars
    BY <1>1, <1>4 DEF dispatchVars, rideVars
  <1>5. ASSUME NEW d \in Drivers, ChooseWorkState(d) PROVE \A u \in Trips : InsideTable(u)
    BY <1>1, <1>5 DEF ChooseWorkState, rideVars
  <1> QED
    BY <1>3, <1>4, <1>5 DEF DispatchNext

\* The SQL handlers, which restate the domain's state machine instead of calling
\* it, only ever move a Trip along its table, one version per transition.
THEOREM TripsFollowTheTable == DispatchSpec => LifecycleSteps
  <1>1. RideTypeOK /\ [DispatchNext]_dispatchVars =>
          [\A t \in Trips :
             <<tripState[t], version[t]>>' # <<tripState[t], version[t]>> =>
               RecordedSteps(tripState[t], tripState'[t], version'[t] - version[t])]_dispatchVars
    BY LifecycleStep DEF InsideTable
  <1> QED
    BY <1>1, RideTypes, PTL DEF DispatchSpec, LifecycleSteps

-------------------------------------------------------------------------------
(* What is settled *)

\* Every resolved offer of f is in g as it was.
KeepsResolved(f, g) ==
  \A n \in DOMAIN f : f[n].status # "PENDING" => n \in DOMAIN g /\ g[n] = f[n]

LEMMA ResolvingKeeps ==
  ASSUME RideTypeOK, NEW t \in Trips, NEW n \in Attempts(t), offers[t][n].status = "PENDING",
         NEW o \in OfferStatuses, NEW r \in ReservationStatuses
  PROVE  KeepsResolved(offers[t], Resolve(t, n, o, r)) /\ Resolve(t, n, o, r) \in Seq(Offers)
  BY ResolveFacts DEF RideTypeOK, Attempts, KeepsResolved

LEMMA ReservingKeeps ==
  ASSUME RideTypeOK, NEW t \in Trips, NEW rows \in Seq(Offers), KeepsResolved(offers[t], rows),
         NEW v, NEW evs, NEW freed, NEW event, ReserveNextOffer(t, rows, v, evs, freed, event)
  PROVE  KeepsResolved(offers[t], offers'[t])
  <1>1. offers'[t] = rows \/ \E d \in Drivers : offers'[t] = Append(rows, NewOffer(d))
    BY DEF ReserveNextOffer, RideTypeOK, Candidates
  <1>2. ASSUME NEW o PROVE KeepsResolved(offers[t], Append(rows, o))
    <2>1. \A m \in DOMAIN rows : m \in DOMAIN Append(rows, o) /\ Append(rows, o)[m] = rows[m]
      OBVIOUS
    <2> QED
      BY <2>1 DEF KeepsResolved
  <1> QED
    BY <1>1, <1>2

\* No handler runs on a terminal Trip, and none rewrites a resolved offer.
LEMMA TripStepKeeps ==
  ASSUME RidesAgree, NEW t \in Trips, TripStep(t)
  PROVE  tripState[t] \notin terminalTripStates /\ KeepsResolved(offers[t], offers'[t])
  <1>1. RideTypeOK /\ offers \in [Trips -> Seq(Offers)] /\ offers[t] \in Seq(Offers)
    BY DEF RidesAgree, RideTypeOK
  <1>2. KeepsResolved(offers[t], offers[t])
    BY DEF KeepsResolved
  <1>3. ASSUME NEW n \in Attempts(t), offers[t][n].status = "PENDING"
        PROVE  /\ tripState[t] = "MATCHING"
               /\ \A o \in OfferStatuses, r \in ReservationStatuses :
                    /\ KeepsResolved(offers[t], Resolve(t, n, o, r))
                    /\ Resolve(t, n, o, r) \in Seq(Offers)
    BY <1>1, <1>3, PendingFacts, ResolvingKeeps
  <1>4. CASE StartMatching(t)
    <2>1. /\ tripState[t] \notin terminalTripStates
          /\ \E v, evs : ReserveNextOffer(t, offers[t], v, evs, {}, "dispatch.offer.created")
      BY <1>4 DEF StartMatching, terminalTripStates
    <2> QED
      BY <1>1, <1>2, <2>1, ReservingKeeps
  <1>5. CASE ArriveAtPickup(t) \/ StartTrip(t) \/ CompleteTrip(t) \/ CancelAssigned(t)
    BY <1>2, <1>5 DEF ArriveAtPickup, StartTrip, CompleteTrip, AdvanceTrip, CancelAssigned,
       AssignedStates, terminalTripStates
  <1>6. CASE CancelUncommitted(t)
    <2>1. tripState[t] \notin terminalTripStates
      BY <1>6 DEF CancelUncommitted, UncommittedStates, terminalTripStates
    <2>2. ASSUME NEW n \in Pending(t),
                 offers' = [offers EXCEPT ![t] = Resolve(t, n, "REVOKED", "RELEASED")]
          PROVE  KeepsResolved(offers[t], offers'[t])
      <3>1. offers'[t] = Resolve(t, n, "REVOKED", "RELEASED")
        BY <1>1, <2>2
      <3> QED
        BY <1>3, <3>1 DEF Pending, OfferStatuses, ReservationStatuses
    <2> QED
      BY <1>2, <1>6, <2>1, <2>2 DEF CancelUncommitted
  <1>7. ASSUME NEW n \in Attempts(t), OfferStep(t, n)
        PROVE  tripState[t] \notin terminalTripStates /\ KeepsResolved(offers[t], offers'[t])
    <2>1. offers[t][n].status = "PENDING" /\ tripState[t] \notin terminalTripStates
      <3>1. offers[t][n].status = "PENDING"
        BY <1>7 DEF OfferStep, AcceptOffer, RejectOffer, AcceptInTime, AnswerLate, RejectInTime,
           Answerable, DeadlinePasses, ExpireDueOffer, ExpiryDue
      <3> QED
        BY <1>3, <3>1 DEF terminalTripStates
    <2>2. ASSUME NEW o \in OfferStatuses, NEW r \in ReservationStatuses,
                 offers' = [offers EXCEPT ![t] = Resolve(t, n, o, r)]
          PROVE  KeepsResolved(offers[t], offers'[t])
      <3>1. offers'[t] = Resolve(t, n, o, r)
        BY <1>1, <2>2
      <3> QED
        BY <1>3, <2>1, <3>1
    <2>3. CASE AcceptInTime(t, n) \/ AnswerLate(t, n)
      BY <2>1, <2>2, <2>3 DEF AcceptInTime, AnswerLate, ExpireOffer, OfferStatuses,
         ReservationStatuses
    <2>4. CASE RejectInTime(t, n) \/ ExpireDueOffer(t, n)
      <3>1. PICK o \in OfferStatuses, r \in ReservationStatuses :
              \E v, evs, freed : ReserveNextOffer(t, Resolve(t, n, o, r), v, evs, freed,
                                                  "dispatch.offer.reassigned")
        BY <2>4 DEF RejectInTime, ExpireDueOffer, OfferStatuses, ReservationStatuses
      <3>2. KeepsResolved(offers[t], Resolve(t, n, o, r)) /\ Resolve(t, n, o, r) \in Seq(Offers)
        BY <1>3, <2>1
      <3> QED
        BY <1>1, <2>1, <3>1, <3>2, ReservingKeeps
    <2>5. CASE DeadlinePasses(t, n)
      <3>1. offers'[t] = [offers[t] EXCEPT ![n].late = TRUE]
        BY <1>1, <2>5 DEF DeadlinePasses
      <3>2. /\ DOMAIN offers'[t] = DOMAIN offers[t]
            /\ \A m \in DOMAIN offers[t] : m # n => offers'[t][m] = offers[t][m]
        BY <3>1
      <3> QED
        BY <2>1, <3>2 DEF KeepsResolved
    <2> QED
      BY <1>7, <2>1, <2>3, <2>4, <2>5 DEF OfferStep, AcceptOffer, RejectOffer
  <1> QED
    BY <1>4, <1>5, <1>6, <1>7 DEF TripStep, CancelTrip

Settled(t) ==
  /\ KeepsResolved(offers[t], offers'[t])
  /\ tripState[t] \in terminalTripStates =>
       UNCHANGED <<tripState[t], version[t], offers[t], assignment[t], assignee[t], outbox[t]>>

LEMMA SettledStep ==
  ASSUME RidesAgree, [DispatchNext]_dispatchVars
  PROVE  \A u \in Trips : Settled(u)
  <1>1. ASSUME UNCHANGED rideVars PROVE \A u \in Trips : Settled(u)
    BY <1>1 DEF rideVars, Settled, KeepsResolved
  <1>2. ASSUME NEW t \in Trips, TripStep(t), NEW u \in Trips PROVE Settled(u)
    <2>1. CASE u = t
      BY <1>2, <2>1, TripStepKeeps DEF Settled
    <2>2. CASE u # t
      BY <1>2, <2>2, TripStepRows DEF Settled, KeepsResolved
    <2> QED
      BY <2>1, <2>2
  <1> QED
    BY <1>1, <1>2 DEF DispatchNext, ChooseWorkState, dispatchVars, rideVars

\* A resolved offer is never rewritten and nothing of a terminal Trip ever
\* changes, whichever command, late answer or sweep of the worker comes after.
THEOREM SettledStaysSettled == DispatchSpec => SettledForGood
  <1>1. RidesAgree /\ [DispatchNext]_dispatchVars =>
          [\A t \in Trips :
             /\ \A n \in Attempts(t) : offers[t][n].status # "PENDING" =>
                  n \in DOMAIN offers'[t] /\ offers'[t][n] = offers[t][n]
             /\ tripState[t] \in terminalTripStates =>
                  UNCHANGED <<tripState[t], version[t], offers[t], assignment[t],
                              assignee[t], outbox[t]>>]_dispatchVars
    BY SettledStep DEF Settled, KeepsResolved, Attempts
  <1> QED
    BY <1>1, RidesAgreeAlways, PTL DEF DispatchSpec, SettledForGood

===============================================================================
