------------------------------- MODULE Dispatch -------------------------------
(***************************************************************************)
(* Ride dispatch: dispatch.repository.ts and the customer cancellation of  *)
(* trip.repository.ts, over the tables trip.trips, dispatch.trip_offers,   *)
(* dispatch.driver_reservations, dispatch.assignments and the shared       *)
(* dispatch.driver_work_states.                                            *)
(*                                                                         *)
(* Every handler is one database transaction whose first row lock is the   *)
(* Trip's, and nothing it reads afterwards can be changed by another       *)
(* handler before it commits, so a handler is one action.  Handlers that   *)
(* throw roll back, so they are steps that change nothing and appear here  *)
(* only as guards; so do replays of an idempotency key, which answer from  *)
(* the stored receipt.                                                     *)
(***************************************************************************)
EXTENDS DriverWork, TripLifecycle, Sequences, FiniteSets

CONSTANT MaxOfferAttempts   \* MAX_OFFER_ATTEMPTS

ASSUME AttemptsAssumption == MaxOfferAttempts \in Nat \ {0}

VARIABLES
  tripState,    \* trip.trips.state
  version,      \* trip.trips.version
  offers,       \* the Trip's rows of trip_offers, by attempt_number, each with
                \* the one reservation it points to and whether the deadline
                \* the two share has passed
  assignee,     \* driver_user_id of the Trip's only Assignment row
  assignment,   \* status of that row, "NONE" while there is none
  outbox        \* the Trip's rows of trip.outbox_events, as
                \* <<aggregate_version, event_type>>

rideVars == <<tripState, version, offers, assignee, assignment, outbox>>
dispatchVars == <<workVars, rideVars>>

OfferStatuses == {"PENDING", "ACCEPTED", "REJECTED", "EXPIRED", "REVOKED"}
ReservationStatuses == {"ACTIVE", "COMMITTED", "RELEASED", "EXPIRED"}
AssignmentStatuses == {"NONE", "ACTIVE", "COMPLETED", "CANCELLED"}

Offers == [driver : Drivers, status : OfferStatuses,
           reservation : ReservationStatuses, late : BOOLEAN]

EventTypes == {"trip.created", "trip.matching.started", "dispatch.offer.created",
               "dispatch.offer.reassigned", "dispatch.offer.rejected",
               "dispatch.offer.expired", "trip.no_driver_available",
               "trip.driver.assigned", "trip.driver.arrived", "trip.started",
               "trip.completed", "trip.cancelled"}

RideTypeOK ==
  /\ WorkTypeOK
  /\ tripState \in [Trips -> TripStates]
  /\ version \in [Trips -> Nat]
  /\ offers \in [Trips -> Seq(Offers)]
  /\ assignee \in [Trips -> Drivers \cup {NoDriver}]
  /\ assignment \in [Trips -> AssignmentStatuses]
  /\ outbox \in [Trips -> SUBSET (Nat \X EventTypes)]

\* Trips as createTrip leaves them.
RideTablesInit ==
  /\ tripState = [t \in Trips |-> "REQUESTED"]
  /\ version = [t \in Trips |-> 0]
  /\ offers = [t \in Trips |-> << >>]
  /\ assignee = [t \in Trips |-> NoDriver]
  /\ assignment = [t \in Trips |-> "NONE"]
  /\ outbox = [t \in Trips |-> {<<0, "trip.created">>}]

DispatchInit == WorkInit /\ RideTablesInit

-------------------------------------------------------------------------------
(* Helpers *)

Attempts(t) == DOMAIN offers[t]
Pending(t) == {n \in Attempts(t) : offers[t][n].status = "PENDING"}

\* offers[t] once attempt n is resolved with the given offer and reservation
\* statuses.
Resolve(t, n, offerStatus, reservationStatus) ==
  [offers[t] EXCEPT ![n].status = offerStatus, ![n].reservation = reservationStatus]

\* The outbox of t with the events in evs added.  UNIQUE (trip_id,
\* aggregate_version, event_type) aborts the transaction on a duplicate.
Publish(t, evs) ==
  /\ evs \cap outbox[t] = {}
  /\ outbox' = [outbox EXCEPT ![t] = @ \cup evs]

\* Mutant of Candidates: the attempt limit is off by one.
CandidatesBeyondLimit(t, qualified) ==
  {d \in qualified :
     /\ Len(offers[t]) <= MaxOfferAttempts
     /\ workState[d] = "AVAILABLE"
     /\ currentTrip[d] = NoTrip
     /\ \A u \in Trips : \A n \in Attempts(u) :
          offers[u][n].driver = d => u # t /\ offers[u][n].reservation # "ACTIVE"}

\* The candidate query of reserveNextOffer, over the Drivers whose profile,
\* vehicle and location qualify for this Trip and whose row no other
\* transaction has locked (SKIP LOCKED).  At MaxOfferAttempts it is not run.
Candidates(t, qualified) ==
  {d \in qualified :
     /\ Len(offers[t]) + 1 <= MaxOfferAttempts
     /\ workState[d] = "AVAILABLE"
     /\ currentTrip[d] = NoTrip
     /\ \A u \in Trips : \A n \in Attempts(u) :
          offers[u][n].driver = d => u # t /\ offers[u][n].reservation # "ACTIVE"}

NewOffer(d) ==
  [driver |-> d, status |-> "PENDING", reservation |-> "ACTIVE", late |-> FALSE]

\* reserveNextOffer and what every caller does with its answer.  rows: the
\* Trip's offers so far; v: the Trip's version so far; evs: the events so far;
\* freed: the Driver the same transaction has released (none: {}); event: the
\* type of a new offer's event.  Ranking is abstracted to any candidate.
ReserveNextOffer(t, rows, v, evs, freed, event) ==
  \E qualified \in SUBSET Drivers :
    LET pool == Candidates(t, qualified)
        released == [d \in Drivers |->
                       IF d \in freed THEN "AVAILABLE" ELSE workState[d]]
        unbound == [d \in Drivers |->
                      IF d \in freed THEN NoTrip ELSE currentTrip[d]]
    IN \/ \E d \in pool :
            /\ offers' = [offers EXCEPT ![t] = Append(rows, NewOffer(d))]
            /\ tripState' = [tripState EXCEPT ![t] = "MATCHING"]
            /\ version' = [version EXCEPT ![t] = v]
            /\ Publish(t, evs \cup {<<v, event>>})
            /\ workState' = [released EXCEPT ![d] = "RESERVED"]
            /\ currentTrip' = [unbound EXCEPT ![d] = t]
       \/ /\ pool = {}
          /\ offers' = [offers EXCEPT ![t] = rows]
          /\ tripState' = [tripState EXCEPT ![t] = "NO_DRIVER_AVAILABLE"]
          /\ version' = [version EXCEPT ![t] = v + 1]
          /\ Publish(t, evs \cup {<<v + 1, "trip.no_driver_available">>})
          /\ workState' = released
          /\ currentTrip' = unbound

\* Mutant of ExpireOffer: the Driver is not released.
ExpireOfferOnly(t, n) ==
  /\ offers' = [offers EXCEPT ![t] = Resolve(t, n, "EXPIRED", "EXPIRED")]
  /\ UNCHANGED workVars

\* expireOffer: the offer and its reservation expire and the Driver, if still
\* reserved for this Trip, is available again.  The Trip is not touched.
ExpireOffer(t, n) ==
  LET d == offers[t][n].driver IN
  /\ offers' = [offers EXCEPT ![t] = Resolve(t, n, "EXPIRED", "EXPIRED")]
  /\ IF workState[d] = "RESERVED" /\ currentTrip[d] = t
     THEN MoveDriver(d, "AVAILABLE", NoTrip)
     ELSE UNCHANGED workVars

\* An offer its Driver may still answer: acceptOffer and rejectOffer return
\* OFFER_ALREADY_RESOLVED otherwise.
Answerable(t, n) ==
  /\ offers[t][n].status = "PENDING"
  /\ offers[t][n].reservation = "ACTIVE"

\* An answer that finds the deadline passed expires the offer, commits, and
\* reports OFFER_EXPIRED: no version, no transition, no event, no next offer.
AnswerLate(t, n) ==
  /\ Answerable(t, n)
  /\ offers[t][n].late
  /\ ExpireOffer(t, n)
  /\ UNCHANGED <<tripState, version, assignee, assignment, outbox>>

-------------------------------------------------------------------------------
(* Customer and Driver commands *)

\* startMatching.  With an offer already pending the command only returns it.
StartMatching(t) ==
  /\ tripState[t] \in {"REQUESTED", "MATCHING"}
  /\ Pending(t) = {}
  /\ LET first == tripState[t] = "REQUESTED"
         v == IF first THEN version[t] + 1 ELSE version[t]
         evs == IF first THEN {<<v, "trip.matching.started">>} ELSE {}
     IN ReserveNextOffer(t, offers[t], v, evs, {}, "dispatch.offer.created")
  /\ UNCHANGED <<currentDelivery, assignee, assignment>>

\* acceptOffer before the deadline.
AcceptInTime(t, n) ==
  LET d == offers[t][n].driver IN
  /\ Answerable(t, n)
  /\ ~offers[t][n].late
  /\ tripState[t] = "MATCHING"
  /\ workState[d] = "RESERVED" /\ currentTrip[d] = t
  /\ offers' = [offers EXCEPT ![t] = Resolve(t, n, "ACCEPTED", "COMMITTED")]
  /\ MoveDriver(d, "TO_PICKUP", t)
  /\ assignment[t] = "NONE"             \* UNIQUE (trip_id) on assignments
  /\ assignee' = [assignee EXCEPT ![t] = d]
  /\ assignment' = [assignment EXCEPT ![t] = "ACTIVE"]
  /\ tripState' = [tripState EXCEPT ![t] = "DRIVER_TO_PICKUP"]
  /\ version' = [version EXCEPT ![t] = @ + 1]
  /\ Publish(t, {<<version[t] + 1, "trip.driver.assigned">>})

AcceptOffer(t, n) == AcceptInTime(t, n) \/ AnswerLate(t, n)

\* rejectOffer before the deadline, with the next attempt in the same
\* transaction.
RejectInTime(t, n) ==
  LET d == offers[t][n].driver
      v == version[t] + 1
  IN /\ Answerable(t, n)
     /\ ~offers[t][n].late
     /\ tripState[t] = "MATCHING"
     /\ workState[d] = "RESERVED" /\ currentTrip[d] = t
     /\ ReserveNextOffer(t, Resolve(t, n, "REJECTED", "RELEASED"), v,
                         {<<v, "dispatch.offer.rejected">>}, {d},
                         "dispatch.offer.reassigned")
     /\ UNCHANGED <<currentDelivery, assignee, assignment>>

RejectOffer(t, n) == RejectInTime(t, n) \/ AnswerLate(t, n)

\* Mutant of ResolveAssignment: the row stays as it is.
LeaveAssignment(t, status) == UNCHANGED assignment

\* The UPDATE of the Trip's assignments row that completes or cancels it.
ResolveAssignment(t, status) ==
  assignment' = [assignment EXCEPT ![t] = status]

\* transitionAssignedTrip: one row of assignedTripTransitionPolicy.
AdvanceTrip(t, from, to, workFrom, workTo, event) ==
  LET d == assignee[t] IN
  /\ assignment[t] = "ACTIVE"
  /\ tripState[t] = from
  /\ workState[d] = workFrom /\ currentTrip[d] = t
  /\ tripState' = [tripState EXCEPT ![t] = to]
  /\ version' = [version EXCEPT ![t] = @ + 1]
  /\ Publish(t, {<<version[t] + 1, event>>})
  /\ IF to = "COMPLETED"
     THEN /\ ResolveAssignment(t, "COMPLETED")
          /\ MoveDriver(d, workTo, NoTrip)
     ELSE /\ UNCHANGED assignment
          /\ MoveDriver(d, workTo, t)
  /\ UNCHANGED <<offers, assignee>>

ArriveAtPickup(t) ==
  AdvanceTrip(t, "DRIVER_TO_PICKUP", "AT_PICKUP",
              "TO_PICKUP", "TO_PICKUP", "trip.driver.arrived")

StartTrip(t) ==
  AdvanceTrip(t, "AT_PICKUP", "IN_PROGRESS", "TO_PICKUP", "ON_TRIP", "trip.started")

CompleteTrip(t) ==
  AdvanceTrip(t, "IN_PROGRESS", "COMPLETED", "ON_TRIP", "AVAILABLE", "trip.completed")

\* Mutant of UncommittedStates: a Trip no Driver was found for is cancellable.
UncommittedOrExhausted == {"REQUESTED", "MATCHING", "NO_DRIVER_AVAILABLE"}

\* customerCancellationRule: the states with the rule for either case.
UncommittedStates == {"REQUESTED", "MATCHING"}
AssignedStates == {"DRIVER_TO_PICKUP", "AT_PICKUP"}

\* Mutant of EndByCancellation: the Trip keeps its version, its event does not.
EndWithoutVersion(t) ==
  /\ tripState' = [tripState EXCEPT ![t] = "CANCELLED"]
  /\ UNCHANGED version
  /\ Publish(t, {<<version[t] + 1, "trip.cancelled">>})
  /\ UNCHANGED assignee

\* What cancelTrip by the Customer does in every state it is allowed in.
EndByCancellation(t) ==
  /\ tripState' = [tripState EXCEPT ![t] = "CANCELLED"]
  /\ version' = [version EXCEPT ![t] = @ + 1]
  /\ Publish(t, {<<version[t] + 1, "trip.cancelled">>})
  /\ UNCHANGED assignee

\* Before any commitment: the pending offer, if there is one, is revoked.
CancelUncommitted(t) ==
  /\ tripState[t] \in UncommittedStates
  /\ IF tripState[t] = "MATCHING" /\ Pending(t) # {}
     THEN \E n \in Pending(t) :
            LET d == offers[t][n].driver IN
            /\ workState[d] = "RESERVED" /\ currentTrip[d] = t
            /\ offers' = [offers EXCEPT ![t] = Resolve(t, n, "REVOKED", "RELEASED")]
            /\ MoveDriver(d, "AVAILABLE", NoTrip)
     ELSE UNCHANGED <<offers, workVars>>
  /\ EndByCancellation(t)
  /\ UNCHANGED assignment

\* After acceptance and before the Trip starts: the assignment is cancelled.
CancelAssigned(t) ==
  LET d == assignee[t] IN
  /\ tripState[t] \in AssignedStates
  /\ assignment[t] = "ACTIVE"
  /\ workState[d] = "TO_PICKUP" /\ currentTrip[d] = t
  /\ ResolveAssignment(t, "CANCELLED")
  /\ MoveDriver(d, "AVAILABLE", NoTrip)
  /\ EndByCancellation(t)
  /\ UNCHANGED offers

CancelTrip(t) == CancelUncommitted(t) \/ CancelAssigned(t)

-------------------------------------------------------------------------------
(* Time and the expiry worker *)

\* The deadline an offer shares with its reservation passes.
DeadlinePasses(t, n) ==
  /\ offers[t][n].status = "PENDING"
  /\ ~offers[t][n].late
  /\ offers' = [offers EXCEPT ![t][n].late = TRUE]
  /\ UNCHANGED <<workVars, tripState, version, assignee, assignment, outbox>>

\* Mutant of ExpiryDue: the last attempt is left to somebody else.
ExpiryDueBelowLimit(t, n) ==
  /\ offers[t][n].status = "PENDING"
  /\ offers[t][n].late
  /\ tripState[t] = "MATCHING"
  /\ Len(offers[t]) < MaxOfferAttempts

\* evaluateDispatchExpiry, where it allows matching to be retried.  Its other
\* verdict for a due offer, on a Trip that is no longer MATCHING, is left out:
\* no pending offer is ever on such a Trip (OffersAgree).
ExpiryDue(t, n) ==
  /\ offers[t][n].status = "PENDING"
  /\ offers[t][n].late
  /\ tripState[t] = "MATCHING"
  /\ offers[t][n].reservation \in {"ACTIVE", "EXPIRED"}
  /\ workState[offers[t][n].driver] \in {"RESERVED", "AVAILABLE"}

\* expireDueOffer.  The worklist read is not locked, and everything is checked
\* again here under the Trip's lock; a row some command has locked is skipped
\* until a later sweep.
ExpireDueOffer(t, n) ==
  LET d == offers[t][n].driver
      v == version[t] + 1
  IN /\ ExpiryDue(t, n)
     /\ ReserveNextOffer(t, Resolve(t, n, "EXPIRED", "EXPIRED"), v,
                         {<<v, "dispatch.offer.expired">>},
                         {e \in {d} : workState[e] = "RESERVED" /\ currentTrip[e] = t},
                         "dispatch.offer.reassigned")
     /\ UNCHANGED <<currentDelivery, assignee, assignment>>

-------------------------------------------------------------------------------
(* Specification *)

\* setWorkState does not touch the ride tables.
ChooseWorkState(d) ==
  /\ \E s \in IdleStates : SetWorkState(d, s)
  /\ UNCHANGED rideVars

OfferStep(t, n) ==
  \/ AcceptOffer(t, n)
  \/ RejectOffer(t, n)
  \/ DeadlinePasses(t, n)
  \/ ExpireDueOffer(t, n)

TripStep(t) ==
  \/ StartMatching(t)
  \/ ArriveAtPickup(t)
  \/ StartTrip(t)
  \/ CompleteTrip(t)
  \/ CancelTrip(t)
  \/ \E n \in Attempts(t) : OfferStep(t, n)

DispatchNext ==
  \/ \E d \in Drivers : ChooseWorkState(d)
  \/ \E t \in Trips : TripStep(t)

DispatchSpec == DispatchInit /\ [][DispatchNext]_dispatchVars

\* Clocks advance, and the worker's interval timer keeps sweeping: it is
\* started with the module and a failed sweep does not stop it.  Commands are
\* never owed: Customers and Drivers may walk away.
WorkerFairness ==
  \A t \in Trips, n \in 1..MaxOfferAttempts :
    /\ WF_dispatchVars(n \in Attempts(t) /\ DeadlinePasses(t, n))
    /\ WF_dispatchVars(n \in Attempts(t) /\ ExpireDueOffer(t, n))

FairDispatchSpec == DispatchSpec /\ WorkerFairness

===============================================================================
