-------------------------- MODULE DispatchProperties --------------------------
(***************************************************************************)
(* What ride dispatch must guarantee: agreement of the five tables its     *)
(* transactions write, what a step may never do, how its tables read as    *)
(* the abstract commitment, and release of the Drivers it reserves.        *)
(***************************************************************************)
EXTENDS Dispatch

(* Invariants *)

\* The reservation status an offer status stands for.
ReservationOf(status) ==
  CASE status = "PENDING"  -> "ACTIVE"
    [] status = "ACCEPTED" -> "COMMITTED"
    [] status = "EXPIRED"  -> "EXPIRED"
    [] OTHER               -> "RELEASED"

\* Offers are sent one at a time, within the attempt limit, each to a Driver
\* the Trip has not asked before; a pending one is the last and its Trip is
\* MATCHING, so cancellation, acceptance and exhaustion leave none behind;
\* and each offer's reservation was resolved together with it.
TripOffersAgree(t) ==
  /\ Len(offers[t]) <= MaxOfferAttempts
  /\ \A n \in Attempts(t) :
       /\ offers[t][n].reservation = ReservationOf(offers[t][n].status)
       /\ offers[t][n].status \in {"PENDING", "ACCEPTED"} => n = Len(offers[t])
       /\ offers[t][n].status = "PENDING" => tripState[t] = "MATCHING"
       /\ \A m \in Attempts(t) :
            offers[t][m].driver = offers[t][n].driver => m = n

OffersAgree == \A t \in Trips : TripOffersAgree(t)

UnderwayStates == {"DRIVER_TO_PICKUP", "AT_PICKUP", "IN_PROGRESS"}

\* A Trip has an active assignment exactly while it is underway, a completed
\* one exactly when it completed; an assignment belongs to the Driver of the
\* Trip's one accepted offer, and every accepted offer has its assignment.
TripAssignmentAgrees(t) ==
  /\ assignment[t] = "ACTIVE" <=> tripState[t] \in UnderwayStates
  /\ assignment[t] = "COMPLETED" <=> tripState[t] = "COMPLETED"
  /\ assignment[t] = "CANCELLED" => tripState[t] = "CANCELLED"
  /\ assignment[t] = "NONE" <=> assignee[t] = NoDriver
  /\ \A n \in Attempts(t) : offers[t][n].status = "ACCEPTED" =>
       assignee[t] = offers[t][n].driver
  /\ assignment[t] # "NONE" =>
       \E n \in Attempts(t) : offers[t][n].status = "ACCEPTED"

AssignmentAgrees == \A t \in Trips : TripAssignmentAgrees(t)

\* The Driver Trip t occupies: of its pending offer or its active assignment.
Occupies(t, d) ==
  \/ \E n \in Attempts(t) : offers[t][n].status = "PENDING" /\ offers[t][n].driver = d
  \/ assignment[t] = "ACTIVE" /\ assignee[t] = d

\* A Driver's work state while Trip t occupies the Driver.
WorkFor(t) ==
  CASE tripState[t] = "MATCHING"    -> "RESERVED"
    [] tripState[t] = "IN_PROGRESS" -> "ON_TRIP"
    [] OTHER                        -> "TO_PICKUP"

TripWorkAgrees(t) ==
  \A d \in Drivers :
    /\ currentTrip[d] = t <=> Occupies(t, d)
    /\ currentTrip[d] = t => workState[d] = WorkFor(t)

\* The row of Driver d binds the Driver to one job exactly in a busy state.
WorkBound(d) ==
  /\ workState[d] \in BusyStates <=>
       currentTrip[d] # NoTrip \/ currentDelivery[d] # NoDelivery
  /\ currentTrip[d] = NoTrip \/ currentDelivery[d] = NoDelivery

\* The Driver's row tells the truth about the Trip's rows: current_trip_id
\* names exactly the Trip that occupies the Driver, in the matching work state.
\* In particular a Driver has at most one pending offer or active assignment,
\* and no Driver stays bound to a Trip that has let go.
WorkAgrees ==
  /\ \A t \in Trips : TripWorkAgrees(t)
  /\ \A d \in Drivers : WorkBound(d)

\* Every Trip version, and no other, is announced in the outbox: a client that
\* follows versions sees no gap, and no event of a version never committed.
EveryVersionPublished ==
  \A t \in Trips : {e[1] : e \in outbox[t]} = 0..version[t]

-------------------------------------------------------------------------------
(* Action properties *)

\* Whatever a transaction does to a Trip, the Trip moves along the domain
\* table of TripLifecycle, one version per recorded transition: no handler
\* changes the state without the version, skips a state or leaves the table.
LifecycleSteps ==
  [][\A t \in Trips :
       <<tripState[t], version[t]>>' # <<tripState[t], version[t]>> =>
         RecordedSteps(tripState[t], tripState'[t], version'[t] - version[t])]_dispatchVars

\* What is settled stays settled: a resolved offer keeps its Driver, status
\* and reservation, and a terminal Trip, its offers, its assignment and its
\* outbox never change again, whichever command or sweep arrives late.
SettledForGood ==
  [][\A t \in Trips :
       /\ \A n \in Attempts(t) : offers[t][n].status # "PENDING" =>
            n \in DOMAIN offers'[t] /\ offers'[t][n] = offers[t][n]
       /\ tripState[t] \in terminalTripStates =>
            UNCHANGED <<tripState[t], version[t], offers[t], assignment[t],
                        assignee[t], outbox[t]>>]_dispatchVars

-------------------------------------------------------------------------------
(* What DriverCommitment calls the stage and the holder of a Trip *)

tripStage == [t \in Trips |->
  IF tripState[t] \in terminalTripStates THEN "closed"
  ELSE IF tripState[t] \in UnderwayStates THEN "committed"
  ELSE IF Pending(t) # {} THEN "held" ELSE "open"]

tripHolder == [t \in Trips |->
  IF \E d \in Drivers : currentTrip[d] = t
  THEN CHOOSE d \in Drivers : currentTrip[d] = t
  ELSE NoDriver]

tripAsked == [t \in Trips |-> {offers[t][n].driver : n \in Attempts(t)}]

driversOnDuty == {d \in Drivers : workState[d] # "OFFLINE"}

-------------------------------------------------------------------------------
(* Liveness *)

\* A Driver reserved for a Trip is not reserved for it forever, even if the
\* Driver never answers and the Customer is gone: the worker sees to it.
ReservationEnds ==
  \A d \in Drivers, t \in Trips :
    (workState[d] = "RESERVED" /\ currentTrip[d] = t)
      ~> ~(workState[d] = "RESERVED" /\ currentTrip[d] = t)

-------------------------------------------------------------------------------
(* What the documents say and the code does not do *)

\* docs/api/dispatch.md, Start matching: the command creates one pending offer
\* or moves the Trip to NO_DRIVER_AVAILABLE.  It can do the former only if the
\* event of that offer is not in the outbox at the Trip's version already.
MatchCommandCanOffer ==
  \A t \in Trips :
    tripState[t] = "MATCHING" /\ Pending(t) = {} =>
      <<version[t], "dispatch.offer.created">> \notin outbox[t]

\* docs/api/dispatch.md, Expiry worker: after an expiry, one replacement is
\* attempted or the Trip becomes NO_DRIVER_AVAILABLE; so a MATCHING Trip does
\* not stay without a pending offer.
MatchingResumes ==
  \A t \in Trips :
    (tripState[t] = "MATCHING" /\ Pending(t) = {})
      ~> ~(tripState[t] = "MATCHING" /\ Pending(t) = {})

===============================================================================
