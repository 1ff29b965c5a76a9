------------------------------ MODULE DriverWork ------------------------------
(***************************************************************************)
(* The Driver Work State table, dispatch.driver_work_states.  Rides and    *)
(* Deliveries share it: a Driver is bound through one column or the other, *)
(* and the row is the only thing that stops the two modules from taking    *)
(* the same Driver.  Dispatch and Delivery extend this module.             *)
(*                                                                         *)
(* A Driver without a row reads as OFFLINE (getWorkState), so the table is *)
(* a total function.  state_version is a counter nothing compares and is   *)
(* left out.                                                               *)
(***************************************************************************)
CONSTANTS
  Drivers,      \* Drivers with an approved profile
  Trips,        \* rides
  Deliveries,   \* parcels
  NoTrip,       \* NULL in current_trip_id
  NoDelivery,   \* NULL in current_delivery_id
  NoDriver      \* no Driver: a job without an assignment or an offer

ASSUME NullAssumption ==
  /\ NoTrip \notin Trips
  /\ NoDelivery \notin Deliveries
  /\ NoDriver \notin Drivers

VARIABLES
  workState,        \* work_state
  currentTrip,      \* current_trip_id
  currentDelivery   \* current_delivery_id

workVars == <<workState, currentTrip, currentDelivery>>

\* States the Driver chooses (setWorkState) and states a job puts a Driver in.
IdleStates == {"OFFLINE", "AVAILABLE"}
BusyStates == {"RESERVED", "TO_PICKUP", "ON_TRIP"}
WorkStates == IdleStates \cup BusyStates

WorkTypeOK ==
  /\ workState \in [Drivers -> WorkStates]
  /\ currentTrip \in [Drivers -> Trips \cup {NoTrip}]
  /\ currentDelivery \in [Drivers -> Deliveries \cup {NoDelivery}]

WorkInit ==
  /\ workState = [d \in Drivers |-> "OFFLINE"]
  /\ currentTrip = [d \in Drivers |-> NoTrip]
  /\ currentDelivery = [d \in Drivers |-> NoDelivery]

\* setWorkState: refused while a job binds the Driver.  The eligibility query
\* before AVAILABLE only decides whether the command runs at all.
SetWorkState(d, s) ==
  /\ workState[d] \in IdleStates
  /\ workState' = [workState EXCEPT ![d] = s]
  /\ currentTrip' = [currentTrip EXCEPT ![d] = NoTrip]
  /\ UNCHANGED currentDelivery

\* The UPDATE every ride handler issues: driver d moves to state s, and t
\* becomes its current Trip (NoTrip when the job lets go of the Driver).
MoveDriver(d, s, t) ==
  /\ workState' = [workState EXCEPT ![d] = s]
  /\ currentTrip' = [currentTrip EXCEPT ![d] = t]
  /\ UNCHANGED currentDelivery

\* Mutant of MoveCourier: the Delivery ends up in the column for Trips.
MoveCourierAsDriver(d, s, v) ==
  /\ workState' = [workState EXCEPT ![d] = s]
  /\ currentTrip' = [currentTrip EXCEPT ![d] = v]
  /\ UNCHANGED currentDelivery

\* The same for delivery handlers: v becomes the Driver's current Delivery.
MoveCourier(d, s, v) ==
  /\ workState' = [workState EXCEPT ![d] = s]
  /\ currentDelivery' = [currentDelivery EXCEPT ![d] = v]
  /\ UNCHANGED currentTrip

===============================================================================
