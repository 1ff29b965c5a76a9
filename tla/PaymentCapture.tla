---------------------------- MODULE PaymentCapture ----------------------------
(***************************************************************************)
(* Capturing the payment of a completed Trip (payment.repository.ts).  The *)
(* provider plans the outcome before the transaction: the simulator what   *)
(* it was asked for, the external providers PENDING.  The Trip's row and   *)
(* the latest attempt decide whether one more attempt may be made.         *)
(***************************************************************************)
EXTENDS TripCreation

CONSTANTS
  Outcomes,      \* what the provider plans: SUCCEEDED, FAILED, UNKNOWN, PENDING
  MaxAttempts    \* bound of an instance: attempts for one Trip

VARIABLE attempts      \* payment.payment_attempts, by Trip and attempt number

purchaseVars == <<callVars, quoteVars, trips, attempts>>

AttemptsInit == attempts = [t \in 1..MaxTrips |-> {}]

\* ORDER BY attempt_number DESC LIMIT 1.
Latest(t) == CHOOSE a \in attempts[t] : \A b \in attempts[t] : b.number <= a.number

\* The number an attempt for Trip t gets.
NextNumber(t) == IF attempts[t] = {} THEN 1 ELSE Latest(t).number + 1

\* Mutant of CaptureLocks: the Trip's row is not locked.
CaptureLocksOfKey(c, k, t) == {<<"capture-payment", c, k>>}

CaptureLocks(c, k, t) == {<<"capture-payment", c, k>>, TripRow(t)}

\* An attempt in one of these states forbids another one.
Blocking == {"PENDING", "SUCCEEDED", "UNKNOWN"}

CaptureVerdict(c, t) ==
  IF t \notin DOMAIN trips THEN "TRIP_NOT_FOUND"
  ELSE IF trips[t].who # c THEN "PAYMENT_FORBIDDEN"
  ELSE IF trips[t].state # "COMPLETED" THEN "TRIP_NOT_COMPLETED"
  ELSE IF attempts[t] # {} /\ Latest(t).status \in Blocking
         THEN "PAYMENT_NOT_OPEN"
  ELSE "NONE"

OpenCapture(r, c, k, t, outcome) ==
  /\ Taken(r, Request("CAPTURE", c, k, [trip |-> t, outcome |-> outcome], "queued"),
           CaptureLocks(c, k, t), CaptureVerdict(c, t), NextNumber(t))
  /\ UNCHANGED <<quoteVars, trips, attempts>>

\* The attempt is for the final fare, whatever the caller sends.
CommitCapture(r) ==
  /\ Running(r, "CAPTURE") /\ call[r].plan <= MaxAttempts
  /\ LET t == call[r].body.trip
     IN  /\ Committed(r, call[r].plan)
         /\ attempts' = [attempts EXCEPT ![t] = @ \cup
              {[number |-> call[r].plan, status |-> call[r].body.outcome,
                amount |-> trips[t].final]}]
  /\ UNCHANGED <<quoteVars, trips>>

===============================================================================
