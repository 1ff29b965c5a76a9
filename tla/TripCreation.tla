----------------------------- MODULE TripCreation -----------------------------
(***************************************************************************)
(* Creating a Trip from a quote (trip.repository.ts, createTrip), and the  *)
(* end of a Trip as far as its Customer's next commands can tell: it was   *)
(* completed at a final fare, or it ended without one.  How a Trip gets    *)
(* there is the subject of Dispatch.                                       *)
(***************************************************************************)
EXTENDS FareQuotes

CONSTANTS
  DrivenMeters,    \* what the Driver who completes a Trip may report
  DrivenSeconds,
  MaxTrips         \* bound of an instance: the rows of trip.trips

ASSUME MeteringAssumption == DrivenMeters \subseteq Nat /\ DrivenSeconds \subseteq Nat

VARIABLE trips      \* trip.trips in the order of their commits

NoFare == -1

Meterings == [meters : DrivenMeters, seconds : DrivenSeconds]

\* The five states of a Trip that has not ended count as one here.
TripsInit == trips = <<>>

ActiveTrips(c) == {t \in DOMAIN trips : trips[t].who = c /\ trips[t].state = "ACTIVE"}

\* Mutant of TripLocks: the lock is the quote's alone.
TripLocksOfQuote(c, q) == {<<"quote", q>>}

\* The lock of creation is the Customer's, whatever the key; the quote's row
\* is locked as well.
TripLocks(c, q) == {<<"create-trip", c>>, <<"quote", q>>}

\* Mutant of TripVerdict: a quote already consumed will do.
TripVerdictSpent(c, q) ==
  IF q \notin DOMAIN quotes THEN "FARE_QUOTE_NOT_FOUND"
  ELSE IF quotes[q].who # c THEN "FARE_QUOTE_NOT_FOUND"
  ELSE IF quotes[q].lapsed THEN "FARE_QUOTE_EXPIRED"
  ELSE IF ActiveTrips(c) # {} THEN "ACTIVE_TRIP_EXISTS" ELSE "NONE"

TripVerdict(c, q) ==
  IF q \notin DOMAIN quotes THEN "FARE_QUOTE_NOT_FOUND"
  ELSE IF quotes[q].who # c THEN "FARE_QUOTE_NOT_FOUND"
  \* The UPDATE that marks the quote EXPIRED is rolled back with this error.
  ELSE IF quotes[q].status = "ACTIVE" /\ quotes[q].lapsed THEN "FARE_QUOTE_EXPIRED"
  ELSE IF quotes[q].status # "ACTIVE" THEN "FARE_QUOTE_ALREADY_CONSUMED"
  ELSE IF ActiveTrips(c) # {} THEN "ACTIVE_TRIP_EXISTS" ELSE "NONE"

OpenTrip(r, c, k, q) ==
  /\ Taken(r, Request("TRIP", c, k, q, "queued"), TripLocks(c, q), TripVerdict(c, q), 0)
  /\ UNCHANGED <<quoteVars, trips>>

\* The Trip copies the quote's fare, rules and surge; the quote is consumed.
CommitTrip(r) ==
  /\ Running(r, "TRIP") /\ Len(trips) < MaxTrips
  /\ Committed(r, Len(trips) + 1)
  /\ LET q == call[r].body
     IN  /\ trips' = Append(trips,
              [who |-> call[r].who, quote |-> q, state |-> "ACTIVE",
               quoted |-> quotes[q].fare, rules |-> quotes[q].rules,
               final |-> NoFare, metered |-> quotes[q].estimate])
         /\ quotes' = [quotes EXCEPT ![q].status = "CONSUMED"]
  /\ UNCHANGED card

TripRow(t) == <<"trip", t>>

\* Mutant of FinalFare: the rate card in force decides.
FinalFareNow(t, journey) ==
  Fare(journey.meters, journey.seconds, NoSurge, RateCards[card])

\* What the Driver's metering costs under the rules the Trip copied.
FinalFare(t, journey) ==
  Fare(journey.meters, journey.seconds, NoSurge, RateCards[trips[t].rules])

\* The assigned Driver completes the Trip.  Metering is positive
\* (isPositiveSafeInteger), otherwise METERING_INVALID.
CompleteTripAt(t, journey) ==
  /\ trips[t].state = "ACTIVE" /\ Free({TripRow(t)})
  /\ journey.meters > 0 /\ journey.seconds > 0
  /\ trips' = [trips EXCEPT ![t].state = "COMPLETED", ![t].metered = journey,
                            ![t].final = FinalFare(t, journey)]
  /\ UNCHANGED <<callVars, quoteVars>>

\* The Trip is cancelled, or no Driver was available.
EndTrip(t) ==
  /\ trips[t].state = "ACTIVE" /\ Free({TripRow(t)})
  /\ trips' = [trips EXCEPT ![t].state = "ENDED"]
  /\ UNCHANGED <<callVars, quoteVars>>

===============================================================================
