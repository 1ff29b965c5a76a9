------------------------------- MODULE Purchase -------------------------------
(***************************************************************************)
(* What a Customer buys, from the quote over the Trip to the payment: the  *)
(* three commands run at the same time, are sent again with the same key   *)
(* when an answer got lost, and survive a stop of the API process.         *)
(***************************************************************************)
EXTENDS PaymentCapture

CONSTANT Mantissa   \* bound of an instance: 53 bits in the program

ASSUME PurchaseAssumption ==
  /\ Operations = {"QUOTE", "TRIP", "CAPTURE"}
  /\ Outcomes \subseteq {"SUCCEEDED", "FAILED", "UNKNOWN", "PENDING"}
  /\ MaxTrips \in Nat /\ MaxAttempts \in Nat /\ Mantissa \in Nat

PurchaseInit == CallsInit /\ QuotesInit /\ TripsInit /\ AttemptsInit

AskStep(r, c, k) ==
  \/ \E journey \in Journeys : AskQuote(r, c, k, journey) /\ UNCHANGED <<trips, attempts>>
  \/ \E q \in 1..MaxQuotes : OpenTrip(r, c, k, q) /\ UNCHANGED attempts
  \/ \E t \in 1..MaxTrips, o \in Outcomes : OpenCapture(r, c, k, t, o)

CallStep(r) ==
  \/ /\ EstimateRoute(r) \/ OpenQuote(r) \/ CommitQuote(r)
     /\ UNCHANGED <<trips, attempts>>
  \/ CommitTrip(r) /\ UNCHANGED attempts
  \/ CommitCapture(r)
  \/ Fails(r) /\ UNCHANGED <<quoteVars, trips, attempts>>

OutsideStep ==
  \/ /\ (\E q \in DOMAIN quotes : QuoteLapses(q)) \/ NewRateCard
     /\ UNCHANGED <<trips, attempts>>
  \/ \E t \in DOMAIN trips :
       /\ EndTrip(t) \/ \E journey \in Meterings : CompleteTripAt(t, journey)
       /\ UNCHANGED attempts
  \/ /\ \E sent \in SUBSET Calls : ProcessStops(sent)
     /\ UNCHANGED <<quoteVars, trips, attempts>>

PurchaseNext ==
  \/ \E r \in Calls, c \in Callers, k \in Keys : AskStep(r, c, k)
  \/ \E r \in Calls : CallStep(r)
  \/ OutsideStep

PurchaseSpec == PurchaseInit /\ [][PurchaseNext]_purchaseVars

-------------------------------------------------------------------------------
(* Invariants *)

\* Every variable keeps its type: quotes, Trips and attempts are rows of their
\* tables, and a request under way holds locks only while its transaction is open.
PurchaseTypeOK ==
  /\ \A q \in DOMAIN quotes :
       /\ quotes[q].who \in Callers
       /\ quotes[q].status \in {"ACTIVE", "CONSUMED"}
       /\ quotes[q].rules \in 1..card /\ quotes[q].fare > 0
  /\ \A t \in DOMAIN trips : trips[t].state \in {"ACTIVE", "COMPLETED", "ENDED"}
  /\ attempts \in [1..MaxTrips -> SUBSET [number : 1..MaxAttempts, status : Outcomes, amount : Nat]]
  /\ \A r \in Calls : call[r] # Idle /\ ~Open(r) => call[r].locks = {}

\* createTrip: a Customer has at most one Trip that has not ended, although
\* two requests with different keys and quotes may check that at the same time.
OneActiveTrip ==
  \A s, t \in DOMAIN trips :
    (trips[s].state = "ACTIVE" /\ trips[t].state = "ACTIVE" /\ trips[s].who = trips[t].who)
      => s = t

\* A quote is spent on at most one Trip, of its own Customer and at its own
\* price, and is marked CONSUMED exactly when there is that Trip.
QuotesSpentOnce ==
  \A q \in DOMAIN quotes :
    LET spent == {t \in DOMAIN trips : trips[t].quote = q}
    IN  /\ \A s, t \in spent : s = t
        /\ quotes[q].status = "CONSUMED" <=> spent # {}
        /\ \A t \in spent : trips[t].who = quotes[q].who /\ trips[t].quoted = quotes[q].fare

\* What BuysOnceOnly, below, comes to in the tables, with AnswersMatchReceipts.
\* The commands of a kind and the rows they made correspond one to one: no
\* retry, no joined request and no request of a process that stopped makes a
\* second row, and no row is without the receipt a retry would find.
RowsMade(op) ==
  CASE op = "QUOTE"   -> {<<q, q>> : q \in DOMAIN quotes}
    [] op = "TRIP"    -> {<<t, t>> : t \in DOMAIN trips}
    [] op = "CAPTURE" -> UNION {{<<t, a.number>> : a \in attempts[t]} : t \in DOMAIN trips}

RowNamed(m) ==
  IF m[1] = "CAPTURE" THEN <<receipt[m].body.trip, receipt[m].id>>
  ELSE <<receipt[m].id, receipt[m].id>>

OneRowPerCommand ==
  \A op \in Operations :
    LET told == {m \in Commands : m[1] = op /\ receipt[m] # NoReceipt}
    IN  /\ \A m, n \in told : RowNamed(m) = RowNamed(n) => m = n
        /\ {RowNamed(m) : m \in told} = RowsMade(op)

\* A request that succeeded was told what the receipt of its own key says, for
\* the body it sent: also when it joined another request's promise, found the
\* receipt, or raced another request with the same key.
AnswersMatchReceipts ==
  \A r \in Calls :
    (call[r].at = "done") =>
      LET known == receipt[CommandOf(call[r])]
      IN  known.id = call[r].answer /\ known.body = call[r].body

\* A Trip is settled at most once: attempts are numbered without gaps, all but
\* the last of them failed, and each asks for the final fare of the Trip.
SettledAtMostOnce ==
  \A t \in DOMAIN trips :
    /\ {a.number : a \in attempts[t]} = {n \in 1..MaxAttempts : n < NextNumber(t)}
    /\ \A a, b \in attempts[t] : a.number = b.number => a = b
    /\ \A a \in attempts[t] :
         /\ a.number < Latest(t).number => a.status = "FAILED"
         /\ trips[t].state = "COMPLETED" /\ a.amount = trips[t].final

\* What the Customer accepted is what the Customer pays: a Trip as long as its
\* estimate costs the quoted fare, a shorter one no more and a longer one no
\* less, also when the rate card changed in between.
FinalFareHonoursQuote ==
  \A t \in DOMAIN trips :
    LET estimate == quotes[trips[t].quote].estimate
        metered  == trips[t].metered
    IN  trips[t].state = "COMPLETED" =>
          /\ (metered.meters <= estimate.meters /\ metered.seconds <= estimate.seconds)
               => trips[t].final <= trips[t].quoted
          /\ (metered.meters >= estimate.meters /\ metered.seconds >= estimate.seconds)
               => trips[t].final >= trips[t].quoted

\* Every quotient of the instance's doubles is rounded up as if it were exact.
CeilingsHold == CeilingsExact(Mantissa)

\* ceilRatio rounds every fraction of a minor unit up and nothing else, in the
\* floating point that quotes and final fares are computed with.
FaresRoundExactly == quotes # <<>> => CeilingsHold

-------------------------------------------------------------------------------
(* The abstract specification *)

\* The row that came of a command with such a receipt.
RowOf(m, known) ==
  <<m[1], IF m[1] = "CAPTURE" THEN <<known.body.trip, known.id>> ELSE <<known.id, known.id>> >>

rowsMade == UNION {{<<op, row>> : row \in RowsMade(op)} : op \in Operations}

receiptTold == [r \in Calls |->
  IF call[r].at # "done" THEN NoReceipt
  ELSE [command |-> CommandOf(call[r]),
        outcome |-> [body |-> call[r].body, id |-> call[r].answer]]]

Bought == INSTANCE OnceOnly WITH
  Commands <- Commands, Requests <- Calls, Nothing <- NoReceipt, Effect <- RowOf,
  effects <- rowsMade, outcome <- receipt, heard <- receiptTold

\* Quotes, Trips and payment attempts are made once for each command, however
\* its requests are repeated, joined, raced or lost, and everyone who is
\* answered is told of the one row that was made.
BuysOnceOnly == Bought!Spec

===============================================================================
