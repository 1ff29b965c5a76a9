------------------------------ MODULE FareQuotes ------------------------------
(***************************************************************************)
(* Fare quotes (pricing.service.ts, pricing.repository.ts).  The service   *)
(* keeps one promise for each customer and key while a quote is being      *)
(* made, so that a second request with the key joins the first; the route  *)
(* is estimated before the transaction, and the transaction looks for the  *)
(* receipt again.                                                          *)
(***************************************************************************)
EXTENDS CommandCalls, FarePolicy, Sequences

CONSTANTS
  Distances,   \* meters a route provider may estimate
  Durations,   \* seconds likewise
  MaxQuotes    \* bound of an instance: the rows of pricing.fare_quotes

ASSUME EstimateAssumption == Distances \subseteq Nat /\ Durations \subseteq Nat

VARIABLES
  quotes,      \* pricing.fare_quotes in the order of their commits
  card         \* the rate card that is effective latest, an index of RateCards

quoteVars == <<quotes, card>>

Journeys == [meters : Distances, seconds : Durations]
NoSurge  == 10000

QuotesInit == quotes = <<>> /\ card = 1

\* A request whose promise other requests of the same key may join: its entry
\* stays in inFlightFareQuotes until the promise settles.
InFlight(c, k) ==
  {r \in Calls : /\ call[r].at \in {"looking", "queued", "open"}
                 /\ call[r].op = "QUOTE" /\ call[r].who = c /\ call[r].key = k}

\* A request for a quote of a journey starts, or joins the one under way with
\* its key; with another body it is refused and leaves nothing.
AskQuote(r, c, k, journey) ==
  LET first == InFlight(c, k)
      at    == IF first = {} THEN "looking" ELSE "joined"
  IN  /\ Vacant(r)
      /\ \A x \in first : call[x].body = journey
      /\ call' = [call EXCEPT ![r] = Request("QUOTE", c, k, journey, at)]
      /\ UNCHANGED <<receipt, quoteVars>>

\* findFareQuoteReceipt outside any transaction, and then the route providers
\* answer or neither does (ROUTING_UNAVAILABLE).
EstimateRoute(r) ==
  /\ call[r].at = "looking"
  /\ IF receipt[CommandOf(call[r])] # NoReceipt
       THEN call' = Answered(r, Replay(call[r]))
       ELSE \/ call' = [call EXCEPT ![r].at = "queued"]
            \/ call' = Answered(r, Failed)
  /\ UNCHANGED <<receipt, quoteVars>>

QuoteLocks(c, k) == {<<"create-fare-quote", c, k>>}

\* Mutant of OpenQuote: the receipt is not looked for again.
OpenQuoteUnread(r) ==
  LET locks == QuoteLocks(call[r].who, call[r].key)
  IN  /\ call[r].at = "queued" /\ Free(locks)
      /\ call' = [call EXCEPT ![r].at = "open", ![r].locks = locks]
      /\ UNCHANGED <<receipt, quoteVars>>

\* The transaction begins and looks for the receipt again, under the lock.
OpenQuote(r) ==
  LET locks == QuoteLocks(call[r].who, call[r].key)
  IN  /\ call[r].at = "queued" /\ Free(locks)
      /\ call' = IF receipt[CommandOf(call[r])] # NoReceipt
                   THEN Answered(r, Replay(call[r]))
                   ELSE [call EXCEPT ![r].at = "open", ![r].locks = locks]
      /\ UNCHANGED <<receipt, quoteVars>>

\* What is priced is at least a meter and a minute long.
Estimate(journey) ==
  [meters  |-> IF journey.meters < 1 THEN 1 ELSE journey.meters,
   seconds |-> IF journey.seconds < 60 THEN 60 ELSE journey.seconds]

QuotedFare(journey, rules) ==
  Fare(Estimate(journey).meters, Estimate(journey).seconds, NoSurge, rules)

CommitQuote(r) ==
  /\ Running(r, "QUOTE") /\ Len(quotes) < MaxQuotes
  /\ Committed(r, Len(quotes) + 1)
  /\ quotes' = Append(quotes,
       [who |-> call[r].who, estimate |-> Estimate(call[r].body), rules |-> card,
        fare |-> QuotedFare(call[r].body, RateCards[card]),
        status |-> "ACTIVE", lapsed |-> FALSE])
  /\ UNCHANGED card

\* Node's clock passes expires_at, which the same clock set; for a quote
\* that was spent this changes nothing.
QuoteLapses(q) ==
  /\ quotes[q].status = "ACTIVE" /\ ~quotes[q].lapsed
  /\ quotes' = [quotes EXCEPT ![q].lapsed = TRUE]
  /\ UNCHANGED <<callVars, card>>

\* A migration adds a rate card with a later effective_from.
NewRateCard ==
  /\ card < Len(RateCards) /\ card' = card + 1
  /\ UNCHANGED <<callVars, quotes>>

===============================================================================
