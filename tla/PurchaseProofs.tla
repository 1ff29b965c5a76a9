---------------------------- MODULE PurchaseProofs ----------------------------
(***************************************************************************)
(* A Customer has one Trip at a time, a quote is spent on one Trip, the    *)
(* Trip costs what was quoted and is settled at most once, and the         *)
(* receipts, rows and answers of the commands agree: proved for any number *)
(* of Customers, keys, requests, quotes, Trips and attempts.               *)
(***************************************************************************)
EXTENDS Purchase, Naturals, TLAPS, SequenceTheorems, WellFoundedInduction

(* The fare of a journey *)

Cards == [base : Nat, perKm : Nat, perMinute : Nat,
          service : Nat, minSurge : Nat, maxSurge : Nat]

LEMMA RateCardsAreCards == \A c \in 1..2 : RateCards[c] \in Cards
<1>1. /\ RateCards[1] = [base |-> 12000, perKm |-> 6800, perMinute |-> 350,
                         service |-> 10000, minSurge |-> 10000, maxSurge |-> 15000]
      /\ RateCards[2] = [base |-> 18000, perKm |-> 9500, perMinute |-> 550,
                         service |-> 10000, minSurge |-> 10000, maxSurge |-> 15000]
  BY DEF RateCards
<1>2. RateCards[1] \in Cards
  BY <1>1 DEF Cards
<1>3. RateCards[2] \in Cards
  BY <1>1 DEF Cards
<1> QED
  BY <1>2, <1>3

\* A product of naturals grows with its factors.
LEMMA ProductGrows ==
  ASSUME NEW a \in Nat, NEW b \in Nat, a <= b, NEW k \in Nat
  PROVE  a * k \in Nat /\ b * k \in Nat /\ a * k <= b * k
<1>1. PICK d \in Nat : b = a + d
  BY b - a \in Nat
<1>2. d * k \in Nat /\ a * k \in Nat /\ b * k \in Nat
  BY SMT
<1>3. b * k = a * k + d * k
  BY <1>1, SMT
<1> QED
  BY <1>2, <1>3

\* The ceilings the fare takes.
LEMMA CeilingsGrow ==
  ASSUME NEW a \in Nat, NEW b \in Nat, a <= b
  PROVE  /\ CeilRatio(a, MetersPerKm) \in Nat /\ CeilRatio(b, MetersPerKm) \in Nat
         /\ CeilRatio(a, MetersPerKm) <= CeilRatio(b, MetersPerKm)
         /\ CeilRatio(a, SecondsPerMinute) \in Nat /\ CeilRatio(b, SecondsPerMinute) \in Nat
         /\ CeilRatio(a, SecondsPerMinute) <= CeilRatio(b, SecondsPerMinute)
         /\ CeilRatio(a, BasisPoints) \in Nat /\ CeilRatio(b, BasisPoints) \in Nat
         /\ CeilRatio(a, BasisPoints) <= CeilRatio(b, BasisPoints)
  BY SMT DEF CeilRatio, MetersPerKm, SecondsPerMinute, BasisPoints

LEMMA SubtotalGrows ==
  ASSUME NEW rates \in Cards, NEW m \in Nat, NEW n \in Nat, m <= n,
         NEW s \in Nat, NEW t \in Nat, s <= t
  PROVE  /\ Subtotal(m, s, rates) \in Nat /\ Subtotal(n, t, rates) \in Nat
         /\ Subtotal(m, s, rates) <= Subtotal(n, t, rates)
<1>1. rates.base \in Nat /\ rates.perKm \in Nat /\ rates.perMinute \in Nat
  BY DEF Cards
<1>2. /\ m * rates.perKm \in Nat /\ n * rates.perKm \in Nat
      /\ m * rates.perKm <= n * rates.perKm
  BY <1>1, ProductGrows
<1>3. /\ s * rates.perMinute \in Nat /\ t * rates.perMinute \in Nat
      /\ s * rates.perMinute <= t * rates.perMinute
  BY <1>1, ProductGrows
<1>4. /\ CeilRatio(m * rates.perKm, MetersPerKm) \in Nat
      /\ CeilRatio(n * rates.perKm, MetersPerKm) \in Nat
      /\ CeilRatio(m * rates.perKm, MetersPerKm) <= CeilRatio(n * rates.perKm, MetersPerKm)
  BY <1>2, CeilingsGrow
<1>5. /\ CeilRatio(s * rates.perMinute, SecondsPerMinute) \in Nat
      /\ CeilRatio(t * rates.perMinute, SecondsPerMinute) \in Nat
      /\ CeilRatio(s * rates.perMinute, SecondsPerMinute)
           <= CeilRatio(t * rates.perMinute, SecondsPerMinute)
  BY <1>3, CeilingsGrow
<1> QED
  BY <1>1, <1>4, <1>5 DEF Subtotal

LEMMA MultiplierGrows ==
  ASSUME NEW a \in Nat, NEW b \in Nat, a <= b, NEW k \in Nat
  PROVE  /\ ApplyMultiplier(a, k) \in Nat /\ ApplyMultiplier(b, k) \in Nat
         /\ ApplyMultiplier(a, k) <= ApplyMultiplier(b, k)
  BY ProductGrows, CeilingsGrow DEF ApplyMultiplier

\* A journey that is no longer in meters nor in seconds costs no more: neither
\* a ceiling nor a clamped multiplier of quote or final fare turns that round.
THEOREM FareGrows ==
  ASSUME NEW rates \in Cards, NEW surge \in Nat, NEW m \in Nat, NEW n \in Nat, m <= n,
         NEW s \in Nat, NEW t \in Nat, s <= t
  PROVE  /\ Fare(m, s, surge, rates) \in Nat /\ Fare(n, t, surge, rates) \in Nat
         /\ Fare(m, s, surge, rates) <= Fare(n, t, surge, rates)
<1>1. /\ Subtotal(m, s, rates) \in Nat /\ Subtotal(n, t, rates) \in Nat
      /\ Subtotal(m, s, rates) <= Subtotal(n, t, rates)
  BY SubtotalGrows
<1>2. rates.service \in Nat /\ Clamp(surge, rates.minSurge, rates.maxSurge) \in Nat
  BY DEF Cards, Clamp
<1>3. /\ ApplyMultiplier(Subtotal(m, s, rates), rates.service) \in Nat
      /\ ApplyMultiplier(Subtotal(n, t, rates), rates.service) \in Nat
      /\ ApplyMultiplier(Subtotal(m, s, rates), rates.service)
           <= ApplyMultiplier(Subtotal(n, t, rates), rates.service)
  BY <1>1, <1>2, MultiplierGrows
<1> QED
  BY <1>2, <1>3, MultiplierGrows DEF Fare

-------------------------------------------------------------------------------

(* The inductive invariant *)

Lengths == [meters : Nat, seconds : Nat]

QuoteRows ==
  [who : Callers, estimate : Lengths, rules : 1..2, fare : Int,
   status : {"ACTIVE", "CONSUMED"}, lapsed : BOOLEAN]

TripRows ==
  [who : Callers, quote : Nat, state : {"ACTIVE", "COMPLETED", "ENDED"}, quoted : Int,
   rules : 1..2, final : Int, metered : Lengths]

\* A request is a record, whatever its fields hold.
RequestsOver(V) ==
  [at : V, op : V, who : V, key : V, body : V, locks : V, plan : V, answer : V]

IsRequest(c) == \E V : c \in RequestsOver(V)

\* Only requests for a quote wait, for a route or for each other.
Waits(c) == c.at \in {"looking", "queued", "joined"}

Asks(c) == c.op = "QUOTE" /\ c.who \in Callers /\ c.body \in Journeys

CallsHold ==
  /\ DOMAIN call = Calls
  /\ \A r \in Calls : call[r] = Idle \/ IsRequest(call[r])
  /\ \A r \in Calls : Waits(call[r]) \/ (Open(r) /\ call[r].op = "QUOTE") => Asks(call[r])

\* Transactions that are open hold locks of their own.
LocksApart ==
  \A r, x \in Calls : (Open(r) /\ Open(x) /\ r # x) => call[r].locks \cap call[x].locks = {}

\* What createTrip has read stays true until it commits.
StillTrue(r) ==
  /\ call[r].locks = TripLocks(call[r].who, call[r].body)
  /\ call[r].who \in Callers
  /\ call[r].body \in DOMAIN quotes /\ quotes[call[r].body].who = call[r].who
  /\ quotes[call[r].body].status = "ACTIVE"
  /\ ActiveTrips(call[r].who) = {}

OpenTripsHold == \A r \in Calls : Running(r, "TRIP") => StillTrue(r)

QuotesHold ==
  /\ quotes \in Seq(QuoteRows) /\ card \in 1..2
  /\ \A q \in DOMAIN quotes :
       quotes[q].fare = Fare(quotes[q].estimate.meters, quotes[q].estimate.seconds,
                             NoSurge, RateCards[quotes[q].rules])

TripsHold ==
  /\ trips \in Seq(TripRows)
  /\ \A t \in DOMAIN trips :
       /\ trips[t].quote \in DOMAIN quotes
       /\ trips[t].rules = quotes[trips[t].quote].rules
       /\ trips[t].state = "COMPLETED" =>
            trips[t].final = Fare(trips[t].metered.meters, trips[t].metered.seconds,
                                  NoSurge, RateCards[trips[t].rules])

PurchaseInv ==
  CallsHold /\ LocksApart /\ OpenTripsHold /\ QuotesHold /\ TripsHold
    /\ OneActiveTrip /\ QuotesSpentOnce

-------------------------------------------------------------------------------
(* Requests *)

LEMMA RequestMoves ==
  ASSUME NEW c, IsRequest(c), NEW at,
         NEW d, d = [c EXCEPT !.at = at]
  PROVE  /\ IsRequest(d) /\ d.at = at /\ d.op = c.op /\ d.who = c.who
         /\ d.body = c.body /\ d.locks = c.locks
<1>1. PICK V : c \in RequestsOver(V)
  BY DEF IsRequest
<1> DEFINE W == V \cup {at}
<1>2. c \in RequestsOver(W) /\ at \in W
  BY <1>1 DEF RequestsOver
<1> HIDE DEF W
<1>3. /\ [c EXCEPT !.at = at] \in RequestsOver(W)
      /\ [c EXCEPT !.at = at].at = at
      /\ [c EXCEPT !.at = at].op = c.op
      /\ [c EXCEPT !.at = at].who = c.who
      /\ [c EXCEPT !.at = at].body = c.body
      /\ [c EXCEPT !.at = at].locks = c.locks
  BY <1>2 DEF RequestsOver
<1> QED
  BY <1>3 DEF IsRequest

LEMMA RequestIsAnswered ==
  ASSUME NEW c, IsRequest(c), NEW answer,
         NEW d, d = [c EXCEPT !.at = "done", !.answer = answer]
  PROVE  IsRequest(d) /\ d.at = "done"
<1>1. PICK V : c \in RequestsOver(V)
  BY DEF IsRequest
<1> DEFINE W == V \cup {"done", answer}
<1>2. c \in RequestsOver(W) /\ "done" \in W /\ answer \in W
  BY <1>1 DEF RequestsOver
<1> HIDE DEF W
<1>3. /\ [c EXCEPT !.at = "done", !.answer = answer] \in RequestsOver(W)
      /\ [c EXCEPT !.at = "done", !.answer = answer].at = "done"
  BY <1>2 DEF RequestsOver
<1> QED
  BY <1>3 DEF IsRequest

LEMMA RequestEnds ==
  ASSUME NEW c, IsRequest(c), NEW answer,
         NEW d, d = [c EXCEPT !.at = "done", !.locks = {}, !.plan = 0, !.answer = answer]
  PROVE  IsRequest(d) /\ d.at = "done"
<1>1. PICK V : c \in RequestsOver(V)
  BY DEF IsRequest
<1> DEFINE W == V \cup {"done", {}, 0, answer}
<1>2. c \in RequestsOver(W) /\ {"done", {}, 0, answer} \subseteq W
  BY <1>1 DEF RequestsOver
<1> HIDE DEF W
<1>3. /\ [c EXCEPT !.at = "done", !.locks = {}, !.plan = 0, !.answer = answer]
            \in RequestsOver(W)
      /\ [c EXCEPT !.at = "done", !.locks = {}, !.plan = 0, !.answer = answer].at = "done"
  BY <1>2 DEF RequestsOver
<1> QED
  BY <1>3 DEF IsRequest

Opened(d, c, locks) ==
  /\ IsRequest(d) /\ d.at = "open" /\ d.op = c.op /\ d.who = c.who
  /\ d.body = c.body /\ d.locks = locks

LEMMA RequestLocks ==
  ASSUME NEW c, IsRequest(c), NEW locks,
         NEW d, d = [c EXCEPT !.at = "open", !.locks = locks]
  PROVE  Opened(d, c, locks)
<1>1. PICK V : c \in RequestsOver(V)
  BY DEF IsRequest
<1> DEFINE W == V \cup {"open", locks}
<1>2. c \in RequestsOver(W) /\ "open" \in W /\ locks \in W
  BY <1>1 DEF RequestsOver
<1> HIDE DEF W
<1>3. /\ [c EXCEPT !.at = "open", !.locks = locks] \in RequestsOver(W)
      /\ [c EXCEPT !.at = "open", !.locks = locks].at = "open"
      /\ [c EXCEPT !.at = "open", !.locks = locks].op = c.op
      /\ [c EXCEPT !.at = "open", !.locks = locks].who = c.who
      /\ [c EXCEPT !.at = "open", !.locks = locks].body = c.body
      /\ [c EXCEPT !.at = "open", !.locks = locks].locks = locks
  BY <1>2 DEF RequestsOver
<1> QED
  BY <1>3 DEF IsRequest, Opened

LEMMA RequestPlans ==
  ASSUME NEW c, IsRequest(c), NEW locks, NEW plan,
         NEW d, d = [c EXCEPT !.at = "open", !.locks = locks, !.plan = plan]
  PROVE  Opened(d, c, locks)
<1>1. PICK V : c \in RequestsOver(V)
  BY DEF IsRequest
<1> DEFINE W == V \cup {"open", locks, plan}
<1>2. c \in RequestsOver(W) /\ {"open", locks, plan} \subseteq W
  BY <1>1 DEF RequestsOver
<1> HIDE DEF W
<1>3. /\ [c EXCEPT !.at = "open", !.locks = locks, !.plan = plan] \in RequestsOver(W)
      /\ [c EXCEPT !.at = "open", !.locks = locks, !.plan = plan].at = "open"
      /\ [c EXCEPT !.at = "open", !.locks = locks, !.plan = plan].op = c.op
      /\ [c EXCEPT !.at = "open", !.locks = locks, !.plan = plan].who = c.who
      /\ [c EXCEPT !.at = "open", !.locks = locks, !.plan = plan].body = c.body
      /\ [c EXCEPT !.at = "open", !.locks = locks, !.plan = plan].locks = locks
  BY <1>2 DEF RequestsOver
<1> QED
  BY <1>3 DEF IsRequest, Opened

LEMMA IdleIsNoRequest == ~IsRequest(Idle) /\ Idle.at = "idle"
<1>1. ASSUME IsRequest(Idle) PROVE FALSE
  <2>1. PICK V : Idle \in RequestsOver(V)
    BY <1>1 DEF IsRequest
  <2>2. DOMAIN Idle = {"at"}
    BY DEF Idle
  <2>3. "op" \in DOMAIN Idle
    BY <2>1 DEF RequestsOver
  <2> QED
    BY <2>2, <2>3
<1> QED
  BY <1>1 DEF Idle

LEMMA RequestIsOne ==
  ASSUME NEW op, NEW who, NEW key, NEW body, NEW at
  PROVE  /\ IsRequest(Request(op, who, key, body, at))
         /\ Request(op, who, key, body, at).at = at
         /\ Request(op, who, key, body, at).op = op
         /\ Request(op, who, key, body, at).who = who
         /\ Request(op, who, key, body, at).key = key
         /\ Request(op, who, key, body, at).body = body
<1> DEFINE W == {op, who, key, body, at, {}, 0, Failed}
<1>1. Request(op, who, key, body, at) \in RequestsOver(W)
  BY DEF Request, RequestsOver
<1> QED
  BY <1>1 DEF IsRequest, Request

\* Requests come, wait, join others, and end; transactions only end.
CallsShrink ==
  /\ DOMAIN call' = Calls
  /\ \A x \in Calls :
       \/ call'[x] = Idle
       \/ /\ IsRequest(call'[x]) /\ call'[x].at \notin {"open", "orphan"}
          /\ Waits(call'[x]) => Asks(call'[x])
       \/ /\ IsRequest(call'[x]) /\ Open(x) /\ call'[x].at \in {"open", "orphan"}
          /\ call'[x].op = call[x].op /\ call'[x].who = call[x].who
          /\ call'[x].body = call[x].body /\ call'[x].locks = call[x].locks

LEMMA ShrinkKeepsCalls ==
  ASSUME CallsHold, LocksApart, CallsShrink
  PROVE  CallsHold' /\ LocksApart'
<1>1. CallsHold'
  BY IdleIsNoRequest DEF CallsHold, CallsShrink, Open, Waits, Asks
<1>2. LocksApart'
  BY IdleIsNoRequest DEF LocksApart, CallsShrink, Open
<1> QED
  BY <1>1, <1>2

LEMMA ShrinkKeepsOpenTrips ==
  ASSUME OpenTripsHold, CallsShrink, UNCHANGED <<quotes, trips>>
  PROVE  OpenTripsHold'
  BY IdleIsNoRequest DEF OpenTripsHold, StillTrue, CallsShrink, Open, Running, TripLocks, ActiveTrips

\* A transaction opens: request r is c from now on.
CallOpens(r, op, who, body, locks) ==
  /\ DOMAIN call' = Calls
  /\ ~Open(r) /\ Free(locks)
  /\ IsRequest(call'[r]) /\ call'[r].at = "open" /\ call'[r].op = op
  /\ call'[r].who = who /\ call'[r].body = body /\ call'[r].locks = locks
  /\ \A x \in Calls : x # r => call'[x] = call[x]

LEMMA OpeningKeepsCalls ==
  ASSUME CallsHold, LocksApart, NEW r \in Calls, NEW op, NEW who, NEW body, NEW locks,
         CallOpens(r, op, who, body, locks),
         op = "QUOTE" => who \in Callers /\ body \in Journeys
  PROVE  CallsHold' /\ LocksApart'
<1>1. CallsHold'
  BY DEF CallsHold, CallOpens, Open, Waits, Asks
<1>2. LocksApart'
  <2> SUFFICES ASSUME NEW x \in Calls, NEW y \in Calls, Open(x)', Open(y)', x # y
               PROVE  call'[x].locks \cap call'[y].locks = {}
    BY DEF LocksApart
  <2>1. CASE x # r /\ y # r
    BY <2>1 DEF LocksApart, CallOpens, Open
  <2>2. CASE x = r
    BY <2>2 DEF CallOpens, Open, Free
  <2>3. CASE y = r
    BY <2>3 DEF CallOpens, Open, Free
  <2> QED
    BY <2>1, <2>2, <2>3
<1> QED
  BY <1>1, <1>2

\* Answering ends r and those who joined it.
LEMMA AnsweringShrinks ==
  ASSUME CallsHold, NEW r \in Calls, call[r].at # "idle", NEW answer, call' = Answered(r, answer)
  PROVE  CallsShrink /\ ~Open(r)'
<1>1. /\ DOMAIN call' = Calls
      /\ \A x \in Calls : call'[x] =
           IF x \notin Followers(r) \cup {r} THEN call[x]
           ELSE IF answer = Failed \/ call[x].at = "orphan" THEN Idle
           ELSE [call[x] EXCEPT !.at = "done", !.locks = {}, !.plan = 0, !.answer = answer]
  BY DEF Answered
<1>2. \A x \in Followers(r) \cup {r} : x \in Calls /\ IsRequest(call[x])
  BY IdleIsNoRequest DEF CallsHold, Followers
<1>3. \A x \in Followers(r) \cup {r} :
        \/ call'[x] = Idle
        \/ IsRequest(call'[x]) /\ call'[x].at = "done"
  <2> TAKE x \in Followers(r) \cup {r}
  <2>1. CASE answer = Failed \/ call[x].at = "orphan"
    BY <1>1, <1>2, <2>1
  <2>2. CASE ~(answer = Failed \/ call[x].at = "orphan")
    <3> DEFINE c == call[x]
               d == call'[x]
    <3>1. d = [c EXCEPT !.at = "done", !.locks = {}, !.plan = 0, !.answer = answer]
      BY <1>1, <1>2, <2>2
    <3>2. IsRequest(c)
      BY <1>2
    <3> HIDE DEF c, d
    <3>3. IsRequest(d) /\ d.at = "done"
      BY <3>1, <3>2, RequestEnds
    <3> QED
      BY <3>3 DEF d
  <2> QED
    BY <2>1, <2>2
<1>4. \A x \in Calls : x \notin Followers(r) \cup {r} => call'[x] = call[x]
  BY <1>1
<1>5. CallsShrink
  <2> SUFFICES ASSUME NEW x \in Calls
      PROVE \/ call'[x] = Idle
            \/ /\ IsRequest(call'[x]) /\ call'[x].at \notin {"open", "orphan"}
               /\ Waits(call'[x]) => Asks(call'[x])
            \/ /\ IsRequest(call'[x]) /\ Open(x) /\ call'[x].at \in {"open", "orphan"}
               /\ call'[x].op = call[x].op /\ call'[x].who = call[x].who
               /\ call'[x].body = call[x].body /\ call'[x].locks = call[x].locks
    BY <1>1 DEF CallsShrink
  <2>1. CASE x \in Followers(r) \cup {r}
    BY <1>3, <2>1 DEF Waits
  <2>2. CASE x \notin Followers(r) \cup {r}
    BY <1>4, <2>2 DEF CallsHold, Open, Waits, Asks
  <2> QED
    BY <2>1, <2>2
<1>6. ~Open(r)'
  BY <1>3, IdleIsNoRequest DEF Open
<1> QED
  BY <1>5, <1>6

\* One request r, in no open transaction, becomes c, in none either.
LEMMA OneShrinks ==
  ASSUME CallsHold, NEW r \in Calls, NEW c, call' = [call EXCEPT ![r] = c],
         \/ c = Idle
         \/ /\ IsRequest(c) /\ c.at \notin {"open", "orphan"}
            /\ Waits(c) => Asks(c)
  PROVE  CallsShrink
<1>1. DOMAIN call' = Calls /\ call'[r] = c /\ \A x \in Calls : x # r => call'[x] = call[x]
  BY DEF CallsHold
<1> QED
  BY <1>1 DEF CallsHold, CallsShrink, Open, Waits, Asks

\* A command taken up is answered by its receipt, refused, or opens.
LEMMA TakenCalls ==
  ASSUME CallsHold, NEW r \in Calls, NEW c, IsRequest(c), c.op # "QUOTE",
         NEW locks, NEW verdict, NEW plan, Taken(r, c, locks, verdict, plan)
  PROVE  \/ CallsShrink
         \/ verdict = "NONE" /\ CallOpens(r, c.op, c.who, c.body, locks)
<1> DEFINE d == IF receipt[CommandOf(c)] # NoReceipt THEN Replayed(c)
                ELSE IF verdict # "NONE" THEN Idle
                ELSE [c EXCEPT !.at = "open", !.locks = locks, !.plan = plan]
<1>1. call' = [call EXCEPT ![r] = d] /\ Free(locks) /\ Vacant(r)
  BY DEF Taken
<1>2. DOMAIN call' = Calls /\ call'[r] = d /\ \A x \in Calls : x # r => call'[x] = call[x]
  BY <1>1 DEF CallsHold
<1>3. CASE receipt[CommandOf(c)] # NoReceipt
  <2>1. d = Idle \/ (d = [c EXCEPT !.at = "done", !.answer = Replay(c)])
    BY <1>3 DEF Replayed
  <2> HIDE DEF d
  <2>2. d = Idle \/ (IsRequest(d) /\ d.at = "done")
    BY <2>1, RequestIsAnswered
  <2> QED
    BY <1>1, <2>2, OneShrinks DEF Waits
<1>4. CASE ~(receipt[CommandOf(c)] # NoReceipt) /\ verdict # "NONE"
  <2>1. d = Idle
    BY <1>4
  <2> HIDE DEF d
  <2> QED
    BY <1>1, <2>1, OneShrinks
<1>5. CASE ~(receipt[CommandOf(c)] # NoReceipt) /\ verdict = "NONE"
  <2>1. d = [c EXCEPT !.at = "open", !.locks = locks, !.plan = plan]
    BY <1>5
  <2> HIDE DEF d
  <2>2. Opened(d, c, locks)
    BY <2>1, RequestPlans
  <2>3. ~Open(r)
    BY <1>1 DEF Vacant, Open
  <2> QED
    BY <1>1, <1>2, <1>5, <2>2, <2>3 DEF CallOpens, Opened
<1> QED
  BY <1>3, <1>4, <1>5

-------------------------------------------------------------------------------
(* Tables *)

Tables == QuotesHold /\ TripsHold /\ OneActiveTrip /\ QuotesSpentOnce

LEMMA TablesAreNumbered ==
  ASSUME QuotesHold, TripsHold
  PROVE  /\ Len(quotes) \in Nat /\ DOMAIN quotes = 1..Len(quotes)
         /\ \A q \in DOMAIN quotes : quotes[q] \in QuoteRows
         /\ Len(trips) \in Nat /\ DOMAIN trips = 1..Len(trips)
         /\ \A t \in DOMAIN trips : trips[t] \in TripRows
  BY LenProperties, ElementOfSeq DEF QuotesHold, TripsHold

LEMMA Rewritten ==
  ASSUME NEW S, NEW seq \in Seq(S), NEW f \in [DOMAIN seq -> S]
  PROVE  f \in Seq(S) /\ DOMAIN f = DOMAIN seq
<1>1. DOMAIN seq = 1..Len(seq) /\ Len(seq) \in Nat
  BY LenProperties
<1>2. f \in Seq(S)
  BY <1>1, IsASeq
<1> QED
  BY <1>1, <1>2

LEMMA TablesStand ==
  ASSUME Tables, UNCHANGED <<quotes, trips, card>>
  PROVE  Tables'
<1>1. QuotesHold' /\ TripsHold'
  BY DEF Tables, QuotesHold, TripsHold
<1>2. OneActiveTrip' /\ QuotesSpentOnce'
  BY DEF Tables, OneActiveTrip, QuotesSpentOnce
<1> QED
  BY <1>1, <1>2 DEF Tables

LEMMA ShrinkingKeepsInv ==
  ASSUME PurchaseInv, CallsShrink, UNCHANGED <<quotes, trips, card>>
  PROVE  PurchaseInv'
<1>1. CallsHold' /\ LocksApart' /\ OpenTripsHold'
  BY ShrinkKeepsCalls, ShrinkKeepsOpenTrips DEF PurchaseInv
<1>2. Tables'
  BY TablesStand DEF PurchaseInv, Tables
<1> QED
  BY <1>1, <1>2 DEF PurchaseInv, Tables

-------------------------------------------------------------------------------
(* Quotes *)

LEMMA AskQuoteKeepsInv ==
  ASSUME PurchaseInv, NEW r \in Calls, NEW c \in Callers, NEW k \in Keys,
         NEW journey \in Journeys, AskQuote(r, c, k, journey), UNCHANGED trips
  PROVE  PurchaseInv'
<1>1. PICK at \in {"looking", "joined"} :
        call' = [call EXCEPT ![r] = Request("QUOTE", c, k, journey, at)]
  BY DEF AskQuote
<1> DEFINE d == Request("QUOTE", c, k, journey, at)
<1>2. IsRequest(d) /\ d.at = at /\ d.op = "QUOTE" /\ d.who = c /\ d.body = journey
  BY RequestIsOne
<1> HIDE DEF d
<1>3. CallsShrink
  BY <1>1, <1>2, OneShrinks DEF PurchaseInv, Asks, d
<1> QED
  BY <1>3, ShrinkingKeepsInv DEF AskQuote, quoteVars

LEMMA EstimateRouteKeepsInv ==
  ASSUME PurchaseInv, NEW r \in Calls, EstimateRoute(r), UNCHANGED trips
  PROVE  PurchaseInv'
<1>1. call[r].at = "looking" /\ call[r].at # "idle" /\ CallsHold /\ UNCHANGED <<quotes, card>>
  BY DEF EstimateRoute, PurchaseInv, quoteVars
<1>2. CASE \E answer : call' = Answered(r, answer)
  BY <1>1, <1>2, AnsweringShrinks, ShrinkingKeepsInv
<1>3. CASE call' = [call EXCEPT ![r].at = "queued"]
  <2> DEFINE c == call[r]
             d == [c EXCEPT !.at = "queued"]
  <2>1. call' = [call EXCEPT ![r] = d]
    BY <1>3
  <2>2. IsRequest(c)
    BY <1>1, IdleIsNoRequest DEF CallsHold
  <2>3. Asks(c)
    BY <1>1 DEF CallsHold, Waits
  <2>4. d = [c EXCEPT !.at = "queued"]
    OBVIOUS
  <2> HIDE DEF c, d
  <2>5. IsRequest(d) /\ d.at = "queued" /\ d.op = c.op /\ d.who = c.who /\ d.body = c.body
    BY <2>2, <2>4, RequestMoves
  <2>6. CallsShrink
    BY <1>1, <2>1, <2>3, <2>5, OneShrinks DEF Asks
  <2> QED
    BY <1>1, <2>6, ShrinkingKeepsInv
<1> QED
  BY <1>2, <1>3 DEF EstimateRoute

LEMMA OpenQuoteKeepsInv ==
  ASSUME PurchaseInv, NEW r \in Calls, OpenQuote(r), UNCHANGED trips
  PROVE  PurchaseInv'
<1> DEFINE locks == QuoteLocks(call[r].who, call[r].key)
<1>1. /\ call[r].at = "queued" /\ call[r].at # "idle" /\ CallsHold
      /\ UNCHANGED <<quotes, card>> /\ Free(locks) /\ ~Open(r)
  BY DEF OpenQuote, PurchaseInv, quoteVars, Open
<1> HIDE DEF locks
<1>2. CASE \E answer : call' = Answered(r, answer)
  BY <1>1, <1>2, AnsweringShrinks, ShrinkingKeepsInv
<1>3. CASE call' = [call EXCEPT ![r].at = "open", ![r].locks = locks]
                     /\ receipt[CommandOf(call[r])] = NoReceipt
  <2> DEFINE c == call[r]
             d == [c EXCEPT !.at = "open", !.locks = locks]
  <2>1. call' = [call EXCEPT ![r] = d]
    BY <1>3
  <2>2. IsRequest(c)
    BY <1>1, IdleIsNoRequest DEF CallsHold
  <2>3. Asks(c)
    BY <1>1 DEF CallsHold, Waits
  <2>4. d = [c EXCEPT !.at = "open", !.locks = locks]
    OBVIOUS
  <2> HIDE DEF c, d
  <2>5. Opened(d, c, locks)
    BY <2>2, <2>4, RequestLocks
  <2>6. CallOpens(r, c.op, c.who, c.body, locks)
    BY <1>1, <2>1, <2>5 DEF CallOpens, CallsHold, Opened
  <2>7. CallsHold' /\ LocksApart'
    BY <1>1, <2>3, <2>6, OpeningKeepsCalls DEF PurchaseInv, Asks
  <2>8. OpenTripsHold'
    BY <1>1, <2>3, <2>6 DEF PurchaseInv, OpenTripsHold, StillTrue, CallOpens, Asks, Running, Open,
       ActiveTrips
  <2>9. Tables'
    BY <1>1, TablesStand DEF PurchaseInv, Tables
  <2> QED
    BY <2>7, <2>8, <2>9 DEF PurchaseInv, Tables
<1> QED
  BY <1>2, <1>3, Zenon DEF OpenQuote, locks

LEMMA NoSurgeIsNat == NoSurge \in Nat
  BY DEF NoSurge

LEMMA FareIsInt ==
  ASSUME NEW m \in Nat, NEW s \in Nat, NEW c \in 1..2
  PROVE  Fare(m, s, NoSurge, RateCards[c]) \in Int
<1>1. RateCards[c] \in Cards /\ m <= m /\ s <= s
  BY RateCardsAreCards
<1>2. Fare(m, s, NoSurge, RateCards[c]) \in Nat
  BY <1>1, NoSurgeIsNat, FareGrows
<1> QED
  BY <1>2

LEMMA CommitQuoteKeepsInv ==
  ASSUME PurchaseInv, NEW r \in Calls, CommitQuote(r), UNCHANGED trips
  PROVE  PurchaseInv'
<1> DEFINE journey == call[r].body
           n == Len(quotes) + 1
           row == [who |-> call[r].who, estimate |-> Estimate(journey), rules |-> card,
                   fare |-> QuotedFare(journey, RateCards[card]),
                   status |-> "ACTIVE", lapsed |-> FALSE]
<1>1. /\ Len(quotes) \in Nat /\ DOMAIN quotes = 1..Len(quotes) /\ quotes \in Seq(QuoteRows)
      /\ trips \in Seq(TripRows)
      /\ \A t \in DOMAIN trips : trips[t].quote \in DOMAIN quotes
  BY TablesAreNumbered DEF PurchaseInv, QuotesHold, TripsHold
<1>2. /\ call[r].who \in Callers /\ journey \in Journeys /\ card \in 1..2
      /\ call[r].at # "idle" /\ CallsHold /\ call' = Answered(r, n)
      /\ quotes' = Append(quotes, row) /\ UNCHANGED card
  BY DEF CommitQuote, Running, Open, PurchaseInv, CallsHold, Asks, QuotesHold, Committed
<1>3. journey.meters \in Nat /\ journey.seconds \in Nat
  BY <1>2, EstimateAssumption DEF Journeys
<1>4. Estimate(journey) \in Lengths
  BY <1>3 DEF Estimate, Lengths
<1>5. QuotedFare(journey, RateCards[card]) =
        Fare(Estimate(journey).meters, Estimate(journey).seconds, NoSurge, RateCards[card])
  BY DEF QuotedFare
<1>6. QuotedFare(journey, RateCards[card]) \in Int
  BY <1>2, <1>4, <1>5, FareIsInt DEF Lengths
<1>7. row \in QuoteRows
  BY <1>2, <1>4, <1>6 DEF QuoteRows
<1>8. /\ row.fare = Fare(row.estimate.meters, row.estimate.seconds, NoSurge,
                         RateCards[row.rules])
      /\ row.status = "ACTIVE"
  BY <1>5
<1> HIDE DEF row, n
<1>9. /\ quotes' \in Seq(QuoteRows) /\ Len(quotes') = Len(quotes) + 1
      /\ \A q \in 1..Len(quotes) : quotes'[q] = quotes[q]
      /\ quotes'[Len(quotes) + 1] = row
  BY <1>1, <1>2, <1>7, AppendProperties
<1>10. DOMAIN quotes' = 1..(Len(quotes) + 1)
  BY <1>9, LenProperties
<1>11. QuotesHold'
  BY <1>1, <1>2, <1>8, <1>9, <1>10 DEF PurchaseInv, QuotesHold
<1>12. TripsHold'
  BY <1>1, <1>9, <1>10 DEF PurchaseInv, TripsHold
<1>13. OneActiveTrip'
  BY DEF PurchaseInv, OneActiveTrip
<1>14. QuotesSpentOnce'
  BY <1>1, <1>8, <1>9, <1>10 DEF PurchaseInv, QuotesSpentOnce
<1>15. CallsShrink
  BY <1>2, AnsweringShrinks
<1>16. CallsHold' /\ LocksApart'
  BY <1>15, ShrinkKeepsCalls DEF PurchaseInv
<1>17. \A q \in DOMAIN quotes : q \in DOMAIN quotes' /\ quotes'[q] = quotes[q]
  BY <1>1, <1>9, <1>10
<1>18. OpenTripsHold'
  BY <1>15, <1>17, IdleIsNoRequest DEF PurchaseInv, OpenTripsHold, StillTrue, CallsShrink, Open, Running,
     TripLocks, ActiveTrips
<1> QED
  BY <1>11, <1>12, <1>13, <1>14, <1>16, <1>18 DEF PurchaseInv

LEMMA QuoteLapsesKeepsInv ==
  ASSUME PurchaseInv, NEW q \in DOMAIN quotes, QuoteLapses(q), UNCHANGED trips
  PROVE  PurchaseInv'
<1>1. /\ quotes \in Seq(QuoteRows) /\ \A p \in DOMAIN quotes : quotes[p] \in QuoteRows
  BY TablesAreNumbered DEF PurchaseInv, QuotesHold
<1>2. quotes' = [quotes EXCEPT ![q].lapsed = TRUE] /\ UNCHANGED <<call, card>>
  BY DEF QuoteLapses, callVars
<1>3. quotes' \in [DOMAIN quotes -> QuoteRows]
  BY <1>1, <1>2 DEF QuoteRows
<1>4. quotes' \in Seq(QuoteRows) /\ DOMAIN quotes' = DOMAIN quotes
  BY <1>1, <1>3, Rewritten
<1>5. \A p \in DOMAIN quotes :
        /\ quotes'[p].who = quotes[p].who /\ quotes'[p].estimate = quotes[p].estimate
        /\ quotes'[p].rules = quotes[p].rules /\ quotes'[p].fare = quotes[p].fare
        /\ quotes'[p].status = quotes[p].status
  BY <1>1, <1>2 DEF QuoteRows
<1>6. QuotesHold'
  BY <1>2, <1>4, <1>5 DEF PurchaseInv, QuotesHold
<1>7. TripsHold'
  BY <1>4, <1>5 DEF PurchaseInv, TripsHold
<1>8. OneActiveTrip' /\ QuotesSpentOnce'
  BY <1>4, <1>5 DEF PurchaseInv, OneActiveTrip, QuotesSpentOnce
<1>9. CallsHold' /\ LocksApart'
  BY <1>2 DEF PurchaseInv, CallsHold, LocksApart, Open
<1>10. OpenTripsHold'
  BY <1>2, <1>4, <1>5 DEF PurchaseInv, OpenTripsHold, StillTrue, Running, Open, ActiveTrips
<1> QED
  BY <1>6, <1>7, <1>8, <1>9, <1>10 DEF PurchaseInv

LEMMA NewRateCardKeepsInv ==
  ASSUME PurchaseInv, NewRateCard, UNCHANGED trips
  PROVE  PurchaseInv'
<1>1. card' \in 1..2 /\ UNCHANGED <<call, quotes>>
  <2>1. Len(RateCards) = 2
    BY DEF RateCards
  <2> QED
    BY <2>1 DEF NewRateCard, PurchaseInv, QuotesHold, callVars
<1>2. QuotesHold' /\ TripsHold'
  BY <1>1 DEF PurchaseInv, QuotesHold, TripsHold
<1>3. OneActiveTrip' /\ QuotesSpentOnce'
  BY <1>1 DEF PurchaseInv, OneActiveTrip, QuotesSpentOnce
<1>4. CallsHold' /\ LocksApart' /\ OpenTripsHold'
  BY <1>1 DEF PurchaseInv, CallsHold, LocksApart, OpenTripsHold, StillTrue, Running, Open, ActiveTrips
<1> QED
  BY <1>2, <1>3, <1>4 DEF PurchaseInv

-------------------------------------------------------------------------------
(* Trips *)

\* A verdict of NONE says what the transaction relies on.
LEMMA VerdictSays ==
  ASSUME QuotesHold, TripsHold, NEW c, NEW q, TripVerdict(c, q) = "NONE"
  PROVE  /\ q \in DOMAIN quotes /\ quotes[q].who = c /\ quotes[q].status = "ACTIVE"
         /\ ActiveTrips(c) = {}
  BY DEF TripVerdict

LEMMA OpenTripKeepsInv ==
  ASSUME PurchaseInv, NEW r \in Calls, NEW c \in Callers, NEW k \in Keys, NEW q,
         OpenTrip(r, c, k, q)
  PROVE  PurchaseInv'
<1> DEFINE d == Request("TRIP", c, k, q, "queued")
<1>1. IsRequest(d) /\ d.op = "TRIP" /\ d.who = c /\ d.body = q
  BY RequestIsOne
<1>2. Taken(r, d, TripLocks(c, q), TripVerdict(c, q), 0) /\ UNCHANGED <<quotes, card, trips>>
  BY DEF OpenTrip, quoteVars
<1> HIDE DEF d
<1>3. CASE CallsShrink
  BY <1>2, <1>3, ShrinkingKeepsInv
<1>4. CASE TripVerdict(c, q) = "NONE" /\ CallOpens(r, "TRIP", c, q, TripLocks(c, q))
  <2>1. CallsHold' /\ LocksApart'
    BY <1>4, OpeningKeepsCalls DEF PurchaseInv
  <2>2. /\ q \in DOMAIN quotes /\ quotes[q].who = c /\ quotes[q].status = "ACTIVE"
        /\ ActiveTrips(c) = {}
    BY <1>4, VerdictSays DEF PurchaseInv
  <2>3. OpenTripsHold'
    BY <1>2, <1>4, <2>2 DEF PurchaseInv, OpenTripsHold, StillTrue, CallOpens, Running, Open, TripLocks,
       ActiveTrips
  <2>4. Tables'
    BY <1>2, TablesStand DEF PurchaseInv, Tables
  <2> QED
    BY <2>1, <2>3, <2>4 DEF PurchaseInv, Tables
<1> QED
  BY <1>1, <1>2, <1>3, <1>4, TakenCalls DEF PurchaseInv

LEMMA CommitTripKeepsInv ==
  ASSUME PurchaseInv, NEW r \in Calls, CommitTrip(r)
  PROVE  PurchaseInv'
<1> DEFINE q == call[r].body
           c == call[r].who
           n == Len(trips) + 1
           row == [who |-> c, quote |-> q, state |-> "ACTIVE",
                   quoted |-> quotes[q].fare, rules |-> quotes[q].rules,
                   final |-> NoFare, metered |-> quotes[q].estimate]
<1>1. /\ Len(quotes) \in Nat /\ DOMAIN quotes = 1..Len(quotes) /\ quotes \in Seq(QuoteRows)
      /\ \A p \in DOMAIN quotes : quotes[p] \in QuoteRows
      /\ Len(trips) \in Nat /\ DOMAIN trips = 1..Len(trips) /\ trips \in Seq(TripRows)
      /\ \A t \in DOMAIN trips : trips[t] \in TripRows /\ trips[t].quote \in DOMAIN quotes
  BY TablesAreNumbered DEF PurchaseInv, QuotesHold, TripsHold
<1>2. /\ call[r].at # "idle" /\ CallsHold /\ call' = Answered(r, n)
      /\ trips' = Append(trips, row) /\ UNCHANGED card
      /\ quotes' = [quotes EXCEPT ![q].status = "CONSUMED"]
  BY DEF CommitTrip, Running, Open, PurchaseInv, Committed
<1>3. /\ call[r].locks = TripLocks(c, q) /\ c \in Callers /\ q \in DOMAIN quotes
      /\ quotes[q].who = c /\ quotes[q].status = "ACTIVE" /\ ActiveTrips(c) = {}
      /\ Running(r, "TRIP")
  BY DEF CommitTrip, PurchaseInv, OpenTripsHold, StillTrue
<1>4. row \in TripRows
  BY <1>1, <1>3 DEF TripRows, QuoteRows, NoFare
<1>5. /\ row.who = c /\ row.quote = q /\ row.state = "ACTIVE"
      /\ row.quoted = quotes[q].fare /\ row.rules = quotes[q].rules
  OBVIOUS
<1> HIDE DEF row, n, q, c
<1>6. /\ trips' \in Seq(TripRows) /\ Len(trips') = Len(trips) + 1
      /\ \A t \in 1..Len(trips) : trips'[t] = trips[t]
      /\ trips'[Len(trips) + 1] = row
  BY <1>1, <1>2, <1>4, AppendProperties
<1>7. DOMAIN trips' = 1..(Len(trips) + 1)
  BY <1>6, LenProperties
<1>8. quotes' \in [DOMAIN quotes -> QuoteRows]
  BY <1>1, <1>2, <1>3 DEF QuoteRows
<1>9. quotes' \in Seq(QuoteRows) /\ DOMAIN quotes' = DOMAIN quotes
  BY <1>1, <1>8, Rewritten
<1>10. \A p \in DOMAIN quotes :
        /\ quotes'[p].who = quotes[p].who /\ quotes'[p].estimate = quotes[p].estimate
        /\ quotes'[p].rules = quotes[p].rules /\ quotes'[p].fare = quotes[p].fare
        /\ quotes'[p].status = IF p = q THEN "CONSUMED" ELSE quotes[p].status
  BY <1>1, <1>2 DEF QuoteRows
<1>11. QuotesHold'
  BY <1>2, <1>9, <1>10 DEF PurchaseInv, QuotesHold
<1>12. TripsHold'
  <2>1. ASSUME NEW t \in DOMAIN trips'
        PROVE  /\ trips'[t].quote \in DOMAIN quotes
               /\ trips'[t].rules = quotes'[trips'[t].quote].rules
               /\ trips'[t].state = "COMPLETED" =>
                    trips'[t].final = Fare(trips'[t].metered.meters, trips'[t].metered.seconds,
                                           NoSurge, RateCards[trips'[t].rules])
    <3>1. CASE t = Len(trips) + 1
      BY <1>3, <1>5, <1>6, <1>10, <3>1
    <3>2. CASE t # Len(trips) + 1
      <4>1. t \in DOMAIN trips /\ trips'[t] = trips[t]
        BY <1>1, <1>6, <1>7, <3>2
      <4> QED
        BY <1>1, <1>10, <4>1 DEF PurchaseInv, TripsHold
    <3> QED
      BY <3>1, <3>2
  <2> QED
    BY <1>6, <1>9, <2>1 DEF TripsHold
<1>13. OneActiveTrip'
  BY <1>1, <1>3, <1>5, <1>6, <1>7 DEF PurchaseInv, OneActiveTrip, ActiveTrips
<1>14. \A t \in DOMAIN trips : trips[t].quote # q
  BY <1>3 DEF PurchaseInv, QuotesSpentOnce
<1>15. QuotesSpentOnce'
  <2>1. ASSUME NEW p \in DOMAIN quotes, p # q
        PROVE  {t \in DOMAIN trips' : trips'[t].quote = p}
                 = {t \in DOMAIN trips : trips[t].quote = p}
    BY <1>1, <1>5, <1>6, <1>7, <2>1
  <2>2. {t \in DOMAIN trips' : trips'[t].quote = q} = {Len(trips) + 1}
    BY <1>1, <1>5, <1>6, <1>7, <1>14
  <2>3. ASSUME NEW p \in DOMAIN quotes, p # q,
               NEW t \in DOMAIN trips, trips[t].quote = p
        PROVE  trips'[t].who = quotes'[p].who /\ trips'[t].quoted = quotes'[p].fare
    BY <1>1, <1>6, <1>10, <2>3 DEF PurchaseInv, QuotesSpentOnce
  <2>4. \A p \in DOMAIN quotes : p # q =>
          LET spent == {t \in DOMAIN trips' : trips'[t].quote = p}
          IN  /\ \A s, t \in spent : s = t
              /\ quotes'[p].status = "CONSUMED" <=> spent # {}
              /\ \A t \in spent : /\ trips'[t].who = quotes'[p].who
                                  /\ trips'[t].quoted = quotes'[p].fare
    BY <1>10, <2>1, <2>3 DEF PurchaseInv, QuotesSpentOnce
  <2>5. /\ quotes'[q].status = "CONSUMED"
        /\ trips'[Len(trips) + 1].who = quotes'[q].who
        /\ trips'[Len(trips) + 1].quoted = quotes'[q].fare
    BY <1>3, <1>5, <1>6, <1>10
  <2> QED
    BY <1>9, <2>2, <2>4, <2>5 DEF QuotesSpentOnce
<1>16. CallsShrink /\ ~Open(r)'
  BY <1>2, AnsweringShrinks
<1>17. CallsHold' /\ LocksApart'
  BY <1>16, ShrinkKeepsCalls DEF PurchaseInv
<1>18. OpenTripsHold'
  <2> SUFFICES ASSUME NEW x \in Calls, Running(x, "TRIP")' PROVE StillTrue(x)'
    BY DEF OpenTripsHold
  <2>1. /\ x # r /\ Open(x) /\ call[x].op = "TRIP"
        /\ call'[x].who = call[x].who /\ call'[x].body = call[x].body
        /\ call'[x].locks = call[x].locks
    BY <1>16, IdleIsNoRequest DEF CallsShrink, Running, Open
  <2>2. /\ call[x].locks = TripLocks(call[x].who, call[x].body)
        /\ call[x].who \in Callers /\ call[x].body \in DOMAIN quotes
        /\ quotes[call[x].body].who = call[x].who
        /\ quotes[call[x].body].status = "ACTIVE"
        /\ ActiveTrips(call[x].who) = {}
    BY <2>1 DEF PurchaseInv, OpenTripsHold, StillTrue, Running
  <2>3. TripLocks(c, q) \cap TripLocks(call[x].who, call[x].body) = {}
    BY <1>3, <2>1, <2>2 DEF PurchaseInv, LocksApart, Running
  <2>4. call[x].who # c /\ call[x].body # q
    BY <2>3 DEF TripLocks
  <2>5. \A t \in DOMAIN trips' :
          ~(trips'[t].who = call[x].who /\ trips'[t].state = "ACTIVE")
    BY <1>1, <1>5, <1>6, <1>7, <2>2, <2>4 DEF ActiveTrips
  <2> QED
    BY <1>9, <1>10, <2>1, <2>2, <2>4, <2>5 DEF StillTrue, TripLocks, ActiveTrips
<1> QED
  BY <1>11, <1>12, <1>13, <1>15, <1>17, <1>18 DEF PurchaseInv

\* A Trip ends, at a fare or without one.
TripEnds(t) ==
  /\ trips' \in [DOMAIN trips -> TripRows]
  /\ \A s \in DOMAIN trips :
       /\ trips'[s].who = trips[s].who /\ trips'[s].quote = trips[s].quote
       /\ trips'[s].quoted = trips[s].quoted /\ trips'[s].rules = trips[s].rules
       /\ s # t => trips'[s] = trips[s]
  /\ trips'[t].state \in {"COMPLETED", "ENDED"}
  /\ trips'[t].state = "COMPLETED" =>
       trips'[t].final = Fare(trips'[t].metered.meters, trips'[t].metered.seconds,
                              NoSurge, RateCards[trips[t].rules])

LEMMA EndingKeepsInv ==
  ASSUME PurchaseInv, UNCHANGED <<call, quotes, card>>, NEW t \in DOMAIN trips, TripEnds(t)
  PROVE  PurchaseInv'
<1>1. trips \in Seq(TripRows) /\ \A s \in DOMAIN trips : trips[s] \in TripRows
  BY TablesAreNumbered DEF PurchaseInv, TripsHold
<1>2. trips' \in Seq(TripRows) /\ DOMAIN trips' = DOMAIN trips
  BY <1>1, Rewritten DEF TripEnds
<1>3. \A s \in DOMAIN trips : trips'[s].state = "ACTIVE" => trips[s].state = "ACTIVE"
  BY DEF TripEnds
<1>4. TripsHold'
  BY <1>2 DEF PurchaseInv, TripsHold, TripEnds
<1>5. OneActiveTrip' /\ QuotesSpentOnce'
  BY <1>2, <1>3 DEF PurchaseInv, OneActiveTrip, QuotesSpentOnce, TripEnds
<1>6. QuotesHold' /\ CallsHold' /\ LocksApart'
  BY DEF PurchaseInv, QuotesHold, CallsHold, LocksApart, Open
<1>7. OpenTripsHold'
  BY <1>2, <1>3 DEF PurchaseInv, OpenTripsHold, StillTrue, Running, Open, ActiveTrips,
     TripLocks, TripEnds
<1> QED
  BY <1>4, <1>5, <1>6, <1>7 DEF PurchaseInv

LEMMA CompleteTripKeepsInv ==
  ASSUME PurchaseInv, NEW t \in DOMAIN trips, NEW journey \in Meterings,
         CompleteTripAt(t, journey)
  PROVE  PurchaseInv'
<1>1. \A s \in DOMAIN trips : trips[s] \in TripRows
  BY TablesAreNumbered DEF PurchaseInv
<1>2. journey \in Lengths
  BY MeteringAssumption DEF Meterings, Lengths
<1>3. FinalFare(t, journey) =
        Fare(journey.meters, journey.seconds, NoSurge, RateCards[trips[t].rules])
  BY DEF FinalFare
<1>4. FinalFare(t, journey) \in Int
  BY <1>1, <1>2, <1>3, FareIsInt DEF TripRows, Lengths
<1>5. /\ trips' = [trips EXCEPT ![t].state = "COMPLETED", ![t].metered = journey,
                                ![t].final = FinalFare(t, journey)]
      /\ UNCHANGED <<call, quotes, card>>
  BY DEF CompleteTripAt, callVars, quoteVars
<1>6. TripEnds(t)
  BY <1>1, <1>2, <1>3, <1>4, <1>5 DEF TripEnds, TripRows
<1> QED
  BY <1>5, <1>6, EndingKeepsInv

LEMMA EndTripKeepsInv ==
  ASSUME PurchaseInv, NEW t \in DOMAIN trips, EndTrip(t)
  PROVE  PurchaseInv'
<1>1. \A s \in DOMAIN trips : trips[s] \in TripRows
  BY TablesAreNumbered DEF PurchaseInv
<1>2. trips' = [trips EXCEPT ![t].state = "ENDED"] /\ UNCHANGED <<call, quotes, card>>
  BY DEF EndTrip, callVars, quoteVars
<1>3. TripEnds(t)
  BY <1>1, <1>2 DEF TripEnds, TripRows
<1> QED
  BY <1>2, <1>3, EndingKeepsInv

-------------------------------------------------------------------------------
(* Captures, failures and stops leave quotes and Trips alone *)

LEMMA OpenCaptureKeepsInv ==
  ASSUME PurchaseInv, NEW r \in Calls, NEW c, NEW k, NEW t, NEW o,
         OpenCapture(r, c, k, t, o)
  PROVE  PurchaseInv'
<1> DEFINE d == Request("CAPTURE", c, k, [trip |-> t, outcome |-> o], "queued")
<1>1. IsRequest(d) /\ d.op = "CAPTURE"
  BY RequestIsOne
<1>2. /\ Taken(r, d, CaptureLocks(c, k, t), CaptureVerdict(c, t), NextNumber(t))
      /\ UNCHANGED <<quotes, card, trips>>
  BY DEF OpenCapture, quoteVars
<1> HIDE DEF d
<1>3. CASE CallsShrink
  BY <1>2, <1>3, ShrinkingKeepsInv
<1>4. CASE CallOpens(r, "CAPTURE", d.who, d.body, CaptureLocks(c, k, t))
  <2>1. CallsHold' /\ LocksApart'
    BY <1>4, OpeningKeepsCalls DEF PurchaseInv
  <2>2. OpenTripsHold'
    BY <1>2, <1>4 DEF PurchaseInv, OpenTripsHold, StillTrue, CallOpens, Running, Open,
       ActiveTrips, TripLocks
  <2>3. Tables'
    BY <1>2, TablesStand DEF PurchaseInv, Tables
  <2> QED
    BY <2>1, <2>2, <2>3 DEF PurchaseInv, Tables
<1> QED
  BY <1>1, <1>2, <1>3, <1>4, TakenCalls DEF PurchaseInv

LEMMA CommitCaptureKeepsInv ==
  ASSUME PurchaseInv, NEW r \in Calls, CommitCapture(r)
  PROVE  PurchaseInv'
<1>1. /\ call[r].at # "idle" /\ \E answer : call' = Answered(r, answer)
      /\ UNCHANGED <<quotes, card, trips>>
  BY DEF CommitCapture, Running, Open, Committed, quoteVars
<1> QED
  BY <1>1, AnsweringShrinks, ShrinkingKeepsInv DEF PurchaseInv

LEMMA FailsKeepsInv ==
  ASSUME PurchaseInv, NEW r \in Calls, Fails(r), UNCHANGED <<quoteVars, trips>>
  PROVE  PurchaseInv'
<1>1. /\ call[r].at # "idle" /\ call' = Answered(r, Failed)
      /\ UNCHANGED <<quotes, card, trips>>
  BY DEF Fails, quoteVars
<1> QED
  BY <1>1, AnsweringShrinks, ShrinkingKeepsInv DEF PurchaseInv

LEMMA StopKeepsInv ==
  ASSUME PurchaseInv, NEW sent \in SUBSET Calls, ProcessStops(sent),
         UNCHANGED <<quoteVars, trips>>
  PROVE  PurchaseInv'
<1>1. /\ call' = [r \in Calls |-> IF r \in sent THEN [call[r] EXCEPT !.at = "orphan"] ELSE Idle]
      /\ sent \subseteq {r \in Calls : Open(r)} /\ UNCHANGED <<quotes, card, trips>>
  BY DEF ProcessStops, quoteVars
<1>2. ASSUME NEW x \in sent
      PROVE  /\ IsRequest(call'[x]) /\ Open(x) /\ call'[x].at \in {"open", "orphan"}
             /\ call'[x].op = call[x].op /\ call'[x].who = call[x].who
             /\ call'[x].body = call[x].body /\ call'[x].locks = call[x].locks
  <2> DEFINE c == call[x]
             d == call'[x]
  <2>1. Open(x) /\ x \in Calls
    BY <1>1
  <2>2. IsRequest(c)
    BY <2>1, IdleIsNoRequest DEF PurchaseInv, CallsHold, Open
  <2>3. d = [c EXCEPT !.at = "orphan"]
    BY <1>1, <2>1
  <2> HIDE DEF c, d
  <2>4. /\ IsRequest(d) /\ d.at = "orphan" /\ d.op = c.op /\ d.who = c.who
        /\ d.body = c.body /\ d.locks = c.locks
    BY <2>2, <2>3, RequestMoves
  <2> QED
    BY <2>1, <2>4 DEF c, d
<1>3. DOMAIN call' = Calls /\ \A x \in Calls : x \notin sent => call'[x] = Idle
  BY <1>1
<1>4. CallsShrink
  BY <1>2, <1>3 DEF CallsShrink
<1> QED
  BY <1>1, <1>4, ShrinkingKeepsInv

-------------------------------------------------------------------------------
(* Every step *)

LEMMA InitHasInv == PurchaseInit => PurchaseInv
<1> SUFFICES ASSUME PurchaseInit PROVE PurchaseInv
  OBVIOUS
<1>1. /\ quotes = <<>> /\ trips = <<>> /\ card = 1
      /\ call = [r \in Calls |-> Idle]
  BY DEF PurchaseInit, CallsInit, QuotesInit, TripsInit
<1>2. quotes \in Seq(QuoteRows) /\ trips \in Seq(TripRows) /\ Len(quotes) = 0 /\ Len(trips) = 0
  BY <1>1, EmptySeq
<1>3. DOMAIN quotes = {} /\ DOMAIN trips = {}
  BY <1>2, LenProperties
<1>4. CallsHold /\ LocksApart /\ OpenTripsHold
  BY <1>1, IdleIsNoRequest DEF CallsHold, LocksApart, OpenTripsHold, Running, Open, Waits
<1> QED
  BY <1>1, <1>2, <1>3, <1>4 DEF PurchaseInv, QuotesHold, TripsHold, OneActiveTrip,
     QuotesSpentOnce

LEMMA StepKeepsInv ==
  ASSUME PurchaseInv, PurchaseNext
  PROVE  PurchaseInv'
<1>1. ASSUME NEW r \in Calls, NEW c \in Callers, NEW k \in Keys, AskStep(r, c, k)
      PROVE  PurchaseInv'
  BY <1>1, AskQuoteKeepsInv, OpenTripKeepsInv, OpenCaptureKeepsInv DEF AskStep
<1>2. ASSUME NEW r \in Calls, CallStep(r)
      PROVE  PurchaseInv'
  BY <1>2, EstimateRouteKeepsInv, OpenQuoteKeepsInv, CommitQuoteKeepsInv, CommitTripKeepsInv,
     CommitCaptureKeepsInv, FailsKeepsInv DEF CallStep
<1>3. CASE OutsideStep
  BY <1>3, QuoteLapsesKeepsInv, NewRateCardKeepsInv, EndTripKeepsInv, CompleteTripKeepsInv,
     StopKeepsInv DEF OutsideStep
<1> QED
  BY <1>1, <1>2, <1>3 DEF PurchaseNext

LEMMA AlwaysPurchaseInv == PurchaseSpec => []PurchaseInv
<1>1. ASSUME PurchaseInv, UNCHANGED purchaseVars PROVE PurchaseInv'
  <2>1. UNCHANGED <<call, quotes, card, trips>>
    BY <1>1 DEF purchaseVars, callVars, quoteVars
  <2>2. CallsHold' /\ LocksApart' /\ OpenTripsHold'
    BY <1>1, <2>1 DEF PurchaseInv, CallsHold, LocksApart, OpenTripsHold, StillTrue, Running,
       Open, ActiveTrips
  <2>3. Tables'
    BY <1>1, <2>1, TablesStand DEF PurchaseInv, Tables
  <2> QED
    BY <2>2, <2>3 DEF PurchaseInv, Tables
<1>2. PurchaseInv /\ [PurchaseNext]_purchaseVars => PurchaseInv'
  BY <1>1, StepKeepsInv
<1> QED
  BY <1>2, InitHasInv, PTL DEF PurchaseSpec

\* createTrip: a Customer has at most one Trip that has not ended, however many
\* requests with however many keys and quotes check that at the same time; the
\* lock on the Customer is enough.
THEOREM OneTripAtATime == PurchaseSpec => []OneActiveTrip
<1>1. PurchaseInv => OneActiveTrip
  BY DEF PurchaseInv
<1> QED
  BY <1>1, AlwaysPurchaseInv, PTL

\* A quote is spent on at most one Trip, of its Customer and at its price, and is
\* CONSUMED exactly when there is that Trip.
THEOREM AlwaysSpentOnce == PurchaseSpec => []QuotesSpentOnce
<1>1. PurchaseInv => QuotesSpentOnce
  BY DEF PurchaseInv
<1> QED
  BY <1>1, AlwaysPurchaseInv, PTL

LEMMA InvHonoursQuotes ==
  ASSUME PurchaseInv
  PROVE  FinalFareHonoursQuote
<1> SUFFICES ASSUME NEW t \in DOMAIN trips, trips[t].state = "COMPLETED"
    PROVE LET estimate == quotes[trips[t].quote].estimate
              metered  == trips[t].metered
          IN  /\ (metered.meters <= estimate.meters /\ metered.seconds <= estimate.seconds)
                   => trips[t].final <= trips[t].quoted
              /\ (metered.meters >= estimate.meters /\ metered.seconds >= estimate.seconds)
                   => trips[t].final >= trips[t].quoted
  BY DEF FinalFareHonoursQuote
<1> DEFINE q == trips[t].quote
           m == trips[t].metered.meters
           s == trips[t].metered.seconds
           n == quotes[q].estimate.meters
           u == quotes[q].estimate.seconds
           rules == RateCards[trips[t].rules]
<1>1. /\ trips[t] \in TripRows /\ q \in DOMAIN quotes /\ quotes[q] \in QuoteRows
      /\ trips[t].rules = quotes[q].rules
  BY TablesAreNumbered DEF PurchaseInv, TripsHold
<1>2. m \in Nat /\ s \in Nat /\ n \in Nat /\ u \in Nat /\ rules \in Cards
  BY <1>1, RateCardsAreCards DEF TripRows, QuoteRows, Lengths
<1>3. trips[t].final = Fare(m, s, NoSurge, rules)
  BY DEF PurchaseInv, TripsHold
<1>4. trips[t].quoted = Fare(n, u, NoSurge, rules)
  <2>1. trips[t].quoted = quotes[q].fare
    BY <1>1 DEF PurchaseInv, QuotesSpentOnce
  <2>2. quotes[q].fare = Fare(n, u, NoSurge, RateCards[quotes[q].rules])
    BY <1>1 DEF PurchaseInv, QuotesHold
  <2> QED
    BY <1>1, <2>1, <2>2
<1> HIDE DEF m, s, n, u, rules
<1>5. m <= n /\ s <= u => trips[t].final <= trips[t].quoted
  <2>1. m <= n /\ s <= u => Fare(m, s, NoSurge, rules) <= Fare(n, u, NoSurge, rules)
    BY <1>2, NoSurgeIsNat, FareGrows
  <2> QED
    BY <1>3, <1>4, <2>1
<1>6. m >= n /\ s >= u => trips[t].final >= trips[t].quoted
  <2>1. m >= n /\ s >= u => n <= m /\ u <= s
    BY <1>2
  <2>2. n <= m /\ u <= s =>
          /\ Fare(n, u, NoSurge, rules) <= Fare(m, s, NoSurge, rules)
          /\ Fare(n, u, NoSurge, rules) \in Nat /\ Fare(m, s, NoSurge, rules) \in Nat
    BY <1>2, NoSurgeIsNat, FareGrows
  <2> QED
    BY <1>3, <1>4, <2>1, <2>2
<1> QED
  BY <1>5, <1>6 DEF m, s, n, u

\* A Trip that takes no longer than its quote's estimate costs no more than the
\* quote, and one that takes no less costs no less, whatever rate cards come.
THEOREM QuotesAreHonoured == PurchaseSpec => []FinalFareHonoursQuote
  BY InvHonoursQuotes, AlwaysPurchaseInv, PTL

-------------------------------------------------------------------------------
(* Commands and their receipts: a second invariant, over the first *)

SameCommand(d, c) == d.op = c.op /\ d.who = c.who /\ d.key = c.key /\ d.body = c.body

LocksOf(c) ==
  IF c.op = "QUOTE" THEN QuoteLocks(c.who, c.key)
  ELSE IF c.op = "TRIP" THEN TripLocks(c.who, c.body)
  ELSE CaptureLocks(c.who, c.key, c.body.trip)

InTransaction(c) == c.at \in {"open", "orphan"}

\* What a request c may hold, known being the receipt of its command: one in a
\* transaction saw none, and nobody else can commit one; one that was answered
\* was told what the receipt says.
CallHolds(c, known) ==
  \/ c = Idle
  \/ /\ CommandOf(c) \in Commands
     /\ IF InTransaction(c) THEN known = NoReceipt /\ c.locks = LocksOf(c) ELSE c.locks = {}
     /\ c.at = "done" => known # NoReceipt /\ known.body = c.body /\ known.id = c.answer

CommandsHold == \A r \in Calls : CallHolds(call[r], receipt[CommandOf(call[r])])

\* A request for a quote whose promise others may join.
Promises(c) == c.at \in {"looking", "queued", "open"} /\ c.op = "QUOTE"

\* There is one promise at a time for a command, and those who joined a promise
\* are waiting for one of the body they sent.
JoinersHold ==
  /\ \A r, x \in Calls :
       (Promises(call[r]) /\ Promises(call[x]) /\ CommandOf(call[r]) = CommandOf(call[x]))
         => r = x
  /\ \A x \in Calls : call[x].at = "joined" =>
       \E r \in Calls : /\ Promises(call[r]) /\ CommandOf(call[r]) = CommandOf(call[x])
                        /\ call[r].body = call[x].body

\* The attempts for a Trip are numbered up to n, and all but the last failed.
AttemptRows == [number : 1..MaxAttempts, status : Outcomes, amount : Nat]

AttemptsOf(t, n) ==
  /\ n \in Nat
  /\ \A a \in attempts[t] : a.number \in 1..n /\ (a.number < n => a.status = "FAILED")
  /\ \A k \in 1..n : \E a \in attempts[t] : a.number = k
  /\ \A a, b \in attempts[t] : a.number = b.number => a = b

AttemptsHold ==
  /\ attempts \in [1..MaxTrips -> SUBSET AttemptRows]
  /\ \A t \in 1..MaxTrips : \E n : AttemptsOf(t, n)
  /\ \A t \in 1..MaxTrips : \A a \in attempts[t] :
       t \in DOMAIN trips /\ trips[t].state = "COMPLETED" /\ a.amount = trips[t].final

\* What captureTripPayment has read stays true until it commits.
Capturing(c) ==
  LET t == c.body.trip
  IN  /\ t \in DOMAIN trips /\ trips[t].state = "COMPLETED"
      /\ c.plan \in Nat /\ c.plan >= 1 /\ AttemptsOf(t, c.plan - 1)
      /\ \A a \in attempts[t] : a.status = "FAILED"
      /\ c.body.outcome \in Outcomes

CapturesHold == \A r \in Calls : Running(r, "CAPTURE") => Capturing(call[r])

\* Quotes have positive fares, by rate cards there were, and Trips are bounded.
RowsHold ==
  /\ \A q \in DOMAIN quotes : quotes[q].rules \in 1..card /\ quotes[q].fare > 0
  /\ Len(trips) <= MaxTrips

LedgerInv ==
  /\ CommandsHold /\ JoinersHold /\ AttemptsHold /\ CapturesHold /\ RowsHold
  /\ DOMAIN receipt = Commands /\ OneRowPerCommand

-------------------------------------------------------------------------------
(* Requests keep their commands *)

LEMMA CommandsAreTheSame ==
  ASSUME NEW c, NEW d
  PROVE  /\ CommandOf(c) \in Commands <=> c.op \in Operations /\ c.who \in Callers /\ c.key \in Keys
         /\ CommandOf(c) = CommandOf(d) <=> c.op = d.op /\ c.who = d.who /\ c.key = d.key
  BY DEF CommandOf, Commands

Moved(d, c, at) ==
  IsRequest(d) /\ SameCommand(d, c) /\ d.at = at /\ d.locks = c.locks /\ d.plan = c.plan

LEMMA MovingKeeps ==
  ASSUME NEW c, IsRequest(c), NEW at, NEW d, d = [c EXCEPT !.at = at]
  PROVE  Moved(d, c, at)
<1>1. PICK V : c \in RequestsOver(V)
  BY DEF IsRequest
<1> PICK W : W = V \cup {at}
  OBVIOUS
<1>2. c \in RequestsOver(W) /\ at \in W
  BY <1>1 DEF RequestsOver
<1>3. /\ d \in RequestsOver(W) /\ d.at = at /\ d.op = c.op /\ d.who = c.who /\ d.key = c.key
      /\ d.body = c.body /\ d.locks = c.locks /\ d.plan = c.plan
  BY <1>2 DEF RequestsOver
<1> QED
  BY <1>3 DEF IsRequest, Moved, SameCommand

Begun(d, c, locks, plan) ==
  IsRequest(d) /\ SameCommand(d, c) /\ d.at = "open" /\ d.locks = locks /\ d.plan = plan

LEMMA BeginningKeeps ==
  ASSUME NEW c, IsRequest(c), NEW locks, NEW plan, NEW d,
         \/ d = [c EXCEPT !.at = "open", !.locks = locks, !.plan = plan]
         \/ d = [c EXCEPT !.at = "open", !.locks = locks] /\ plan = c.plan
  PROVE  Begun(d, c, locks, plan)
<1>1. PICK V : c \in RequestsOver(V)
  BY DEF IsRequest
<1> PICK W : W = V \cup {"open", locks, plan}
  OBVIOUS
<1>2. c \in RequestsOver(W) /\ "open" \in W /\ locks \in W /\ plan \in W
  BY <1>1 DEF RequestsOver
<1>3. CASE d = [c EXCEPT !.at = "open", !.locks = locks, !.plan = plan]
  <2>1. /\ d \in RequestsOver(W) /\ d.at = "open" /\ d.op = c.op /\ d.who = c.who
        /\ d.key = c.key /\ d.body = c.body /\ d.locks = locks /\ d.plan = plan
    BY <1>2, <1>3 DEF RequestsOver
  <2> QED
    BY <2>1 DEF IsRequest, Begun, SameCommand
<1>4. CASE d = [c EXCEPT !.at = "open", !.locks = locks] /\ plan = c.plan
  <2>1. /\ d \in RequestsOver(W) /\ d.at = "open" /\ d.op = c.op /\ d.who = c.who
        /\ d.key = c.key /\ d.body = c.body /\ d.locks = locks /\ d.plan = plan
    BY <1>2, <1>4 DEF RequestsOver
  <2> QED
    BY <2>1 DEF IsRequest, Begun, SameCommand
<1> QED
  BY <1>3, <1>4

Ended(d, c, answer) ==
  IsRequest(d) /\ SameCommand(d, c) /\ d.at = "done" /\ d.locks = {} /\ d.answer = answer

LEMMA EndingKeeps ==
  ASSUME NEW c, IsRequest(c), NEW answer, NEW d,
         \/ d = [c EXCEPT !.at = "done", !.locks = {}, !.plan = 0, !.answer = answer]
         \/ d = [c EXCEPT !.at = "done", !.answer = answer] /\ c.locks = {}
  PROVE  Ended(d, c, answer)
<1>1. PICK V : c \in RequestsOver(V)
  BY DEF IsRequest
<1> PICK W : W = V \cup {"done", {}, 0, answer}
  OBVIOUS
<1>2. c \in RequestsOver(W) /\ "done" \in W /\ {} \in W /\ 0 \in W /\ answer \in W
  BY <1>1 DEF RequestsOver
<1>3. CASE d = [c EXCEPT !.at = "done", !.locks = {}, !.plan = 0, !.answer = answer]
  <2>1. /\ d \in RequestsOver(W) /\ d.at = "done" /\ d.op = c.op /\ d.who = c.who
        /\ d.key = c.key /\ d.body = c.body /\ d.locks = {} /\ d.answer = answer
    BY <1>2, <1>3 DEF RequestsOver
  <2> QED
    BY <2>1 DEF IsRequest, Ended, SameCommand
<1>4. CASE d = [c EXCEPT !.at = "done", !.answer = answer] /\ c.locks = {}
  <2>1. /\ d \in RequestsOver(W) /\ d.at = "done" /\ d.op = c.op /\ d.who = c.who
        /\ d.key = c.key /\ d.body = c.body /\ d.locks = {} /\ d.answer = answer
    BY <1>2, <1>4 DEF RequestsOver
  <2> QED
    BY <2>1 DEF IsRequest, Ended, SameCommand
<1> QED
  BY <1>3, <1>4

\* Requests of the same command need a lock in common.
LEMMA SameCommandSameLock ==
  ASSUME NEW c, NEW d, CommandOf(c) \in Commands, CommandOf(d) = CommandOf(c)
  PROVE  LocksOf(c) \cap LocksOf(d) # {}
<1>1. c.op \in {"QUOTE", "TRIP", "CAPTURE"} /\ d.op = c.op /\ d.who = c.who /\ d.key = c.key
  BY CommandsAreTheSame, PurchaseAssumption
<1>2. CASE c.op = "QUOTE"
  BY <1>1, <1>2 DEF LocksOf, QuoteLocks
<1>3. CASE c.op = "TRIP"
  BY <1>1, <1>3 DEF LocksOf, TripLocks
<1>4. CASE c.op = "CAPTURE"
  BY <1>1, <1>4 DEF LocksOf, CaptureLocks
<1> QED
  BY <1>1, <1>2, <1>3, <1>4

LEMMA TransactionSawNoReceipt ==
  ASSUME CallsHold, CommandsHold, NEW r \in Calls, Open(r)
  PROVE  /\ IsRequest(call[r]) /\ CommandOf(call[r]) \in Commands
         /\ receipt[CommandOf(call[r])] = NoReceipt /\ call[r].locks = LocksOf(call[r])
  BY IdleIsNoRequest DEF CallsHold, CommandsHold, CallHolds, Open, InTransaction

\* Two open transactions are never of one command.
LEMMA OneTransactionPerCommand ==
  ASSUME PurchaseInv, CommandsHold, NEW r \in Calls, NEW x \in Calls, Open(r), Open(x),
         CommandOf(call[x]) = CommandOf(call[r])
  PROVE  x = r
<1>1. /\ CommandOf(call[r]) \in Commands /\ call[r].locks = LocksOf(call[r])
      /\ call[x].locks = LocksOf(call[x])
  BY TransactionSawNoReceipt DEF PurchaseInv
<1>2. LocksOf(call[r]) \cap LocksOf(call[x]) # {}
  BY <1>1, SameCommandSameLock
<1> QED
  BY <1>1, <1>2 DEF PurchaseInv, LocksApart

-------------------------------------------------------------------------------
(* What becomes of the requests in a step *)

SameTransaction(d, c) ==
  InTransaction(d) /\ InTransaction(c) /\ SameCommand(d, c) /\ d.locks = c.locks /\ d.plan = c.plan

NoCaptureBegins ==
  \A x \in Calls :
    InTransaction(call'[x]) /\ call'[x].op = "CAPTURE" => SameTransaction(call'[x], call[x])

CallsStay == CommandsHold' /\ JoinersHold' /\ NoCaptureBegins

\* One request changes, and no receipt.
LEMMA OneCallChanges ==
  ASSUME CallsHold, CommandsHold, JoinersHold, NEW r \in Calls, NEW d,
         call' = [call EXCEPT ![r] = d], UNCHANGED receipt,
         CallHolds(d, receipt[CommandOf(d)]),
         \/ ~Promises(call[r]) /\ call[r].at # "joined" /\ ~Promises(d) /\ d.at # "joined"
         \/ Promises(call[r]) /\ Promises(d) /\ SameCommand(d, call[r])
  PROVE  CommandsHold' /\ JoinersHold'
<1>1. call'[r] = d /\ \A x \in Calls : x # r => call'[x] = call[x]
  BY DEF CallsHold
<1>2. CommandsHold'
  BY <1>1 DEF CommandsHold
<1>3. CASE ~Promises(call[r]) /\ call[r].at # "joined" /\ ~Promises(d) /\ d.at # "joined"
  BY <1>1, <1>2, <1>3 DEF JoinersHold
<1>4. CASE Promises(call[r]) /\ Promises(d) /\ SameCommand(d, call[r])
  <2>1. \A x \in Calls : CommandOf(call'[x]) = CommandOf(call[x]) /\ call'[x].body = call[x].body
    BY <1>1, <1>4 DEF SameCommand, CommandOf
  <2>2. \A x \in Calls : /\ Promises(call'[x]) <=> Promises(call[x])
                         /\ call'[x].at = "joined" <=> call[x].at = "joined"
    BY <1>1, <1>4 DEF Promises
  <2> QED
    BY <1>2, <2>1, <2>2 DEF JoinersHold
<1> QED
  BY <1>3, <1>4

LEMMA NoneBegins ==
  ASSUME CallsHold, NEW r \in Calls, NEW d, call' = [call EXCEPT ![r] = d],
         ~InTransaction(d) \/ d.op # "CAPTURE"
  PROVE  NoCaptureBegins
  BY DEF CallsHold, NoCaptureBegins, SameTransaction, SameCommand

LEMMA RequestIsNew ==
  ASSUME NEW op \in Operations, NEW c \in Callers, NEW k \in Keys, NEW body, NEW at,
         NEW d, d = Request(op, c, k, body, at)
  PROVE  /\ IsRequest(d) /\ d.at = at /\ d.op = op /\ d.who = c /\ d.key = k /\ d.body = body
         /\ d.locks = {} /\ CommandOf(d) = <<op, c, k>> /\ CommandOf(d) \in Commands
<1>1. IsRequest(d)
  BY RequestIsOne
<1>2. d.at = at /\ d.op = op /\ d.who = c /\ d.key = k /\ d.body = body /\ d.locks = {}
  BY DEF Request
<1> QED
  BY <1>1, <1>2 DEF CommandOf, Commands

LEMMA VacantIsNoPromise ==
  ASSUME CallsHold, NEW r \in Calls, Vacant(r)
  PROVE  ~Promises(call[r]) /\ call[r].at # "joined" /\ ~InTransaction(call[r])
  BY DEF Vacant, Promises, InTransaction

LEMMA AskQuoteStays ==
  ASSUME PurchaseInv, CommandsHold, JoinersHold, NEW r \in Calls, NEW c \in Callers,
         NEW k \in Keys, NEW journey \in Journeys, AskQuote(r, c, k, journey)
  PROVE  CallsStay
<1> PICK first : first = InFlight(c, k)
  OBVIOUS
<1> PICK at : at = IF first = {} THEN "looking" ELSE "joined"
  OBVIOUS
<1> PICK d : d = Request("QUOTE", c, k, journey, at)
  OBVIOUS
<1>1. /\ Vacant(r) /\ call' = [call EXCEPT ![r] = d] /\ UNCHANGED receipt /\ CallsHold
      /\ \A x \in first : call[x].body = journey
  BY DEF AskQuote, PurchaseInv
<1>2. /\ d.at = at /\ d.op = "QUOTE" /\ d.who = c /\ d.key = k /\ d.body = journey /\ d.locks = {}
      /\ CommandOf(d) = <<"QUOTE", c, k>> /\ CommandOf(d) \in Commands
  BY RequestIsNew, PurchaseAssumption
<1>3. ~Promises(call[r]) /\ call[r].at # "joined"
  BY <1>1, VacantIsNoPromise
<1>4. \A x : x \in first <=> x \in Calls /\ Promises(call[x]) /\ CommandOf(call[x]) = CommandOf(d)
  BY <1>2 DEF InFlight, Promises, CommandOf
<1>5. call'[r] = d /\ \A x \in Calls : x # r => call'[x] = call[x]
  BY <1>1 DEF CallsHold
<1>6. at \in {"looking", "joined"}
  OBVIOUS
<1>7. CommandsHold'
  BY <1>1, <1>2, <1>5, <1>6 DEF CommandsHold, CallHolds, InTransaction
<1>8. NoCaptureBegins
  BY <1>1, <1>2, <1>6, NoneBegins DEF InTransaction
<1>9. JoinersHold'
  <2>1. CASE first = {}
    <3>1. Promises(d) /\ d.at # "joined"
      BY <1>2, <2>1 DEF Promises
    <3>2. \A x \in Calls : Promises(call[x]) => CommandOf(call[x]) # CommandOf(d)
      BY <1>4, <2>1
    <3> QED
      BY <1>3, <1>5, <3>1, <3>2 DEF JoinersHold
  <2>2. CASE first # {}
    <3>1. ~Promises(d) /\ d.at = "joined"
      BY <1>2, <2>2 DEF Promises
    <3>2. PICK y \in Calls : /\ Promises(call[y]) /\ CommandOf(call[y]) = CommandOf(d)
                             /\ call[y].body = d.body
      BY <1>1, <1>2, <1>4, <2>2
    <3>3. y # r
      BY <1>3, <3>2
    <3> QED
      BY <1>3, <1>5, <3>1, <3>2, <3>3 DEF JoinersHold
  <2> QED
    BY <2>1, <2>2
<1> QED
  BY <1>7, <1>8, <1>9 DEF CallsStay

LEMMA QueuesStays ==
  ASSUME PurchaseInv, CommandsHold, JoinersHold, NEW r \in Calls, call[r].at = "looking",
         call' = [call EXCEPT ![r].at = "queued"], UNCHANGED receipt
  PROVE  CallsStay
<1> PICK c : c = call[r]
  OBVIOUS
<1> PICK d : d = [c EXCEPT !.at = "queued"]
  OBVIOUS
<1>1. call' = [call EXCEPT ![r] = d] /\ CallsHold
  BY DEF PurchaseInv
<1>2. IsRequest(c) /\ c.at = "looking" /\ c.op = "QUOTE" /\ CallHolds(c, receipt[CommandOf(c)])
  BY <1>1, IdleIsNoRequest DEF CallsHold, CommandsHold, Waits, Asks
<1>3. Moved(d, c, "queued")
  BY <1>2, MovingKeeps
<1>4. CommandOf(d) = CommandOf(c) /\ SameCommand(d, c) /\ d.at = "queued" /\ d.op = "QUOTE"
      /\ d.locks = c.locks
  BY <1>2, <1>3 DEF Moved, SameCommand, CommandOf
<1>5. CallHolds(d, receipt[CommandOf(d)])
  BY <1>2, <1>4, IdleIsNoRequest DEF CallHolds, InTransaction
<1>6. Promises(c) /\ Promises(d) /\ ~InTransaction(d)
  BY <1>2, <1>4 DEF Promises, InTransaction
<1>7. CommandsHold' /\ JoinersHold'
  BY <1>1, <1>4, <1>5, <1>6, OneCallChanges
<1>8. NoCaptureBegins
  BY <1>1, <1>6, NoneBegins
<1> QED
  BY <1>7, <1>8 DEF CallsStay

\* The answer of r, to r itself and to those who joined it.
AnswersOne(x, r, answer) ==
  IF x \notin Followers(r) \cup {r} THEN call'[x] = call[x]
  ELSE IF answer = Failed \/ call[x].at = "orphan" THEN call'[x] = Idle
  ELSE Ended(call'[x], call[x], answer)

LEMMA AnsweringAnswersAll ==
  ASSUME CallsHold, NEW r \in Calls, call[r].at # "idle", NEW answer,
         call' = Answered(r, answer)
  PROVE  DOMAIN call' = Calls /\ \A x \in Calls : AnswersOne(x, r, answer)
<1>1. /\ DOMAIN call' = Calls
      /\ \A x \in Calls : call'[x] =
           IF x \notin Followers(r) \cup {r} THEN call[x]
           ELSE IF answer = Failed \/ call[x].at = "orphan" THEN Idle
           ELSE [call[x] EXCEPT !.at = "done", !.locks = {}, !.plan = 0, !.answer = answer]
  BY DEF Answered
<1>2. \A x \in Followers(r) \cup {r} : x \in Calls /\ IsRequest(call[x])
  BY IdleIsNoRequest DEF CallsHold, Followers
<1>3. ASSUME NEW x \in Followers(r) \cup {r}, ~(answer = Failed \/ call[x].at = "orphan")
      PROVE  Ended(call'[x], call[x], answer)
  <2> PICK c : c = call[x]
    OBVIOUS
  <2> PICK d : d = call'[x]
    OBVIOUS
  <2>1. IsRequest(c)
    BY <1>2
  <2>2. d = [c EXCEPT !.at = "done", !.locks = {}, !.plan = 0, !.answer = answer]
    BY <1>1, <1>2, <1>3
  <2> QED
    BY <2>1, <2>2, EndingKeeps
<1> QED
  BY <1>1, <1>3 DEF AnswersOne

\* Who follows r joined its promise, and sent its body.
LEMMA FollowersSentTheSame ==
  ASSUME CallsHold, CommandsHold, JoinersHold, NEW r \in Calls,
         call[r].at \in {"looking", "queued", "open", "orphan"},
         NEW x \in Followers(r)
  PROVE  /\ x \in Calls /\ x # r /\ Promises(call[r]) /\ CommandOf(call[x]) = CommandOf(call[r])
         /\ call[x].body = call[r].body
<1>1. /\ x \in Calls /\ call[x].at = "joined" /\ call[r].at # "orphan"
      /\ CommandOf(call[x]) = CommandOf(call[r])
  BY DEF Followers
<1>2. call[x].op = "QUOTE"
  BY <1>1, IdleIsNoRequest DEF CallsHold, Waits, Asks
<1>3. Promises(call[r])
  BY <1>1, <1>2, CommandsAreTheSame DEF Promises
<1>4. PICK y \in Calls : /\ Promises(call[y]) /\ CommandOf(call[y]) = CommandOf(call[x])
                         /\ call[y].body = call[x].body
  BY <1>1 DEF JoinersHold
<1>5. y = r
  BY <1>1, <1>3, <1>4 DEF JoinersHold
<1> QED
  BY <1>1, <1>3, <1>4, <1>5

\* The answer is an error, or what the receipt says in the end.
Receipts(r, answer) ==
  LET m == CommandOf(call[r])
  IN  /\ \A n \in Commands : n # m => receipt'[n] = receipt[n]
      /\ receipt'[m] # receipt[m] => InTransaction(call[r])
      /\ answer # Failed => /\ receipt'[m] # NoReceipt
                            /\ receipt'[m].body = call[r].body /\ receipt'[m].id = answer

LEMMA AnsweringStays ==
  ASSUME PurchaseInv, CommandsHold, JoinersHold, NEW r \in Calls,
         call[r].at \in {"looking", "queued", "open", "orphan"},
         NEW answer, call' = Answered(r, answer), Receipts(r, answer)
  PROVE  CallsStay
<1>1. CallsHold
  BY DEF PurchaseInv
<1>2. \A x \in Calls : AnswersOne(x, r, answer)
  BY <1>1, AnsweringAnswersAll
<1>3. \A x \in Calls : CallHolds(call[x], receipt[CommandOf(call[x])])
  BY DEF CommandsHold
<1>4. call[r] # Idle /\ CommandOf(call[r]) \in Commands
  BY <1>3, IdleIsNoRequest DEF CallHolds
<1>5. ASSUME NEW x \in Calls, x \in Followers(r) \cup {r}
      PROVE  CallHolds(call'[x], receipt'[CommandOf(call'[x])])
  <2>1. CommandOf(call[x]) = CommandOf(call[r]) /\ call[x].body = call[r].body
    BY <1>1, <1>5, FollowersSentTheSame
  <2>2. CASE call'[x] = Idle
    BY <2>2 DEF CallHolds
  <2>3. CASE Ended(call'[x], call[x], answer) /\ answer # Failed
    <3>1. /\ CommandOf(call'[x]) = CommandOf(call[r]) /\ call'[x].body = call[r].body
          /\ call'[x].answer = answer /\ call'[x].locks = {} /\ call'[x].at = "done"
      BY <2>1, <2>3 DEF Ended, SameCommand, CommandOf
    <3> QED
      BY <1>4, <2>3, <3>1 DEF CallHolds, Receipts, InTransaction
  <2> QED
    BY <1>2, <1>5, <2>2, <2>3 DEF AnswersOne
<1>6. ASSUME NEW x \in Calls, x \notin Followers(r) \cup {r}
      PROVE  CallHolds(call'[x], receipt'[CommandOf(call'[x])])
  <2> PICK m : m = CommandOf(call[x])
    OBVIOUS
  <2>1. call'[x] = call[x] /\ CallHolds(call[x], receipt[m])
    BY <1>2, <1>3, <1>6 DEF AnswersOne
  <2>2. CASE m # CommandOf(call[r]) \/ receipt'[m] = receipt[m] \/ call[x] = Idle
    BY <2>1, <2>2 DEF CallHolds, Receipts
  <2>3. CASE m = CommandOf(call[r]) /\ receipt'[m] # receipt[m] /\ call[x] # Idle
    <3>1. Open(r) /\ receipt[m] = NoReceipt
      BY <1>1, <2>3, TransactionSawNoReceipt DEF Receipts, InTransaction, Open
    <3>2. call[x].at # "done"
      BY <2>1, <2>3, <3>1 DEF CallHolds
    <3>3. ~InTransaction(call[x])
      BY <1>6, <2>3, <3>1, OneTransactionPerCommand DEF InTransaction, Open
    <3> QED
      BY <2>1, <2>3, <3>2, <3>3 DEF CallHolds
  <2> QED
    BY <2>2, <2>3
<1>7. CommandsHold'
  BY <1>5, <1>6 DEF CommandsHold
<1>8. \A x \in Calls : \/ call'[x] = call[x] /\ x \notin Followers(r) \cup {r}
                       \/ ~Promises(call'[x]) /\ call'[x].at # "joined" /\ ~InTransaction(call'[x])
                            /\ x \in Followers(r) \cup {r}
  BY <1>2, IdleIsNoRequest DEF AnswersOne, Ended, Promises, InTransaction
<1>9. NoCaptureBegins
  BY <1>8 DEF NoCaptureBegins, SameTransaction, SameCommand
<1>10. JoinersHold'
  <2>1. \A x, y \in Calls :
          (Promises(call'[x]) /\ Promises(call'[y]) /\ CommandOf(call'[x]) = CommandOf(call'[y]))
            => x = y
    BY <1>8 DEF JoinersHold
  <2>2. ASSUME NEW x \in Calls, call'[x].at = "joined"
        PROVE  \E y \in Calls : /\ Promises(call'[y]) /\ CommandOf(call'[y]) = CommandOf(call'[x])
                                /\ call'[y].body = call'[x].body
    <3>1. call'[x] = call[x] /\ x \notin Followers(r) \cup {r}
      BY <1>8, <2>2
    <3>2. PICK y \in Calls : /\ Promises(call[y]) /\ CommandOf(call[y]) = CommandOf(call[x])
                             /\ call[y].body = call[x].body
      BY <2>2, <3>1 DEF JoinersHold
    <3>3. y \notin Followers(r)
      BY <3>2 DEF Followers, Promises
    <3>4. y # r
      BY <2>2, <3>1, <3>2 DEF Followers, Promises
    <3>5. call'[y] = call[y]
      BY <1>8, <3>3, <3>4
    <3> QED
      BY <3>1, <3>2, <3>5
  <2> QED
    BY <2>1, <2>2 DEF JoinersHold
<1> QED
  BY <1>7, <1>9, <1>10 DEF CallsStay

LEMMA RepliesStay ==
  ASSUME PurchaseInv, CommandsHold, JoinersHold, NEW r \in Calls,
         call[r].at \in {"looking", "queued", "open", "orphan"}, UNCHANGED receipt,
         \/ call' = Answered(r, Failed)
         \/ call' = Answered(r, Replay(call[r])) /\ receipt[CommandOf(call[r])] # NoReceipt
  PROVE  CallsStay
<1>1. Receipts(r, Failed)
  BY DEF Receipts
<1>2. receipt[CommandOf(call[r])] # NoReceipt => Receipts(r, Replay(call[r]))
  BY DEF Receipts, Replay
<1> QED
  BY <1>1, <1>2, AnsweringStays

LEMMA EstimateRouteStays ==
  ASSUME PurchaseInv, CommandsHold, JoinersHold, NEW r \in Calls, EstimateRoute(r)
  PROVE  CallsStay
<1>1. call[r].at = "looking" /\ UNCHANGED receipt
  BY DEF EstimateRoute
<1>2. \/ call' = Answered(r, Failed)
      \/ call' = Answered(r, Replay(call[r])) /\ receipt[CommandOf(call[r])] # NoReceipt
      \/ call' = [call EXCEPT ![r].at = "queued"]
  BY DEF EstimateRoute
<1> QED
  BY <1>1, <1>2, RepliesStay, QueuesStays

LEMMA OpenQuoteStays ==
  ASSUME PurchaseInv, CommandsHold, JoinersHold, NEW r \in Calls, OpenQuote(r)
  PROVE  CallsStay
<1> PICK c : c = call[r]
  OBVIOUS
<1> PICK locks : locks = QuoteLocks(c.who, c.key)
  OBVIOUS
<1> PICK d : d = [c EXCEPT !.at = "open", !.locks = locks]
  OBVIOUS
<1>1. /\ c.at = "queued" /\ UNCHANGED receipt /\ CallsHold
      /\ \/ call' = Answered(r, Replay(call[r])) /\ receipt[CommandOf(call[r])] # NoReceipt
         \/ call' = [call EXCEPT ![r].at = "open", ![r].locks = locks]
              /\ receipt[CommandOf(c)] = NoReceipt
  BY DEF OpenQuote, PurchaseInv
<1>2. CASE call' = Answered(r, Replay(call[r])) /\ receipt[CommandOf(call[r])] # NoReceipt
  BY <1>1, <1>2, RepliesStay
<1>3. CASE call' = [call EXCEPT ![r].at = "open", ![r].locks = locks]
             /\ receipt[CommandOf(c)] = NoReceipt
  <2>1. call' = [call EXCEPT ![r] = d]
    BY <1>3
  <2>2. IsRequest(c) /\ c.op = "QUOTE" /\ CallHolds(c, receipt[CommandOf(c)])
    BY <1>1, IdleIsNoRequest DEF CallsHold, CommandsHold, Waits, Asks
  <2>3. Begun(d, c, locks, c.plan)
    BY <2>2, BeginningKeeps
  <2>4. CommandOf(d) = CommandOf(c) /\ SameCommand(d, c) /\ d.at = "open" /\ d.op = "QUOTE"
        /\ d.locks = LocksOf(d)
    BY <2>2, <2>3 DEF Begun, SameCommand, CommandOf, LocksOf
  <2>5. CommandOf(c) \in Commands
    BY <1>1, <2>2, IdleIsNoRequest DEF CallHolds
  <2>6. CallHolds(d, receipt[CommandOf(d)])
    BY <1>3, <2>4, <2>5 DEF CallHolds, InTransaction
  <2>7. Promises(c) /\ Promises(d)
    BY <1>1, <2>2, <2>4 DEF Promises
  <2>8. CommandsHold' /\ JoinersHold'
    BY <1>1, <2>1, <2>4, <2>6, <2>7, OneCallChanges
  <2>9. NoCaptureBegins
    BY <1>1, <2>1, <2>4, NoneBegins
  <2> QED
    BY <2>8, <2>9 DEF CallsStay
<1> QED
  BY <1>1, <1>2, <1>3

\* A Trip or a capture is begun by d, or the caller hears a receipt or an error.
Begins(r, d, locks, verdict, plan) ==
  /\ verdict = "NONE" /\ call'[r].op = d.op /\ call'[r].body = d.body
  /\ call'[r].who = d.who /\ call'[r].plan = plan
  /\ \A x \in Calls : x # r => call'[x] = call[x]

CallsMove == CommandsHold' /\ JoinersHold'

LEMMA TakenStays ==
  ASSUME PurchaseInv, CommandsHold, JoinersHold, NEW r \in Calls, NEW c \in Callers,
         NEW k \in Keys, NEW op \in {"TRIP", "CAPTURE"}, NEW body,
         NEW d, d = Request(op, c, k, body, "queued"),
         NEW locks, locks = LocksOf(d), NEW verdict, NEW plan,
         Taken(r, d, locks, verdict, plan)
  PROVE  /\ CallsMove
         /\ NoCaptureBegins \/ Begins(r, d, locks, verdict, plan)
<1> PICK known : known = receipt[CommandOf(d)]
  OBVIOUS
<1> PICK e : e = IF known # NoReceipt THEN Replayed(d)
                 ELSE IF verdict # "NONE" THEN Idle
                 ELSE [d EXCEPT !.at = "open", !.locks = locks, !.plan = plan]
  OBVIOUS
<1>1. call' = [call EXCEPT ![r] = e] /\ UNCHANGED receipt /\ Vacant(r) /\ CallsHold
  BY DEF Taken, PurchaseInv
<1>2. /\ IsRequest(d) /\ d.op = op /\ d.who = c /\ d.key = k /\ d.body = body /\ d.locks = {}
      /\ CommandOf(d) \in Commands
  BY RequestIsNew, PurchaseAssumption
<1>3. ~Promises(call[r]) /\ call[r].at # "joined"
  BY <1>1, VacantIsNoPromise
<1>4. call'[r] = e /\ \A x \in Calls : x # r => call'[x] = call[x]
  BY <1>1 DEF CallsHold
<1>5. CASE e = Idle
  <2>1. CallHolds(e, receipt[CommandOf(e)]) /\ ~Promises(e) /\ e.at # "joined" /\ ~InTransaction(e)
    BY <1>5, IdleIsNoRequest DEF CallHolds, Promises, InTransaction
  <2> QED
    BY <1>1, <1>3, <2>1, OneCallChanges, NoneBegins DEF CallsMove
<1>6. CASE known # NoReceipt /\ Replay(d) # Failed
  <2>1. e = [d EXCEPT !.at = "done", !.answer = Replay(d)]
    BY <1>6 DEF Replayed
  <2>2. Ended(e, d, Replay(d))
    BY <1>2, <2>1, EndingKeeps
  <2>3. known.body = d.body /\ Replay(d) = known.id
    BY <1>6 DEF Replay
  <2>4. CommandOf(e) = CommandOf(d) /\ e.at = "done" /\ e.locks = {} /\ e.body = d.body
        /\ e.answer = Replay(d)
    BY <2>2 DEF Ended, SameCommand, CommandOf
  <2>5. CallHolds(e, receipt[CommandOf(e)])
    BY <1>2, <1>6, <2>3, <2>4 DEF CallHolds, InTransaction
  <2>6. ~Promises(e) /\ e.at # "joined" /\ ~InTransaction(e)
    BY <2>4 DEF Promises, InTransaction
  <2> QED
    BY <1>1, <1>3, <2>5, <2>6, OneCallChanges, NoneBegins DEF CallsMove
<1>7. CASE known = NoReceipt /\ verdict = "NONE"
  <2>1. e = [d EXCEPT !.at = "open", !.locks = locks, !.plan = plan]
    BY <1>7
  <2>2. Begun(e, d, locks, plan)
    BY <1>2, <2>1, BeginningKeeps
  <2>3. CommandOf(e) = CommandOf(d) /\ e.at = "open" /\ e.locks = LocksOf(e) /\ e.op = op
        /\ e.body = d.body /\ e.who = d.who /\ e.plan = plan
    BY <1>2, <2>2 DEF Begun, SameCommand, CommandOf, LocksOf
  <2>4. CallHolds(e, receipt[CommandOf(e)])
    BY <1>2, <1>7, <2>3 DEF CallHolds, InTransaction
  <2>5. ~Promises(e) /\ e.at # "joined"
    BY <2>3 DEF Promises
  <2>6. CallsMove
    BY <1>1, <1>3, <2>4, <2>5, OneCallChanges DEF CallsMove
  <2> QED
    BY <1>2, <1>4, <1>7, <2>3, <2>6 DEF Begins
<1>8. CASE ~(known # NoReceipt) /\ verdict # "NONE"
  BY <1>5, <1>8
<1>9. CASE known # NoReceipt /\ Replay(d) = Failed
  BY <1>5, <1>9 DEF Replayed
<1> QED
  BY <1>6, <1>7, <1>8, <1>9

LEMMA OpenTripStays ==
  ASSUME PurchaseInv, CommandsHold, JoinersHold, NEW r \in Calls, NEW c \in Callers,
         NEW k \in Keys, NEW q, OpenTrip(r, c, k, q)
  PROVE  CallsStay
<1> PICK d : d = Request("TRIP", c, k, q, "queued")
  OBVIOUS
<1> PICK locks : locks = TripLocks(c, q)
  OBVIOUS
<1> PICK verdict : verdict = TripVerdict(c, q)
  OBVIOUS
<1>1. Taken(r, d, locks, verdict, 0)
  BY DEF OpenTrip
<1>2. d.op = "TRIP" /\ d.who = c /\ d.body = q
  BY RequestIsOne
<1>3. locks = LocksOf(d)
  BY <1>2 DEF LocksOf
<1>4. CallsMove /\ (NoCaptureBegins \/ Begins(r, d, locks, verdict, 0))
  BY <1>1, <1>3, TakenStays
<1>5. Begins(r, d, locks, verdict, 0) => NoCaptureBegins
  BY <1>2 DEF Begins, NoCaptureBegins, SameTransaction, SameCommand
<1> QED
  BY <1>4, <1>5 DEF CallsStay, CallsMove

LEMMA CommittedStays ==
  ASSUME PurchaseInv, CommandsHold, JoinersHold, DOMAIN receipt = Commands,
         NEW r \in Calls, Open(r), NEW id, id # Failed, Committed(r, id)
  PROVE  CallsStay
<1>1. call[r].at \in {"open", "orphan"} /\ call' = Answered(r, id)
  BY DEF Open, Committed
<1>2. CommandOf(call[r]) \in Commands
  BY TransactionSawNoReceipt DEF PurchaseInv
<1>3. receipt'[CommandOf(call[r])] = [body |-> call[r].body, id |-> id]
  BY <1>2 DEF Committed
<1>4. [body |-> call[r].body, id |-> id] # NoReceipt
  BY DEF NoReceipt
<1>5. \A n \in Commands : n # CommandOf(call[r]) => receipt'[n] = receipt[n]
  BY <1>2 DEF Committed
<1>6. Receipts(r, id)
  BY <1>1, <1>3, <1>4, <1>5 DEF Receipts, InTransaction
<1> QED
  BY <1>1, <1>6, AnsweringStays

LEMMA FailsStays ==
  ASSUME PurchaseInv, CommandsHold, JoinersHold, NEW r \in Calls, Fails(r)
  PROVE  CallsStay
  BY RepliesStay DEF Fails

LEMMA StopStays ==
  ASSUME PurchaseInv, CommandsHold, JoinersHold, NEW sent \in SUBSET Calls, ProcessStops(sent)
  PROVE  CallsStay
<1>1. /\ call' = [r \in Calls |-> IF r \in sent THEN [call[r] EXCEPT !.at = "orphan"] ELSE Idle]
      /\ sent \subseteq {r \in Calls : Open(r)} /\ UNCHANGED receipt /\ CallsHold
  BY DEF ProcessStops, PurchaseInv
<1>2. ASSUME NEW x \in sent
      PROVE  /\ call'[x].at = "orphan" /\ SameTransaction(call'[x], call[x])
             /\ CallHolds(call'[x], receipt[CommandOf(call'[x])])
  <2> PICK c : c = call[x]
    OBVIOUS
  <2> PICK d : d = call'[x]
    OBVIOUS
  <2>1. Open(x) /\ x \in Calls
    BY <1>1
  <2>2. IsRequest(c) /\ CommandOf(c) \in Commands /\ receipt[CommandOf(c)] = NoReceipt
        /\ c.locks = LocksOf(c)
    BY <1>1, <2>1, TransactionSawNoReceipt
  <2>3. d = [c EXCEPT !.at = "orphan"]
    BY <1>1, <2>1
  <2>4. Moved(d, c, "orphan")
    BY <2>2, <2>3, MovingKeeps
  <2>5. d.at = "orphan" /\ SameTransaction(d, c)
    BY <2>1, <2>4 DEF Moved, SameTransaction, InTransaction, Open
  <2>6. CommandOf(d) = CommandOf(c) /\ LocksOf(d) = LocksOf(c) /\ d.locks = c.locks
    BY <2>5 DEF SameTransaction, SameCommand, CommandOf, LocksOf
  <2>7. CallHolds(d, receipt[CommandOf(d)])
    BY <2>2, <2>5, <2>6 DEF CallHolds, InTransaction
  <2> QED
    BY <2>5, <2>7
<1>3. \A x \in Calls : x \notin sent => call'[x] = Idle
  BY <1>1
<1>4. CommandsHold'
  BY <1>1, <1>2, <1>3 DEF CommandsHold, CallHolds
<1>5. \A x \in Calls : ~Promises(call'[x]) /\ call'[x].at # "joined"
  BY <1>2, <1>3, IdleIsNoRequest DEF Promises
<1>6. JoinersHold'
  BY <1>5 DEF JoinersHold
<1>7. NoCaptureBegins
  BY <1>2, <1>3, IdleIsNoRequest DEF NoCaptureBegins, InTransaction
<1> QED
  BY <1>4, <1>6, <1>7 DEF CallsStay

LEMMA OutsideStays ==
  ASSUME CommandsHold, JoinersHold, UNCHANGED callVars
  PROVE  CallsStay
<1>1. UNCHANGED call /\ UNCHANGED receipt
  BY DEF callVars
<1>2. CommandsHold' /\ JoinersHold'
  BY <1>1 DEF CommandsHold, JoinersHold
<1>3. NoCaptureBegins
  BY <1>1 DEF NoCaptureBegins, SameTransaction, SameCommand
<1> QED
  BY <1>2, <1>3 DEF CallsStay

-------------------------------------------------------------------------------
(* The rows of quotes, Trips and attempts *)

\* A quote costs something: the base fare, at least.
LEMMA QuotesCostSomething ==
  ASSUME NEW c \in 1..2, NEW m \in Nat, NEW s \in Nat
  PROVE  Fare(m, s, NoSurge, RateCards[c]) > 0
<1> PICK rates : rates = RateCards[c]
  OBVIOUS
<1>1. rates \in Cards
  BY RateCardsAreCards
<1>2. /\ rates.base > 0 /\ rates.service = 10000
      /\ rates.minSurge = 10000 /\ rates.maxSurge = 15000
  BY DEF RateCards
<1>3. Subtotal(0, 0, rates) > 0
  <2>1. rates.perKm \in Nat /\ rates.perMinute \in Nat /\ rates.base \in Nat
    BY <1>1 DEF Cards
  <2>2. 0 * rates.perKm = 0 /\ 0 * rates.perMinute = 0
    BY <2>1
  <2>3. CeilRatio(0, MetersPerKm) = 0 /\ CeilRatio(0, SecondsPerMinute) = 0
    BY SMT DEF CeilRatio, MetersPerKm, SecondsPerMinute
  <2> QED
    BY <1>2, <2>1, <2>2, <2>3 DEF Subtotal
<1> PICK n : n = Subtotal(m, s, rates)
  OBVIOUS
<1>4. n \in Nat /\ n > 0
  <2>1. Subtotal(0, 0, rates) \in Nat /\ n \in Nat /\ Subtotal(0, 0, rates) <= n
    BY <1>1, SubtotalGrows
  <2> QED
    BY <1>3, <2>1
<1>5. Clamp(NoSurge, rates.minSurge, rates.maxSurge) = 10000
  BY <1>2 DEF Clamp, NoSurge
<1>6. ASSUME NEW a \in Nat, a > 0
      PROVE  ApplyMultiplier(a, 10000) = a
  BY <1>6, SMT DEF ApplyMultiplier, CeilRatio, BasisPoints
<1>7. Fare(m, s, NoSurge, rates) = ApplyMultiplier(ApplyMultiplier(n, 10000), 10000)
  BY <1>2, <1>5 DEF Fare
<1> QED
  BY <1>4, <1>6, <1>7

LEMMA Lengthened ==
  ASSUME NEW S, NEW seq \in Seq(S), NEW e, NEW s, s = Append(seq, e)
  PROVE  /\ Len(seq) \in Nat /\ DOMAIN seq = 1..Len(seq)
         /\ DOMAIN s = 1..(Len(seq) + 1) /\ Len(s) = Len(seq) + 1
         /\ \A i \in DOMAIN seq : s[i] = seq[i]
         /\ s[Len(seq) + 1] = e
<1> PICK T : T = S \cup {e}
  OBVIOUS
<1>1. Len(seq) \in Nat /\ DOMAIN seq = 1..Len(seq) /\ \A i \in 1..Len(seq) : seq[i] \in S
  BY LenProperties, ElementOfSeq
<1>2. seq \in Seq(T)
  <2>1. seq \in [1..Len(seq) -> S]
    BY LenProperties
  <2>2. seq \in [1..Len(seq) -> T]
    BY <2>1
  <2> QED
    BY <1>1, <2>2, SeqDef
<1>3. /\ s \in Seq(T) /\ Len(s) = Len(seq) + 1
      /\ \A i \in 1..Len(seq) : s[i] = seq[i]
      /\ s[Len(seq) + 1] = e
  BY <1>2, AppendProperties
<1>4. DOMAIN s = 1..(Len(seq) + 1)
  BY <1>3, LenProperties
<1> QED
  BY <1>1, <1>3, <1>4

\* Trips stay, and so do the final fares of those that have one.
FaresStay ==
  \A t \in DOMAIN trips :
    t \in DOMAIN trips' /\ (trips[t].state = "COMPLETED" =>
      trips'[t].state = "COMPLETED" /\ trips'[t].final = trips[t].final)

LEMMA AttemptsStand ==
  ASSUME AttemptsHold, UNCHANGED attempts, FaresStay
  PROVE  AttemptsHold'
<1>1. \A t \in 1..MaxTrips : \E n : AttemptsOf(t, n)'
  BY DEF AttemptsHold, AttemptsOf
<1> QED
  BY <1>1 DEF AttemptsHold, FaresStay

LEMMA CapturesStand ==
  ASSUME CapturesHold, NoCaptureBegins, UNCHANGED attempts, FaresStay
  PROVE  CapturesHold'
<1> SUFFICES ASSUME NEW r \in Calls, Running(r, "CAPTURE")' PROVE Capturing(call[r])'
  BY DEF CapturesHold
<1>1. SameTransaction(call'[r], call[r]) /\ call'[r].op = "CAPTURE"
  BY DEF NoCaptureBegins, Running, Open, InTransaction
<1>2. /\ Running(r, "CAPTURE") /\ call'[r].plan = call[r].plan /\ call'[r].body = call[r].body
  BY <1>1 DEF SameTransaction, SameCommand, InTransaction, Running, Open
<1>3. Capturing(call[r])
  BY <1>2 DEF CapturesHold
<1> QED
  BY <1>2, <1>3 DEF Capturing, AttemptsOf, FaresStay

AttemptsStay == AttemptsHold' /\ CapturesHold' /\ RowsHold'

LEMMA NothingBoughtStays ==
  ASSUME AttemptsHold, CapturesHold, RowsHold, NoCaptureBegins,
         UNCHANGED <<quotes, card, trips, attempts>>
  PROVE  AttemptsStay
<1>1. FaresStay
  BY DEF FaresStay
<1>2. RowsHold'
  BY DEF RowsHold
<1> QED
  BY <1>1, <1>2, AttemptsStand, CapturesStand DEF AttemptsStay

LEMMA CommitQuoteBuys ==
  ASSUME PurchaseInv, AttemptsHold, CapturesHold, RowsHold, NoCaptureBegins,
         NEW r \in Calls, CommitQuote(r), UNCHANGED <<trips, attempts>>
  PROVE  AttemptsStay
<1> PICK journey : journey = call[r].body
  OBVIOUS
<1> PICK row : row = [who |-> call[r].who, estimate |-> Estimate(journey), rules |-> card,
                      fare |-> QuotedFare(journey, RateCards[card]),
                      status |-> "ACTIVE", lapsed |-> FALSE]
  OBVIOUS
<1>1. /\ journey \in Journeys /\ card \in 1..2 /\ quotes \in Seq(QuoteRows)
      /\ quotes' = Append(quotes, row) /\ UNCHANGED card
  BY DEF CommitQuote, Running, Open, PurchaseInv, CallsHold, Asks, QuotesHold
<1>2. Estimate(journey).meters \in Nat /\ Estimate(journey).seconds \in Nat
  BY <1>1, EstimateAssumption DEF Journeys, Estimate
<1>3. row.rules = card /\ row.fare > 0
  BY <1>1, <1>2, QuotesCostSomething DEF QuotedFare
<1>4. /\ Len(quotes) \in Nat /\ DOMAIN quotes = 1..Len(quotes)
      /\ DOMAIN quotes' = 1..(Len(quotes) + 1)
      /\ \A q \in DOMAIN quotes : quotes'[q] = quotes[q]
      /\ quotes'[Len(quotes) + 1] = row
  BY <1>1, Lengthened
<1>5. RowsHold'
  BY <1>1, <1>3, <1>4 DEF RowsHold
<1>6. FaresStay
  BY DEF FaresStay
<1> QED
  BY <1>5, <1>6, AttemptsStand, CapturesStand DEF AttemptsStay

LEMMA QuoteLapsesBuys ==
  ASSUME PurchaseInv, AttemptsHold, CapturesHold, RowsHold, NoCaptureBegins,
         NEW q \in DOMAIN quotes, QuoteLapses(q), UNCHANGED <<trips, attempts>>
  PROVE  AttemptsStay
<1>1. \A p \in DOMAIN quotes : quotes[p] \in QuoteRows
  BY TablesAreNumbered DEF PurchaseInv
<1>2. quotes' = [quotes EXCEPT ![q].lapsed = TRUE] /\ UNCHANGED card
  BY DEF QuoteLapses
<1>3. DOMAIN quotes' = DOMAIN quotes
      /\ \A p \in DOMAIN quotes : quotes'[p].rules = quotes[p].rules
                                  /\ quotes'[p].fare = quotes[p].fare
  BY <1>1, <1>2 DEF QuoteRows
<1>4. RowsHold'
  BY <1>2, <1>3 DEF RowsHold
<1>5. FaresStay
  BY DEF FaresStay
<1> QED
  BY <1>4, <1>5, AttemptsStand, CapturesStand DEF AttemptsStay

LEMMA NewRateCardBuys ==
  ASSUME PurchaseInv, AttemptsHold, CapturesHold, RowsHold, NoCaptureBegins,
         NewRateCard, UNCHANGED <<trips, attempts>>
  PROVE  AttemptsStay
<1>1. UNCHANGED quotes /\ card' = card + 1 /\ card \in 1..2
  BY DEF NewRateCard, PurchaseInv, QuotesHold
<1>2. RowsHold'
  BY <1>1 DEF RowsHold
<1>3. FaresStay
  BY DEF FaresStay
<1> QED
  BY <1>2, <1>3, AttemptsStand, CapturesStand DEF AttemptsStay

LEMMA CommitTripBuys ==
  ASSUME PurchaseInv, AttemptsHold, CapturesHold, RowsHold, NoCaptureBegins,
         NEW r \in Calls, CommitTrip(r), UNCHANGED attempts
  PROVE  AttemptsStay
<1> PICK q : q = call[r].body
  OBVIOUS
<1> PICK row : row = [who |-> call[r].who, quote |-> q, state |-> "ACTIVE",
                      quoted |-> quotes[q].fare, rules |-> quotes[q].rules,
                      final |-> NoFare, metered |-> quotes[q].estimate]
  OBVIOUS
<1>1. /\ trips \in Seq(TripRows) /\ trips' = Append(trips, row) /\ Len(trips) < MaxTrips
      /\ quotes' = [quotes EXCEPT ![q].status = "CONSUMED"] /\ UNCHANGED card
      /\ \A p \in DOMAIN quotes : quotes[p] \in QuoteRows
  BY TablesAreNumbered DEF CommitTrip, PurchaseInv, TripsHold
<1>2. /\ Len(trips) \in Nat /\ DOMAIN trips = 1..Len(trips)
      /\ DOMAIN trips' = 1..(Len(trips) + 1) /\ Len(trips') = Len(trips) + 1
      /\ \A t \in DOMAIN trips : trips'[t] = trips[t]
  BY <1>1, Lengthened
<1>3. FaresStay
  BY <1>2 DEF FaresStay
<1>4. DOMAIN quotes' = DOMAIN quotes
      /\ \A p \in DOMAIN quotes : quotes'[p].rules = quotes[p].rules
                                  /\ quotes'[p].fare = quotes[p].fare
  BY <1>1 DEF QuoteRows
<1>5. RowsHold'
  BY <1>1, <1>2, <1>4, PurchaseAssumption DEF RowsHold
<1> QED
  BY <1>3, <1>5, AttemptsStand, CapturesStand DEF AttemptsStay

\* Only a Trip that has not ended ends.
LEMMA TripEndsBuys ==
  ASSUME PurchaseInv, AttemptsHold, CapturesHold, RowsHold, NoCaptureBegins,
         NEW t \in DOMAIN trips, trips[t].state = "ACTIVE",
         NEW row, trips' = [trips EXCEPT ![t] = row], UNCHANGED <<quotes, card, attempts>>
  PROVE  AttemptsStay
<1>1. trips \in Seq(TripRows) /\ DOMAIN trips = 1..Len(trips) /\ Len(trips) \in Nat
  BY TablesAreNumbered DEF PurchaseInv, TripsHold
<1>2. DOMAIN trips' = DOMAIN trips /\ \A s \in DOMAIN trips : s # t => trips'[s] = trips[s]
  OBVIOUS
<1>3. FaresStay
  BY <1>2 DEF FaresStay
<1>4. Len(trips') = Len(trips)
  <2>1. trips \in [1..Len(trips) -> TripRows \cup {row}]
    BY <1>1, LenProperties
  <2>2. trips' \in [1..Len(trips) -> TripRows \cup {row}]
    BY <1>1, <2>1
  <2>3. trips' \in Seq(TripRows \cup {row})
    BY <1>1, <2>2, SeqDef
  <2>4. DOMAIN trips' = 1..Len(trips') /\ Len(trips') \in Nat
    BY <2>3, LenProperties
  <2> QED
    BY <1>1, <1>2, <2>4
<1>5. RowsHold'
  BY <1>4 DEF RowsHold
<1> QED
  BY <1>3, <1>5, AttemptsStand, CapturesStand DEF AttemptsStay

LEMMA EndTripBuys ==
  ASSUME PurchaseInv, AttemptsHold, CapturesHold, RowsHold, NoCaptureBegins,
         NEW t \in DOMAIN trips, EndTrip(t), UNCHANGED attempts
  PROVE  AttemptsStay
<1> PICK row : row = [trips[t] EXCEPT !.state = "ENDED"]
  OBVIOUS
<1>1. trips[t].state = "ACTIVE" /\ trips' = [trips EXCEPT ![t] = row] /\ UNCHANGED <<quotes, card>>
  BY DEF EndTrip, quoteVars
<1> QED
  BY <1>1, TripEndsBuys

LEMMA CompleteTripBuys ==
  ASSUME PurchaseInv, AttemptsHold, CapturesHold, RowsHold, NoCaptureBegins,
         NEW t \in DOMAIN trips, NEW journey, CompleteTripAt(t, journey), UNCHANGED attempts
  PROVE  AttemptsStay
<1> PICK row : row = [trips[t] EXCEPT !.state = "COMPLETED", !.metered = journey,
                                      !.final = FinalFare(t, journey)]
  OBVIOUS
<1>1. trips[t].state = "ACTIVE" /\ trips' = [trips EXCEPT ![t] = row] /\ UNCHANGED <<quotes, card>>
  BY DEF CompleteTripAt, quoteVars
<1> QED
  BY <1>1, TripEndsBuys

\* The latest attempt is the one with the highest number, and the next one
\* continues.
LEMMA LatestIsLast ==
  ASSUME NEW t, NEW n, AttemptsOf(t, n)
  PROVE  /\ attempts[t] = {} <=> n = 0
         /\ n # 0 => Latest(t) \in attempts[t] /\ Latest(t).number = n
         /\ NextNumber(t) = n + 1
<1>1. n \in Nat /\ \A a \in attempts[t] : a.number \in 1..n
  BY DEF AttemptsOf
<1>2. attempts[t] = {} <=> n = 0
  <2>1. n # 0 => attempts[t] # {}
    <3>1. n # 0 => n \in 1..n
      BY <1>1
    <3> QED
      BY <3>1 DEF AttemptsOf
  <2>2. n = 0 => attempts[t] = {}
    BY <1>1
  <2> QED
    BY <2>1, <2>2
<1>3. n # 0 => Latest(t) \in attempts[t] /\ Latest(t).number = n
  <2> SUFFICES ASSUME n # 0 PROVE Latest(t) \in attempts[t] /\ Latest(t).number = n
    OBVIOUS
  <2>1. n \in 1..n
    BY <1>1
  <2>2. PICK a \in attempts[t] : a.number = n
    BY <2>1 DEF AttemptsOf
  <2>3. \A b \in attempts[t] : b.number <= a.number
    BY <1>1, <2>2
  <2>4. Latest(t) \in attempts[t] /\ \A b \in attempts[t] : b.number <= Latest(t).number
    BY <2>2, <2>3 DEF Latest
  <2>5. Latest(t).number \in 1..n /\ n <= Latest(t).number
    BY <1>1, <2>2, <2>4
  <2> QED
    BY <1>1, <2>4, <2>5
<1> QED
  BY <1>1, <1>2, <1>3 DEF NextNumber

LEMMA OpenCaptureBuys ==
  ASSUME PurchaseInv, LedgerInv, NEW r \in Calls, NEW c \in Callers, NEW k \in Keys,
         NEW t \in 1..MaxTrips, NEW o \in Outcomes, OpenCapture(r, c, k, t, o)
  PROVE  CallsMove /\ AttemptsStay
<1> PICK body : body = [trip |-> t, outcome |-> o]
  OBVIOUS
<1> PICK d : d = Request("CAPTURE", c, k, body, "queued")
  OBVIOUS
<1> PICK locks : locks = CaptureLocks(c, k, t)
  OBVIOUS
<1> PICK verdict : verdict = CaptureVerdict(c, t)
  OBVIOUS
<1> PICK plan : plan = NextNumber(t)
  OBVIOUS
<1>1. Taken(r, d, locks, verdict, plan) /\ UNCHANGED <<quotes, card, trips, attempts>>
  BY DEF OpenCapture, quoteVars
<1>2. d.op = "CAPTURE" /\ d.who = c /\ d.key = k /\ d.body = body /\ body.trip = t
      /\ body.outcome = o
  BY RequestIsOne
<1>3. locks = LocksOf(d)
  BY <1>2 DEF LocksOf
<1>4. CallsMove /\ (NoCaptureBegins \/ Begins(r, d, locks, verdict, plan))
  BY <1>1, <1>3, TakenStays DEF LedgerInv
<1>5. CASE NoCaptureBegins
  BY <1>1, <1>4, <1>5, NothingBoughtStays DEF LedgerInv
<1>6. CASE Begins(r, d, locks, verdict, plan)
  <2>1. PICK n : AttemptsOf(t, n)
    BY DEF LedgerInv, AttemptsHold
  <2>2. n \in Nat /\ plan = n + 1
    BY <2>1, LatestIsLast DEF AttemptsOf
  <2>3. /\ t \in DOMAIN trips /\ trips[t].state = "COMPLETED"
        /\ attempts[t] # {} => Latest(t).status \notin Blocking
    BY <1>6 DEF Begins, CaptureVerdict
  <2>4. \A a \in attempts[t] : a.status = "FAILED"
    <3> SUFFICES ASSUME NEW a \in attempts[t] PROVE a.status = "FAILED"
      OBVIOUS
    <3>1. /\ Latest(t) \in attempts[t] /\ Latest(t).number = n
      BY <2>1, LatestIsLast
    <3>2. a \in AttemptRows /\ Latest(t) \in AttemptRows
      BY <3>1 DEF LedgerInv, AttemptsHold
    <3>3. CASE a.number < n
      BY <2>1, <3>3 DEF AttemptsOf
    <3>4. CASE ~(a.number < n)
      <4>1. a.number \in 1..n
        BY <2>1 DEF AttemptsOf
      <4>2. a = Latest(t)
        BY <2>1, <2>2, <3>1, <3>4, <4>1 DEF AttemptsOf
      <4>3. a.status \in Outcomes /\ a.status \notin Blocking
        BY <2>3, <3>2, <4>2 DEF AttemptRows
      <4> QED
        BY <4>3, PurchaseAssumption DEF Blocking
    <3> QED
      BY <3>3, <3>4
  <2>5. AttemptsOf(t, plan - 1)
    <3>1. plan - 1 = n
      BY <2>2
    <3> QED
      BY <2>1, <3>1
  <2>6. CapturesHold'
    <3> SUFFICES ASSUME NEW x \in Calls, Running(x, "CAPTURE")' PROVE Capturing(call[x])'
      BY DEF CapturesHold
    <3>1. CASE x = r
      <4>1. call'[x].plan = plan /\ call'[x].body = body
        BY <1>2, <1>6, <3>1 DEF Begins
      <4> QED
        BY <1>1, <1>2, <2>2, <2>3, <2>4, <2>5, <4>1 DEF Capturing, AttemptsOf
    <3>2. CASE x # r
      <4>1. call'[x] = call[x]
        BY <1>6, <3>2 DEF Begins
      <4>2. Capturing(call[x])
        BY <4>1 DEF LedgerInv, CapturesHold, Running, Open
      <4> QED
        BY <1>1, <4>1, <4>2 DEF Capturing, AttemptsOf
    <3> QED
      BY <3>1, <3>2
  <2>7. FaresStay
    BY <1>1 DEF FaresStay
  <2>8. AttemptsHold'
    BY <1>1, <2>7, AttemptsStand DEF LedgerInv
  <2>9. RowsHold'
    BY <1>1 DEF LedgerInv, RowsHold
  <2> QED
    BY <1>4, <2>6, <2>8, <2>9 DEF AttemptsStay
<1> QED
  BY <1>4, <1>5, <1>6

LEMMA CommitCaptureBuys ==
  ASSUME PurchaseInv, LedgerInv, NoCaptureBegins, NEW r \in Calls, CommitCapture(r)
  PROVE  AttemptsStay
<1> PICK t : t = call[r].body.trip
  OBVIOUS
<1> PICK plan : plan = call[r].plan
  OBVIOUS
<1> PICK row : row = [number |-> plan, status |-> call[r].body.outcome, amount |-> trips[t].final]
  OBVIOUS
<1>1. /\ Running(r, "CAPTURE") /\ plan <= MaxAttempts
      /\ attempts' = [attempts EXCEPT ![t] = @ \cup {row}]
      /\ UNCHANGED <<quotes, card, trips>>
  BY DEF CommitCapture, quoteVars
<1>2. /\ t \in DOMAIN trips /\ trips[t].state = "COMPLETED"
      /\ plan \in Nat /\ plan >= 1 /\ AttemptsOf(t, plan - 1)
      /\ \A a \in attempts[t] : a.status = "FAILED"
      /\ call[r].body.outcome \in Outcomes
  BY <1>1 DEF LedgerInv, CapturesHold, Capturing
<1>3. /\ Len(trips) \in Nat /\ DOMAIN trips = 1..Len(trips) /\ trips[t] \in TripRows
  BY <1>2, TablesAreNumbered DEF PurchaseInv
<1>4. t \in 1..MaxTrips
  BY <1>2, <1>3, PurchaseAssumption DEF LedgerInv, RowsHold
<1>5. trips[t].final \in Nat
  <2>1. trips[t].final = Fare(trips[t].metered.meters, trips[t].metered.seconds,
                              NoSurge, RateCards[trips[t].rules])
    BY <1>2 DEF PurchaseInv, TripsHold
  <2>2. trips[t].metered.meters \in Nat /\ trips[t].metered.seconds \in Nat /\ trips[t].rules \in 1..2
    BY <1>3 DEF TripRows, Lengths
  <2> PICK m : m = trips[t].metered.meters
    OBVIOUS
  <2> PICK s : s = trips[t].metered.seconds
    OBVIOUS
  <2> PICK rules : rules = trips[t].rules
    OBVIOUS
  <2>3. Fare(m, s, NoSurge, RateCards[rules]) \in Int
    BY <2>2, FareIsInt
  <2>4. Fare(m, s, NoSurge, RateCards[rules]) > 0
    BY <2>2, QuotesCostSomething
  <2> QED
    BY <2>1, <2>3, <2>4
<1>6. row \in AttemptRows
  BY <1>1, <1>2, <1>5, PurchaseAssumption DEF AttemptRows
<1>7. /\ attempts' \in [1..MaxTrips -> SUBSET AttemptRows]
      /\ attempts'[t] = attempts[t] \cup {row}
      /\ \A s \in 1..MaxTrips : s # t => attempts'[s] = attempts[s]
  BY <1>1, <1>4, <1>6 DEF LedgerInv, AttemptsHold
<1>8. row.number = plan /\ row.amount = trips[t].final
  OBVIOUS
<1>9. AttemptsOf(t, plan)'
  <2>1. \A a \in attempts[t] : a.number \in 1..(plan - 1)
    BY <1>2 DEF AttemptsOf
  <2>2. \A a \in attempts'[t] : a.number \in 1..plan /\ (a.number < plan => a.status = "FAILED")
    BY <1>2, <1>7, <1>8, <2>1
  <2>3. ASSUME NEW i \in 1..plan PROVE \E a \in attempts'[t] : a.number = i
    <3>1. CASE i = plan
      BY <1>7, <1>8, <3>1
    <3>2. CASE i # plan
      <4>1. i \in 1..(plan - 1)
        BY <1>2, <3>2
      <4> QED
        BY <1>2, <1>7, <4>1 DEF AttemptsOf
    <3> QED
      BY <3>1, <3>2
  <2>4. ASSUME NEW a \in attempts'[t], NEW b \in attempts'[t], a.number = b.number
        PROVE  a = b
    <3>1. CASE a = row /\ b = row
      BY <3>1
    <3>2. CASE a \in attempts[t] /\ b \in attempts[t]
      BY <1>2, <2>4, <3>2 DEF AttemptsOf
    <3>3. CASE (a = row /\ b \in attempts[t]) \/ (a \in attempts[t] /\ b = row)
      BY <1>2, <1>8, <2>1, <2>4, <3>3
    <3> QED
      BY <1>7, <3>1, <3>2, <3>3
  <2> QED
    BY <1>2, <2>2, <2>3, <2>4 DEF AttemptsOf
<1>10. AttemptsHold'
  <2>1. ASSUME NEW s \in 1..MaxTrips PROVE \E n : AttemptsOf(s, n)'
    <3>1. CASE s = t
      BY <1>9, <3>1
    <3>2. CASE s # t
      <4>1. PICK n : AttemptsOf(s, n)
        BY DEF LedgerInv, AttemptsHold
      <4>2. AttemptsOf(s, n)'
        BY <1>7, <3>2, <4>1 DEF AttemptsOf
      <4> QED
        BY <4>2
    <3> QED
      BY <3>1, <3>2
  <2>2. \A s \in 1..MaxTrips : \A a \in attempts'[s] :
          s \in DOMAIN trips /\ trips[s].state = "COMPLETED" /\ a.amount = trips[s].final
    BY <1>2, <1>7, <1>8 DEF LedgerInv, AttemptsHold
  <2> QED
    BY <1>1, <1>7, <2>1, <2>2 DEF AttemptsHold
<1>11. CapturesHold'
  <2> SUFFICES ASSUME NEW x \in Calls, Running(x, "CAPTURE")' PROVE Capturing(call[x])'
    BY DEF CapturesHold
  <2>1. SameTransaction(call'[x], call[x]) /\ call'[x].op = "CAPTURE"
    BY DEF NoCaptureBegins, Running, Open, InTransaction
  <2>2. /\ Running(x, "CAPTURE") /\ call'[x].plan = call[x].plan /\ call'[x].body = call[x].body
    BY <2>1 DEF SameTransaction, SameCommand, InTransaction, Running, Open
  <2> PICK s : s = call[x].body.trip
    OBVIOUS
  <2>3. /\ s \in DOMAIN trips /\ trips[s].state = "COMPLETED"
        /\ call[x].plan \in Nat /\ call[x].plan >= 1 /\ AttemptsOf(s, call[x].plan - 1)
        /\ \A a \in attempts[s] : a.status = "FAILED"
        /\ call[x].body.outcome \in Outcomes
    BY <2>2 DEF LedgerInv, CapturesHold, Capturing
  <2>4. s \in 1..MaxTrips
    BY <1>3, <2>3, PurchaseAssumption DEF LedgerInv, RowsHold
  <2>5. x # r
    <3>1. ~Open(r)'
      <4>1. call[r].at # "idle" /\ \E answer : call' = Answered(r, answer)
        BY <1>1 DEF CommitCapture, Running, Open, Committed
      <4> QED
        BY <4>1, AnsweringShrinks DEF PurchaseInv
    <3> QED
      BY <3>1 DEF Running
  <2>6. s # t
    <3>1. /\ call[x].locks = LocksOf(call[x]) /\ call[r].locks = LocksOf(call[r])
          /\ Open(x) /\ Open(r) /\ call[x].op = "CAPTURE" /\ call[r].op = "CAPTURE"
      BY <1>1, <2>2, TransactionSawNoReceipt DEF PurchaseInv, LedgerInv, Running
    <3>2. call[x].locks \cap call[r].locks = {}
      BY <2>5, <3>1 DEF PurchaseInv, LocksApart
    <3>3. TripRow(s) \in call[x].locks /\ TripRow(t) \in call[r].locks
      BY <3>1 DEF LocksOf, CaptureLocks
    <3> QED
      BY <3>2, <3>3
  <2>7. attempts'[s] = attempts[s]
    BY <1>7, <2>4, <2>6
  <2> QED
    BY <1>1, <2>2, <2>3, <2>7 DEF Capturing, AttemptsOf
<1>12. RowsHold'
  BY <1>1 DEF LedgerInv, RowsHold
<1> QED
  BY <1>10, <1>11, <1>12 DEF AttemptsStay

-------------------------------------------------------------------------------
(* Commands and the rows they made *)

\* The rows of an operation, one by one.
RowsOneByOne ==
  /\ \A w : w \in RowsMade("QUOTE") <=> \E q \in DOMAIN quotes : w = <<q, q>>
  /\ \A w : w \in RowsMade("TRIP") <=> \E t \in DOMAIN trips : w = <<t, t>>
  /\ \A w : w \in RowsMade("CAPTURE") <=>
       \E t \in DOMAIN trips : \E a \in attempts[t] : w = <<t, a.number>>

LEMMA RowsOneByOneAlways == RowsOneByOne
<1>1. /\ RowsMade("QUOTE") = {<<q, q>> : q \in DOMAIN quotes}
      /\ RowsMade("TRIP") = {<<t, t>> : t \in DOMAIN trips}
      /\ RowsMade("CAPTURE") = UNION {{<<t, a.number>> : a \in attempts[t]} : t \in DOMAIN trips}
  BY DEF RowsMade
<1>2. \A w : w \in RowsMade("QUOTE") <=> \E q \in DOMAIN quotes : w = <<q, q>>
  BY <1>1
<1>3. \A w : w \in RowsMade("TRIP") <=> \E t \in DOMAIN trips : w = <<t, t>>
  BY <1>1
<1>4. \A w : w \in RowsMade("CAPTURE") <=>
       \E t \in DOMAIN trips : \E a \in attempts[t] : w = <<t, a.number>>
  BY <1>1
<1> QED
  BY <1>2, <1>3, <1>4 DEF RowsOneByOne

\* The told commands of op and its rows, one by one.
ToldOf(op, m) == m \in Commands /\ m[1] = op /\ receipt[m] # NoReceipt

OneByOne(op) ==
  /\ \A m, n : (ToldOf(op, m) /\ ToldOf(op, n) /\ RowNamed(m) = RowNamed(n)) => m = n
  /\ \A m : ToldOf(op, m) => RowNamed(m) \in RowsMade(op)
  /\ \A w \in RowsMade(op) : \E m : ToldOf(op, m) /\ RowNamed(m) = w

LEMMA OneByOneIsEnough == OneRowPerCommand <=> \A op \in Operations : OneByOne(op)
<1>1. ASSUME NEW op \in Operations
      PROVE  OneByOne(op) <=>
               LET told == {m \in Commands : m[1] = op /\ receipt[m] # NoReceipt}
               IN  /\ \A m, n \in told : RowNamed(m) = RowNamed(n) => m = n
                   /\ {RowNamed(m) : m \in told} = RowsMade(op)
  <2> PICK told : told = {m \in Commands : m[1] = op /\ receipt[m] # NoReceipt}
    OBVIOUS
  <2>1. \A m : m \in told <=> ToldOf(op, m)
    BY DEF ToldOf
  <2>2. {RowNamed(m) : m \in told} = RowsMade(op) <=>
          /\ \A m \in told : RowNamed(m) \in RowsMade(op)
          /\ \A w \in RowsMade(op) : \E m \in told : RowNamed(m) = w
    <3>1. ASSUME {RowNamed(m) : m \in told} = RowsMade(op)
          PROVE  /\ \A m \in told : RowNamed(m) \in RowsMade(op)
                 /\ \A w \in RowsMade(op) : \E m \in told : RowNamed(m) = w
      <4>1. \A m \in told : RowNamed(m) \in {RowNamed(n) : n \in told}
        OBVIOUS
      <4>2. \A w \in {RowNamed(n) : n \in told} : \E m \in told : RowNamed(m) = w
        OBVIOUS
      <4> QED
        BY <3>1, <4>1, <4>2
    <3>2. ASSUME \A m \in told : RowNamed(m) \in RowsMade(op),
                 \A w \in RowsMade(op) : \E m \in told : RowNamed(m) = w
          PROVE  {RowNamed(m) : m \in told} = RowsMade(op)
      <4>1. {RowNamed(m) : m \in told} \subseteq RowsMade(op)
        BY <3>2
      <4>2. ASSUME NEW w \in RowsMade(op) PROVE w \in {RowNamed(m) : m \in told}
        <5>1. PICK m \in told : RowNamed(m) = w
          BY <3>2
        <5> QED
          BY <5>1
      <4> QED
        BY <4>1, <4>2
    <3> QED
      BY <3>1, <3>2
  <2>3. OneByOne(op) <=>
          /\ \A m, n \in told : RowNamed(m) = RowNamed(n) => m = n
          /\ \A m \in told : RowNamed(m) \in RowsMade(op)
          /\ \A w \in RowsMade(op) : \E m \in told : RowNamed(m) = w
    BY <2>1 DEF OneByOne
  <2> QED
    BY <2>2, <2>3
<1> QED
  BY <1>1 DEF OneRowPerCommand

LEMMA OneByOneIsEnoughNext ==
  (\A op \in Operations : OneByOne(op))' => OneRowPerCommand'
  BY OneByOneIsEnough, PTL

LEMMA ReceiptsStand ==
  ASSUME OneRowPerCommand, UNCHANGED <<receipt, attempts>>,
         DOMAIN quotes' = DOMAIN quotes, DOMAIN trips' = DOMAIN trips
  PROVE  OneRowPerCommand'
<1>1. \A m : RowNamed(m)' = RowNamed(m)
  BY DEF RowNamed
<1>2. ASSUME NEW op \in Operations PROVE RowsMade(op)' = RowsMade(op)
  BY DEF RowsMade
<1>3. \A op \in Operations : OneByOne(op)'
  BY <1>1, <1>2, OneByOneIsEnough DEF OneByOne, ToldOf
<1> QED
  BY <1>3, OneByOneIsEnoughNext

LEMMA RowsOneByOneNext == RowsOneByOne'
  BY RowsOneByOneAlways, PTL

\* A commit makes one row, which no other command has, and names it.
Makes(op, row) ==
  /\ row \notin RowsMade(op)
  /\ \A w : w \in RowsMade(op)' <=> w \in RowsMade(op) \/ w = row
  /\ \A o \in Operations : o # op => RowsMade(o)' = RowsMade(o)

LEMMA CommitMakesARow ==
  ASSUME OneRowPerCommand, DOMAIN receipt = Commands, NEW m \in Commands,
         receipt[m] = NoReceipt, NEW known, known # NoReceipt,
         receipt' = [receipt EXCEPT ![m] = known],
         NEW op \in Operations, op = m[1], NEW row, Makes(op, row),
         row = IF op = "CAPTURE" THEN <<known.body.trip, known.id>> ELSE <<known.id, known.id>>
  PROVE  OneRowPerCommand' /\ DOMAIN receipt' = Commands
<1>1. /\ DOMAIN receipt' = Commands /\ receipt'[m] = known
      /\ \A n \in Commands : n # m => receipt'[n] = receipt[n]
  OBVIOUS
<1>2. RowNamed(m)' = row
  BY <1>1 DEF RowNamed
<1>3. \A n \in Commands : n # m => RowNamed(n)' = RowNamed(n)
  BY <1>1 DEF RowNamed
<1>4. \A o \in Operations : OneByOne(o)
  BY OneByOneIsEnough
<1>5. ASSUME NEW o \in Operations, o # op
      PROVE  OneByOne(o)'
  <2>1. \A n : ToldOf(o, n)' <=> ToldOf(o, n)
    BY <1>1, <1>5 DEF ToldOf
  <2>2. \A n : ToldOf(o, n) => RowNamed(n)' = RowNamed(n)
    BY <1>3, <1>5 DEF ToldOf
  <2>3. RowsMade(o)' = RowsMade(o)
    BY <1>5 DEF Makes
  <2> QED
    BY <1>4, <2>1, <2>2, <2>3 DEF OneByOne
<1>6. OneByOne(op)'
  <2>1. \A n : ToldOf(op, n)' <=> ToldOf(op, n) \/ n = m
    BY <1>1 DEF ToldOf
  <2>2. \A n : ToldOf(op, n) => n # m /\ RowNamed(n)' = RowNamed(n) /\ RowNamed(n) # row
    <3>1. \A n : ToldOf(op, n) => n # m /\ n \in Commands
      BY DEF ToldOf
    <3>2. \A n : ToldOf(op, n) => RowNamed(n) # row
      BY <1>4 DEF OneByOne, Makes
    <3> QED
      BY <1>3, <3>1, <3>2
  <2>3. \A w : w \in RowsMade(op)' <=> w \in RowsMade(op) \/ w = row
    BY DEF Makes
  <2>4. OneByOne(op)
    BY <1>4
  <2>5. \A n, o : (ToldOf(op, n)' /\ ToldOf(op, o)' /\ RowNamed(n)' = RowNamed(o)') => n = o
    BY <1>2, <2>1, <2>2, <2>4 DEF OneByOne
  <2>6. \A n : ToldOf(op, n)' => RowNamed(n)' \in RowsMade(op)'
    BY <1>2, <2>1, <2>2, <2>3, <2>4 DEF OneByOne
  <2>7. ASSUME NEW w \in RowsMade(op)' PROVE \E n : ToldOf(op, n)' /\ RowNamed(n)' = w
    BY <1>2, <2>1, <2>2, <2>3, <2>4 DEF OneByOne
  <2> QED
    BY <2>5, <2>6, <2>7 DEF OneByOne
<1>7. \A o \in Operations : OneByOne(o)'
  BY <1>5, <1>6
<1> QED
  BY <1>1, <1>7, OneByOneIsEnoughNext

LEMMA CommitNamesItsRow ==
  ASSUME PurchaseInv, LedgerInv, NEW r \in Calls, NEW op \in Operations, Running(r, op),
         NEW id, Committed(r, id), NEW row, Makes(op, row),
         row = IF op = "CAPTURE" THEN <<call[r].body.trip, id>> ELSE <<id, id>>
  PROVE  OneRowPerCommand' /\ DOMAIN receipt' = Commands
<1> PICK m : m = CommandOf(call[r])
  OBVIOUS
<1> PICK known : known = [body |-> call[r].body, id |-> id]
  OBVIOUS
<1>1. m \in Commands /\ receipt[m] = NoReceipt /\ m[1] = op
  BY TransactionSawNoReceipt DEF PurchaseInv, LedgerInv, Running, CommandOf
<1>2. known # NoReceipt
  BY DEF NoReceipt
<1>3. receipt' = [receipt EXCEPT ![m] = known]
  BY DEF Committed
<1>4. row = IF op = "CAPTURE" THEN <<known.body.trip, known.id>> ELSE <<known.id, known.id>>
  OBVIOUS
<1> QED
  BY <1>1, <1>2, <1>3, <1>4, CommitMakesARow DEF LedgerInv

\* Request r performs a command: it commits the receipt, and one row.
Performs(r, op) ==
  /\ op \in Operations /\ Running(r, op)
  /\ \E id, row : /\ Committed(r, id) /\ Makes(op, row)
                  /\ row = IF op = "CAPTURE" THEN <<call[r].body.trip, id>> ELSE <<id, id>>

LEMMA CommitQuoteMakesOne ==
  ASSUME PurchaseInv, LedgerInv, NEW r \in Calls, CommitQuote(r), UNCHANGED <<trips, attempts>>
  PROVE  OneRowPerCommand' /\ DOMAIN receipt' = Commands /\ Performs(r, "QUOTE")
<1> PICK n : n = Len(quotes) + 1
  OBVIOUS
<1>1. Running(r, "QUOTE") /\ Committed(r, n) /\ \E row : quotes' = Append(quotes, row)
  BY DEF CommitQuote
<1>2. n \in Nat /\ DOMAIN quotes = 1..(n - 1) /\ DOMAIN quotes' = 1..n
  BY <1>1, Lengthened DEF PurchaseInv, QuotesHold
<1> PICK row : row = <<n, n>>
  OBVIOUS
<1>3. row \notin RowsMade("QUOTE")
  BY <1>2, RowsOneByOneAlways DEF RowsOneByOne
<1>4. \A w : w \in RowsMade("QUOTE")' <=> \E q \in DOMAIN quotes' : w = <<q, q>>
  BY RowsOneByOneNext DEF RowsOneByOne
<1>5. \A w : w \in RowsMade("QUOTE")' <=> w \in RowsMade("QUOTE") \/ w = row
  <2>1. \A q : q \in DOMAIN quotes' <=> q \in DOMAIN quotes \/ q = n
    BY <1>2
  <2> QED
    BY <1>4, <2>1, RowsOneByOneAlways DEF RowsOneByOne
<1>6. RowsMade("TRIP")' = RowsMade("TRIP") /\ RowsMade("CAPTURE")' = RowsMade("CAPTURE")
  BY DEF RowsMade
<1>7. Makes("QUOTE", row)
  BY <1>3, <1>5, <1>6, PurchaseAssumption DEF Makes
<1>8. Performs(r, "QUOTE")
  BY <1>1, <1>7, PurchaseAssumption DEF Performs
<1> QED
  BY <1>1, <1>7, <1>8, CommitNamesItsRow, PurchaseAssumption

LEMMA CommitTripMakesOne ==
  ASSUME PurchaseInv, LedgerInv, NEW r \in Calls, CommitTrip(r), UNCHANGED attempts
  PROVE  OneRowPerCommand' /\ DOMAIN receipt' = Commands /\ Performs(r, "TRIP")
<1> PICK n : n = Len(trips) + 1
  OBVIOUS
<1>1. /\ Running(r, "TRIP") /\ Committed(r, n) /\ Len(trips) < MaxTrips
      /\ \E row : trips' = Append(trips, row)
      /\ \E q : quotes' = [quotes EXCEPT ![q].status = "CONSUMED"]
  BY DEF CommitTrip
<1>2. /\ n \in Nat /\ DOMAIN trips = 1..(n - 1) /\ DOMAIN trips' = 1..n
      /\ n \in 1..MaxTrips /\ DOMAIN quotes' = DOMAIN quotes
  BY <1>1, Lengthened, PurchaseAssumption DEF PurchaseInv, TripsHold
<1> PICK row : row = <<n, n>>
  OBVIOUS
<1>3. row \notin RowsMade("TRIP")
  BY <1>2, RowsOneByOneAlways DEF RowsOneByOne
<1>4. \A w : w \in RowsMade("TRIP")' <=> \E t \in DOMAIN trips' : w = <<t, t>>
  BY RowsOneByOneNext DEF RowsOneByOne
<1>5. \A q : q \in DOMAIN trips' <=> q \in DOMAIN trips \/ q = n
  BY <1>2
<1>6. \A w : w \in RowsMade("TRIP")' <=> w \in RowsMade("TRIP") \/ w = row
  BY <1>4, <1>5, RowsOneByOneAlways DEF RowsOneByOne
<1>7. RowsMade("QUOTE")' = RowsMade("QUOTE")
  BY <1>2 DEF RowsMade
<1>8. \A w : w \in RowsMade("CAPTURE")' <=>
        \E t \in DOMAIN trips' : \E a \in attempts[t] : w = <<t, a.number>>
  BY RowsOneByOneNext DEF RowsOneByOne
<1>9. attempts[n] = {}
  BY <1>2 DEF LedgerInv, AttemptsHold
<1>10. \A w : w \in RowsMade("CAPTURE")' <=> w \in RowsMade("CAPTURE")
  BY <1>5, <1>8, <1>9, RowsOneByOneAlways DEF RowsOneByOne
<1>11. RowsMade("CAPTURE")' = RowsMade("CAPTURE")
  BY <1>10
<1>12. Makes("TRIP", row)
  BY <1>3, <1>6, <1>7, <1>11, PurchaseAssumption DEF Makes
<1>13. Performs(r, "TRIP")
  BY <1>1, <1>12, PurchaseAssumption DEF Performs
<1> QED
  BY <1>1, <1>12, <1>13, CommitNamesItsRow, PurchaseAssumption

LEMMA CommitCaptureMakesOne ==
  ASSUME PurchaseInv, LedgerInv, NEW r \in Calls, CommitCapture(r)
  PROVE  OneRowPerCommand' /\ DOMAIN receipt' = Commands /\ Performs(r, "CAPTURE")
<1> PICK t : t = call[r].body.trip
  OBVIOUS
<1> PICK plan : plan = call[r].plan
  OBVIOUS
<1> PICK row : row = <<t, plan>>
  OBVIOUS
<1>1. /\ Running(r, "CAPTURE") /\ Committed(r, plan) /\ UNCHANGED <<quotes, trips>>
      /\ \E a : a.number = plan /\ attempts' = [attempts EXCEPT ![t] = @ \cup {a}]
  BY DEF CommitCapture, quoteVars
<1>2. t \in DOMAIN trips /\ plan \in Nat /\ AttemptsOf(t, plan - 1)
  BY <1>1 DEF LedgerInv, CapturesHold, Capturing
<1>3. Len(trips) \in Nat /\ DOMAIN trips = 1..Len(trips)
  BY TablesAreNumbered DEF PurchaseInv
<1>4. DOMAIN trips \subseteq 1..MaxTrips
  BY <1>3, PurchaseAssumption DEF LedgerInv, RowsHold
<1>5. PICK a : /\ a.number = plan /\ attempts'[t] = attempts[t] \cup {a}
               /\ \A s \in DOMAIN trips : s # t => attempts'[s] = attempts[s]
  BY <1>1, <1>2, <1>4 DEF LedgerInv, AttemptsHold
<1>6. \A b \in attempts[t] : b.number # plan
  BY <1>2 DEF AttemptsOf
<1>7. row \notin RowsMade("CAPTURE")
  BY <1>6, RowsOneByOneAlways DEF RowsOneByOne
<1>8. \A w : w \in RowsMade("CAPTURE")' <=>
        \E s \in DOMAIN trips : \E b \in attempts'[s] : w = <<s, b.number>>
  BY <1>1, RowsOneByOneNext DEF RowsOneByOne
<1>9. ASSUME NEW w
      PROVE  (\E s \in DOMAIN trips : \E b \in attempts'[s] : w = <<s, b.number>>)
               <=> (\E s \in DOMAIN trips : \E b \in attempts[s] : w = <<s, b.number>>) \/ w = row
  BY <1>2, <1>5
<1>10. \A w : w \in RowsMade("CAPTURE")' <=> w \in RowsMade("CAPTURE") \/ w = row
  BY <1>8, <1>9, RowsOneByOneAlways DEF RowsOneByOne
<1>11. RowsMade("QUOTE")' = RowsMade("QUOTE") /\ RowsMade("TRIP")' = RowsMade("TRIP")
  BY <1>1 DEF RowsMade
<1>12. Makes("CAPTURE", row)
  BY <1>7, <1>10, <1>11, PurchaseAssumption DEF Makes
<1>13. Performs(r, "CAPTURE")
  BY <1>1, <1>12, PurchaseAssumption DEF Performs
<1> QED
  BY <1>1, <1>12, <1>13, CommitNamesItsRow, PurchaseAssumption

-------------------------------------------------------------------------------
(* Every step keeps commands, receipts and rows *)

LEMMA InitHasLedger == PurchaseInit => LedgerInv
<1> SUFFICES ASSUME PurchaseInit PROVE LedgerInv
  OBVIOUS
<1>1. /\ quotes = <<>> /\ trips = <<>> /\ card = 1
      /\ call = [r \in Calls |-> Idle] /\ receipt = [m \in Commands |-> NoReceipt]
      /\ attempts = [t \in 1..MaxTrips |-> {}]
  BY DEF PurchaseInit, CallsInit, QuotesInit, TripsInit, AttemptsInit
<1>2. DOMAIN quotes = {} /\ DOMAIN trips = {} /\ Len(trips) = 0
  BY <1>1
<1>3. CommandsHold
  BY <1>1 DEF CommandsHold, CallHolds
<1>4. \A r \in Calls : call[r].at = "idle"
  BY <1>1, IdleIsNoRequest
<1>5. JoinersHold
  BY <1>4 DEF JoinersHold, Promises
<1>6. \A t \in 1..MaxTrips : AttemptsOf(t, 0)
  BY <1>1 DEF AttemptsOf
<1>7. AttemptsHold
  BY <1>1, <1>6 DEF AttemptsHold
<1>8. CapturesHold
  BY <1>4 DEF CapturesHold, Running, Open
<1>9. RowsHold
  BY <1>2, PurchaseAssumption DEF RowsHold
<1>10. DOMAIN receipt = Commands
  BY <1>1
<1>11. \A op \in Operations : \A m : ~ToldOf(op, m)
  BY <1>1 DEF ToldOf
<1>12. \A op \in Operations : \A w : w \notin RowsMade(op)
  BY <1>2, RowsOneByOneAlways, PurchaseAssumption DEF RowsOneByOne
<1>13. \A op \in Operations : OneByOne(op)
  BY <1>11, <1>12 DEF OneByOne
<1>14. OneRowPerCommand
  BY <1>13, OneByOneIsEnough
<1> QED
  BY <1>3, <1>5, <1>7, <1>8, <1>9, <1>10, <1>14 DEF LedgerInv

\* No row and no receipt is made.
LEMMA NothingMade ==
  ASSUME LedgerInv, UNCHANGED <<receipt, attempts>>,
         DOMAIN quotes' = DOMAIN quotes, DOMAIN trips' = DOMAIN trips
  PROVE  OneRowPerCommand' /\ DOMAIN receipt' = Commands
  BY ReceiptsStand DEF LedgerInv

LEMMA QuietCallsKeepLedger ==
  ASSUME PurchaseInv, LedgerInv, CallsStay, UNCHANGED <<receipt, quotes, card, trips, attempts>>
  PROVE  LedgerInv'
<1>1. AttemptsStay
  BY NothingBoughtStays DEF LedgerInv, CallsStay
<1>2. OneRowPerCommand' /\ DOMAIN receipt' = Commands
  BY NothingMade
<1> QED
  BY <1>1, <1>2 DEF LedgerInv, CallsStay, AttemptsStay

LEMMA AskStepKeepsLedger ==
  ASSUME PurchaseInv, LedgerInv, NEW r \in Calls, NEW c \in Callers, NEW k \in Keys,
         AskStep(r, c, k)
  PROVE  LedgerInv'
<1>1. ASSUME NEW journey \in Journeys, AskQuote(r, c, k, journey), UNCHANGED <<trips, attempts>>
      PROVE  LedgerInv'
  <2>1. CallsStay
    BY <1>1, AskQuoteStays DEF LedgerInv
  <2>2. UNCHANGED <<receipt, quotes, card>>
    BY <1>1 DEF AskQuote, quoteVars
  <2> QED
    BY <1>1, <2>1, <2>2, QuietCallsKeepLedger
<1>2. ASSUME NEW q, OpenTrip(r, c, k, q), UNCHANGED attempts
      PROVE  LedgerInv'
  <2>1. CallsStay
    BY <1>2, OpenTripStays DEF LedgerInv
  <2>2. UNCHANGED <<receipt, quotes, card, trips>>
    BY <1>2 DEF OpenTrip, Taken, quoteVars
  <2> QED
    BY <1>2, <2>1, <2>2, QuietCallsKeepLedger
<1>3. ASSUME NEW t \in 1..MaxTrips, NEW o \in Outcomes, OpenCapture(r, c, k, t, o)
      PROVE  LedgerInv'
  <2>1. CallsMove /\ AttemptsStay
    BY <1>3, OpenCaptureBuys
  <2>2. UNCHANGED <<receipt, quotes, card, trips, attempts>>
    BY <1>3 DEF OpenCapture, Taken, quoteVars
  <2>3. OneRowPerCommand' /\ DOMAIN receipt' = Commands
    BY <2>2, NothingMade
  <2> QED
    BY <2>1, <2>3 DEF LedgerInv, CallsMove, AttemptsStay
<1> QED
  BY <1>1, <1>2, <1>3 DEF AskStep

LEMMA CallStepKeepsLedger ==
  ASSUME PurchaseInv, LedgerInv, NEW r \in Calls, CallStep(r)
  PROVE  LedgerInv'
<1>1. ASSUME EstimateRoute(r) \/ OpenQuote(r), UNCHANGED <<trips, attempts>>
      PROVE  LedgerInv'
  <2>1. CallsStay
    BY <1>1, EstimateRouteStays, OpenQuoteStays DEF LedgerInv
  <2>2. UNCHANGED <<receipt, quotes, card>>
    BY <1>1 DEF EstimateRoute, OpenQuote, quoteVars
  <2> QED
    BY <1>1, <2>1, <2>2, QuietCallsKeepLedger
<1>2. ASSUME CommitQuote(r), UNCHANGED <<trips, attempts>>
      PROVE  LedgerInv'
  <2> PICK id : id = Len(quotes) + 1
    OBVIOUS
  <2>1. Open(r) /\ Committed(r, id)
    BY <1>2 DEF CommitQuote, Running
  <2>2. id # Failed
    BY TablesAreNumbered DEF PurchaseInv, Failed
  <2>3. CallsStay
    BY <2>1, <2>2, CommittedStays DEF LedgerInv
  <2>4. AttemptsStay
    BY <1>2, <2>3, CommitQuoteBuys DEF LedgerInv, CallsStay
  <2>5. OneRowPerCommand' /\ DOMAIN receipt' = Commands
    BY <1>2, CommitQuoteMakesOne
  <2> QED
    BY <2>3, <2>4, <2>5 DEF LedgerInv, CallsStay, AttemptsStay
<1>3. ASSUME CommitTrip(r), UNCHANGED attempts
      PROVE  LedgerInv'
  <2> PICK id : id = Len(trips) + 1
    OBVIOUS
  <2>1. Open(r) /\ Committed(r, id)
    BY <1>3 DEF CommitTrip, Running
  <2>2. id # Failed
    BY TablesAreNumbered DEF PurchaseInv, Failed
  <2>3. CallsStay
    BY <2>1, <2>2, CommittedStays DEF LedgerInv
  <2>4. AttemptsStay
    BY <1>3, <2>3, CommitTripBuys DEF LedgerInv, CallsStay
  <2>5. OneRowPerCommand' /\ DOMAIN receipt' = Commands
    BY <1>3, CommitTripMakesOne
  <2> QED
    BY <2>3, <2>4, <2>5 DEF LedgerInv, CallsStay, AttemptsStay
<1>4. ASSUME CommitCapture(r)
      PROVE  LedgerInv'
  <2> PICK id : id = call[r].plan
    OBVIOUS
  <2>1. Running(r, "CAPTURE") /\ Open(r) /\ Committed(r, id)
    BY <1>4 DEF CommitCapture, Running
  <2>2. id # Failed
    BY <2>1 DEF LedgerInv, CapturesHold, Capturing, Failed
  <2>3. CallsStay
    BY <2>1, <2>2, CommittedStays DEF LedgerInv
  <2>4. AttemptsStay
    BY <1>4, <2>3, CommitCaptureBuys DEF CallsStay
  <2>5. OneRowPerCommand' /\ DOMAIN receipt' = Commands
    BY <1>4, CommitCaptureMakesOne
  <2> QED
    BY <2>3, <2>4, <2>5 DEF LedgerInv, CallsStay, AttemptsStay
<1>5. ASSUME Fails(r), UNCHANGED <<quoteVars, trips, attempts>>
      PROVE  LedgerInv'
  <2>1. CallsStay
    BY <1>5, FailsStays DEF LedgerInv
  <2>2. UNCHANGED <<receipt, quotes, card>>
    BY <1>5 DEF Fails, quoteVars
  <2> QED
    BY <1>5, <2>1, <2>2, QuietCallsKeepLedger
<1> QED
  BY <1>1, <1>2, <1>3, <1>4, <1>5 DEF CallStep

LEMMA OutsideStepKeepsLedger ==
  ASSUME PurchaseInv, LedgerInv, PurchaseInv', OutsideStep
  PROVE  LedgerInv'
<1>1. ASSUME UNCHANGED callVars, AttemptsStay, UNCHANGED attempts,
             DOMAIN quotes' = DOMAIN quotes, DOMAIN trips' = DOMAIN trips
      PROVE  LedgerInv'
  <2>1. CallsStay
    BY <1>1, OutsideStays DEF LedgerInv
  <2>2. OneRowPerCommand' /\ DOMAIN receipt' = Commands
    BY <1>1, NothingMade DEF callVars
  <2> QED
    BY <1>1, <2>1, <2>2 DEF LedgerInv, CallsStay, AttemptsStay
<1>2. UNCHANGED callVars => NoCaptureBegins
  BY OutsideStays DEF LedgerInv, CallsStay
<1>3. ASSUME NEW q \in DOMAIN quotes, QuoteLapses(q), UNCHANGED <<trips, attempts>>
      PROVE  LedgerInv'
  <2>1. UNCHANGED callVars /\ DOMAIN quotes' = DOMAIN quotes
    BY <1>3 DEF QuoteLapses
  <2>2. AttemptsStay
    BY <1>2, <1>3, <2>1, QuoteLapsesBuys DEF LedgerInv
  <2> QED
    BY <1>1, <1>3, <2>1, <2>2
<1>4. ASSUME NewRateCard, UNCHANGED <<trips, attempts>>
      PROVE  LedgerInv'
  <2>1. UNCHANGED callVars /\ UNCHANGED quotes
    BY <1>4 DEF NewRateCard
  <2>2. AttemptsStay
    BY <1>2, <1>4, <2>1, NewRateCardBuys DEF LedgerInv
  <2> QED
    BY <1>1, <1>4, <2>1, <2>2
<1>5. ASSUME NEW t \in DOMAIN trips, NEW journey, CompleteTripAt(t, journey), UNCHANGED attempts
      PROVE  LedgerInv'
  <2>1. UNCHANGED callVars /\ UNCHANGED quotes /\ DOMAIN trips' = DOMAIN trips
    BY <1>5 DEF CompleteTripAt, quoteVars
  <2>2. AttemptsStay
    BY <1>2, <1>5, <2>1, CompleteTripBuys DEF LedgerInv
  <2> QED
    BY <1>1, <1>5, <2>1, <2>2
<1>6. ASSUME NEW t \in DOMAIN trips, EndTrip(t), UNCHANGED attempts
      PROVE  LedgerInv'
  <2>1. UNCHANGED callVars /\ UNCHANGED quotes /\ DOMAIN trips' = DOMAIN trips
    BY <1>6 DEF EndTrip, quoteVars
  <2>2. AttemptsStay
    BY <1>2, <1>6, <2>1, EndTripBuys DEF LedgerInv
  <2> QED
    BY <1>1, <1>6, <2>1, <2>2
<1>7. ASSUME NEW sent \in SUBSET Calls, ProcessStops(sent), UNCHANGED <<quoteVars, trips, attempts>>
      PROVE  LedgerInv'
  <2>1. CallsStay
    BY <1>7, StopStays DEF LedgerInv
  <2>2. UNCHANGED <<receipt, quotes, card>>
    BY <1>7 DEF ProcessStops, quoteVars
  <2> QED
    BY <1>7, <2>1, <2>2, QuietCallsKeepLedger
<1> QED
  BY <1>3, <1>4, <1>5, <1>6, <1>7 DEF OutsideStep

\* The ledger of receipts, rows and requests, on top of PurchaseInv.
THEOREM LedgerAlways == PurchaseSpec => [](PurchaseInv /\ LedgerInv)
<1>1. ASSUME PurchaseInv, LedgerInv, PurchaseInv', [PurchaseNext]_purchaseVars
      PROVE  LedgerInv'
  <2>1. CASE UNCHANGED purchaseVars
    <3>1. UNCHANGED callVars
      BY <2>1 DEF purchaseVars
    <3>2. CallsStay
      BY <1>1, <3>1, OutsideStays DEF LedgerInv
    <3>3. UNCHANGED <<receipt, quotes, card, trips, attempts>>
      BY <2>1 DEF purchaseVars, callVars, quoteVars
    <3> QED
      BY <1>1, <3>2, <3>3, QuietCallsKeepLedger
  <2>2. CASE PurchaseNext
    BY <1>1, <2>2, AskStepKeepsLedger, CallStepKeepsLedger, OutsideStepKeepsLedger
       DEF PurchaseNext
  <2> QED
    BY <1>1, <2>1, <2>2
<1> QED
  BY <1>1, InitHasLedger, AlwaysPurchaseInv, PTL DEF PurchaseSpec

\* Every variable keeps its type, and a request holds locks only while its
\* transaction is open.
THEOREM PurchaseTypes == PurchaseSpec => []PurchaseTypeOK
<1>1. ASSUME PurchaseInv, LedgerInv PROVE PurchaseTypeOK
  <2>1. ASSUME NEW q \in DOMAIN quotes
        PROVE  /\ quotes[q].who \in Callers
               /\ quotes[q].status \in {"ACTIVE", "CONSUMED"}
               /\ quotes[q].rules \in 1..card /\ quotes[q].fare > 0
    BY <1>1, TablesAreNumbered DEF PurchaseInv, LedgerInv, RowsHold, QuoteRows
  <2>2. \A t \in DOMAIN trips : trips[t].state \in {"ACTIVE", "COMPLETED", "ENDED"}
    BY <1>1, TablesAreNumbered DEF PurchaseInv, TripRows
  <2>3. attempts \in [1..MaxTrips -> SUBSET [number : 1..MaxAttempts, status : Outcomes, amount : Nat]]
    BY <1>1 DEF LedgerInv, AttemptsHold, AttemptRows
  <2>4. \A r \in Calls : call[r] # Idle /\ ~Open(r) => call[r].locks = {}
    BY <1>1 DEF LedgerInv, CommandsHold, CallHolds, Open, InTransaction
  <2> QED
    BY <2>1, <2>2, <2>3, <2>4 DEF PurchaseTypeOK
<1> QED
  BY <1>1, LedgerAlways, PTL

\* The rows of quotes, Trips and attempts and the receipts of the commands that
\* made them correspond one to one, whatever is retried, joined or lost.
THEOREM RowsMatchCommands == PurchaseSpec => []OneRowPerCommand
<1>1. LedgerInv => OneRowPerCommand
  BY DEF LedgerInv
<1> QED
  BY <1>1, LedgerAlways, PTL

\* Who got an answer got the one of the receipt of its key, for the body it sent.
THEOREM AnswersAreReceipts == PurchaseSpec => []AnswersMatchReceipts
<1>1. ASSUME PurchaseInv, LedgerInv PROVE AnswersMatchReceipts
  BY <1>1, IdleIsNoRequest DEF LedgerInv, CommandsHold, CallHolds, AnswersMatchReceipts
<1> QED
  BY <1>1, LedgerAlways, PTL

\* A Trip is settled at most once, attempt after failed attempt, for its final fare.
THEOREM TripsAreSettledOnce == PurchaseSpec => []SettledAtMostOnce
<1>1. ASSUME PurchaseInv, LedgerInv PROVE SettledAtMostOnce
  <2> SUFFICES ASSUME NEW t \in DOMAIN trips
      PROVE /\ {a.number : a \in attempts[t]} = {n \in 1..MaxAttempts : n < NextNumber(t)}
            /\ \A a, b \in attempts[t] : a.number = b.number => a = b
            /\ \A a \in attempts[t] :
                 /\ a.number < Latest(t).number => a.status = "FAILED"
                 /\ trips[t].state = "COMPLETED" /\ a.amount = trips[t].final
    BY DEF SettledAtMostOnce
  <2>1. t \in 1..MaxTrips
    BY <1>1, TablesAreNumbered, PurchaseAssumption DEF PurchaseInv, LedgerInv, RowsHold
  <2>2. PICK n : AttemptsOf(t, n)
    BY <1>1, <2>1 DEF LedgerInv, AttemptsHold
  <2>3. /\ n \in Nat /\ NextNumber(t) = n + 1
        /\ attempts[t] = {} <=> n = 0
        /\ n # 0 => Latest(t).number = n
    <3>1. n \in Nat
      BY <2>2 DEF AttemptsOf
    <3>2. /\ attempts[t] = {} <=> n = 0
          /\ n # 0 => Latest(t) \in attempts[t] /\ Latest(t).number = n
          /\ NextNumber(t) = n + 1
      BY <2>2, LatestIsLast
    <3> QED
      BY <3>1, <3>2
  <2>4. \A a \in attempts[t] : a.number \in 1..n /\ (a.number < n => a.status = "FAILED")
    BY <2>2 DEF AttemptsOf
  <2>5. \A a \in attempts[t] : a.number \in 1..MaxAttempts
    BY <1>1, <2>1 DEF LedgerInv, AttemptsHold, AttemptRows
  <2>6. {a.number : a \in attempts[t]} = {i \in 1..MaxAttempts : i < NextNumber(t)}
    <3>1. {a.number : a \in attempts[t]} \subseteq {i \in 1..MaxAttempts : i < NextNumber(t)}
      <4>1. \A a \in attempts[t] : a.number \in 1..MaxAttempts /\ a.number < NextNumber(t)
        BY <2>3, <2>4, <2>5, PurchaseAssumption
      <4> QED
        BY <4>1
    <3>2. ASSUME NEW i \in 1..MaxAttempts, i < NextNumber(t)
          PROVE  i \in {a.number : a \in attempts[t]}
      <4>1. i \in 1..n
        BY <2>3, <3>2, PurchaseAssumption
      <4>2. PICK a \in attempts[t] : a.number = i
        BY <2>2, <4>1 DEF AttemptsOf
      <4> QED
        BY <4>2
    <3> QED
      BY <3>1, <3>2
  <2>7. \A a, b \in attempts[t] : a.number = b.number => a = b
    BY <2>2 DEF AttemptsOf
  <2>8. \A a \in attempts[t] : a.number < Latest(t).number => a.status = "FAILED"
    BY <2>3, <2>4
  <2>9. \A a \in attempts[t] : trips[t].state = "COMPLETED" /\ a.amount = trips[t].final
    BY <1>1, <2>1 DEF LedgerInv, AttemptsHold
  <2> QED
    BY <2>6, <2>7, <2>8, <2>9
<1> QED
  BY <1>1, LedgerAlways, PTL

-------------------------------------------------------------------------------
(* Doubles *)

\* A set of natural numbers that is not empty has a least element.
LEMMA LeastNatural ==
  ASSUME NEW T \in SUBSET Nat, T # {}
  PROVE  \E x \in T : \A y \in T : x <= y
<1>1. IsWellFoundedOn(OpToRel(<, Nat), Nat)
  BY NatLessThanWellFounded
<1>2. \E Less : IsWellFoundedOn(Less, Nat) /\ \A x, y \in Nat : y < x => <<y, x>> \in Less
  <2>1. \A x, y \in Nat : y < x => <<y, x>> \in OpToRel(<, Nat)
    BY DEF OpToRel
  <2> QED
    BY <1>1, <2>1
<1> PICK Less : IsWellFoundedOn(Less, Nat) /\ \A x, y \in Nat : y < x => <<y, x>> \in Less
  BY <1>2
<1>3. PICK x \in T : \A y \in T : ~ (<<y, x>> \in Less)
  BY WFMin
<1>4. ASSUME NEW y \in T PROVE x <= y
  <2>1. x \in Nat /\ y \in Nat /\ ~(<<y, x>> \in Less)
    BY <1>3
  <2>2. ~(y < x)
    BY <2>1
  <2> QED
    BY <2>1, <2>2
<1> QED
  BY <1>4

\* A set that holds 0, and with each number the next one, holds all.
LEMMA Induction ==
  ASSUME NEW S, 0 \in S, \A n \in Nat : n \in S => n + 1 \in S
  PROVE  Nat \subseteq S
<1> SUFFICES ASSUME ~(Nat \subseteq S) PROVE FALSE
  OBVIOUS
<1> DEFINE T == {n \in Nat : n \notin S}
<1>1. PICK x \in T : \A y \in T : x <= y
  BY LeastNatural
<1>2. x \in Nat /\ x # 0 /\ x - 1 \in Nat
  OBVIOUS
<1>3. x - 1 \in S
  BY <1>1, <1>2
<1> QED
  BY <1>2, <1>3

\* The powers of two up to n, and as one function of all naturals.
Powers(n, f) ==
  /\ f \in [0..n -> Nat] /\ f[0] = 1
  /\ \A k \in 0..n : k > 0 => f[k] = 2 * f[k - 1]

\* Two tables of powers agree as far as both go.
LEMMA PowersUnique ==
  ASSUME NEW m \in Nat, NEW n \in Nat, NEW f, NEW g, Powers(m, f), Powers(n, g)
  PROVE  \A k \in 0..m : k \in 0..n => f[k] = g[k]
<1> DEFINE S == {k \in Nat : (k <= m /\ k <= n) => f[k] = g[k]}
<1>1. 0 \in S
  BY DEF Powers
<1>2. ASSUME NEW k \in Nat, k \in S PROVE k + 1 \in S
  <2>1. SUFFICES ASSUME k + 1 <= m, k + 1 <= n PROVE f[k + 1] = g[k + 1]
    OBVIOUS
  <2>2. f[k] = g[k] /\ k + 1 \in 0..m /\ k + 1 \in 0..n /\ k + 1 > 0 /\ (k + 1) - 1 = k
    BY <1>2, <2>1
  <2>3. f[k + 1] = 2 * f[(k + 1) - 1] /\ g[k + 1] = 2 * g[(k + 1) - 1]
    BY <2>2 DEF Powers
  <2> QED
    BY <2>2, <2>3
<1>3. Nat \subseteq S
  <2> HIDE DEF S
  <2> QED BY <1>1, <1>2, Induction
<1> QED
  BY <1>3

\* There is a table of powers of any length.
LEMMA PowersExist ==
  ASSUME NEW n \in Nat
  PROVE  \E f : Powers(n, f)
<1> DEFINE S == {k \in Nat : \E f : Powers(k, f)}
<1>1. 0 \in S
  <2>1. Powers(0, [k \in 0..0 |-> 1])
    BY DEF Powers
  <2> QED
    BY <2>1
<1>2. ASSUME NEW k \in Nat, k \in S PROVE k + 1 \in S
  <2>1. PICK f : Powers(k, f)
    BY <1>2
  <2>2. PICK g : g = [j \in 0..(k + 1) |-> IF j = k + 1 THEN 2 * f[k] ELSE f[j]]
    OBVIOUS
  <2>3. f[k] \in Nat /\ \A j \in 0..k : f[j] \in Nat
    BY <2>1 DEF Powers
  <2>4. g \in [0..(k + 1) -> Nat] /\ g[0] = 1
    BY <2>1, <2>2, <2>3 DEF Powers
  <2>5. ASSUME NEW j \in 0..(k + 1), j > 0 PROVE g[j] = 2 * g[j - 1]
    <3>1. j - 1 \in 0..k /\ j - 1 # k + 1
      BY <2>5
    <3>2. CASE j = k + 1
      BY <2>2, <3>1, <3>2
    <3>3. CASE j # k + 1
      <4>1. j \in 0..k
        BY <3>3
      <4>2. f[j] = 2 * f[j - 1]
        BY <2>1, <2>5, <4>1 DEF Powers
      <4> QED
        BY <2>2, <3>1, <3>3, <4>1, <4>2
    <3> QED
      BY <3>2, <3>3
  <2>6. Powers(k + 1, g)
    BY <2>4, <2>5 DEF Powers
  <2> QED
    BY <2>6
<1>3. Nat \subseteq S
  <2> HIDE DEF S
  <2> QED BY <1>1, <1>2, Induction
<1> QED
  BY <1>3

\* So the recursive definition has a value, and it satisfies its equation.
LEMMA PowersOfTwo ==
  /\ PowerOfTwo[0] = 1
  /\ \A k \in Nat : PowerOfTwo[k] \in Nat /\ PowerOfTwo[k + 1] = 2 * PowerOfTwo[k]
<1> DEFINE First(n) == CHOOSE f : Powers(n, f)
<1>1. ASSUME NEW n \in Nat PROVE Powers(n, First(n))
  BY PowersExist
<1> HIDE DEF First
<1> DEFINE g == [n \in Nat |-> First(n)[n]]
<1>2. g[0] = 1 /\ \A n \in Nat : g[n] \in Nat
  <2>1. g[0] = First(0)[0]
    OBVIOUS
  <2>2. ASSUME NEW n \in Nat PROVE First(n)[n] \in Nat
    BY <1>1 DEF Powers
  <2>3. First(0)[0] = 1
    BY <1>1 DEF Powers
  <2> QED
    BY <2>1, <2>2, <2>3
<1>3. ASSUME NEW n \in Nat, n # 0 PROVE g[n] = 2 * g[n - 1]
  <2>1. n - 1 \in Nat /\ n \in 0..n /\ n - 1 \in 0..n /\ n - 1 \in 0..(n - 1) /\ n > 0
    BY <1>3
  <2>2. First(n)[n] = 2 * First(n)[n - 1]
    BY <1>1, <2>1 DEF Powers
  <2>3. First(n)[n - 1] = First(n - 1)[n - 1]
    BY <1>1, <2>1, PowersUnique
  <2> QED
    BY <2>1, <2>2, <2>3
<1>4. g = [n \in Nat |-> IF n = 0 THEN 1 ELSE 2 * g[n - 1]]
  BY <1>2, <1>3
<1> HIDE DEF g
<1>5. \E h : h = [n \in Nat |-> IF n = 0 THEN 1 ELSE 2 * h[n - 1]]
  BY <1>4
<1>6. PowerOfTwo = [n \in Nat |-> IF n = 0 THEN 1 ELSE 2 * PowerOfTwo[n - 1]]
  BY <1>5 DEF PowerOfTwo
<1>7. PowerOfTwo[0] = 1 /\ \A k \in Nat : k # 0 => PowerOfTwo[k] = 2 * PowerOfTwo[k - 1]
  BY <1>6
<1> DEFINE S == {k \in Nat : PowerOfTwo[k] \in Nat}
<1>8. 0 \in S
  BY <1>7
<1>9. ASSUME NEW k \in Nat PROVE PowerOfTwo[k + 1] = 2 * PowerOfTwo[k]
  <2>1. k + 1 \in Nat /\ k + 1 # 0 /\ (k + 1) - 1 = k
    OBVIOUS
  <2> QED
    BY <1>7, <2>1
<1>10. ASSUME NEW k \in Nat, k \in S PROVE k + 1 \in S
  BY <1>9, <1>10
<1>11. Nat \subseteq S
  <2> HIDE DEF S
  <2> QED BY <1>8, <1>10, Induction
<1> QED
  BY <1>7, <1>9, <1>11


\* Powers are positive and turn sums into products.
LEMMA PowersGrow ==
  /\ \A k \in Nat : PowerOfTwo[k] >= 1
  /\ \A j, k \in Nat : PowerOfTwo[j + k] = PowerOfTwo[j] * PowerOfTwo[k]
<1> DEFINE P == {k \in Nat : PowerOfTwo[k] >= 1}
<1>1. 0 \in P /\ \A k \in Nat : k \in P => k + 1 \in P
  BY PowersOfTwo
<1>2. Nat \subseteq P
  <2> HIDE DEF P
  <2> QED
    BY <1>1, Induction
<1>3. ASSUME NEW j \in Nat PROVE \A k \in Nat : PowerOfTwo[j + k] = PowerOfTwo[j] * PowerOfTwo[k]
  <2> DEFINE S == {k \in Nat : PowerOfTwo[j + k] = PowerOfTwo[j] * PowerOfTwo[k]}
  <2>1. 0 \in S
    BY PowersOfTwo
  <2>2. ASSUME NEW k \in Nat, k \in S PROVE k + 1 \in S
    <3>1. PICK a \in Nat, b \in Nat : a = PowerOfTwo[j] /\ b = PowerOfTwo[k]
      BY PowersOfTwo
    <3>2. PowerOfTwo[j + k] = a * b
      BY <2>2, <3>1
    <3>3. PowerOfTwo[(j + k) + 1] = 2 * (a * b) /\ PowerOfTwo[k + 1] = 2 * b
      BY <3>1, <3>2, PowersOfTwo, j + k \in Nat
    <3>4. 2 * (a * b) = a * (2 * b) /\ (j + k) + 1 = j + (k + 1)
      BY SMT
    <3>5. PowerOfTwo[j + (k + 1)] = a * PowerOfTwo[k + 1]
      BY <3>3, <3>4
    <3> QED
      BY <3>1, <3>5
  <2>3. Nat \subseteq S
    <3> HIDE DEF S
    <3> QED
      BY <2>1, <2>2, Induction
  <2> QED
    BY <2>3
<1> QED
  BY <1>2, <1>3

\* Laws of products.
LEMMA Distributes ==
  ASSUME NEW d \in Int
  PROVE  /\ d * 0 = 0 /\ d * 1 = d /\ d * (-1) = -d
         /\ \A a \in Int : d * a \in Int /\ d * a = a * d /\ d * (a + 1) = d * a + d
         /\ \A a \in Nat : d \in Nat => d * a \in Nat
         /\ \A a, b \in Int : /\ d * (a + b) = d * a + d * b
                               /\ d * ((a + 1) + b) = d * a + d + d * b
                               /\ d * ((a + b) - 1) = a * d + b * d - d
                               /\ d * (a * b) = a * (d * b)
  BY SMT

\* Products of integers, and back.
LEMMA FactorsCompare ==
  ASSUME NEW a \in Int, NEW b \in Int, NEW d \in Nat, d > 0
  PROVE  /\ d * a \in Int /\ d * b \in Int
         /\ a <= b => d * a <= d * b
         /\ d * a < d * b => a < b
<1>1. d * a \in Int /\ d * b \in Int
  BY SMT
<1>2. ASSUME NEW x \in Int, NEW y \in Int, x <= y PROVE d * x <= d * y
  <2>1. PICK z \in Nat : y = x + z
    BY <1>2, y - x \in Nat
  <2>2. d * z \in Nat /\ d * x \in Int
    BY SMT
  <2>3. d * (x + z) = d * x + d * z
    BY SMT
  <2> QED
    BY <2>1, <2>2, <2>3
<1>3. a <= b => d * a <= d * b
  BY <1>2
<1>4. b <= a => d * b <= d * a
  BY <1>2
<1> QED
  BY <1>1, <1>3, <1>4

\* Quotient and remainder.
LEMMA Division ==
  ASSUME NEW n \in Nat, NEW d \in Nat, d > 0
  PROVE  /\ n \div d \in Int /\ n % d \in Nat /\ n % d < d
         /\ n = d * (n \div d) + (n % d)
  BY SMT

\* A ceiling is the integer between the quotient and the next one.
LEMMA CeilingBounds ==
  ASSUME NEW n \in Nat, NEW d \in Nat, d > 0
  PROVE  /\ CeilRatio(n, d) \in Int
         /\ n <= d * CeilRatio(n, d) /\ d * CeilRatio(n, d) < n + d
<1>1. PICK m \in Nat : m = n + d - 1
  OBVIOUS
<1>2. CeilRatio(n, d) = m \div d
  BY <1>1 DEF CeilRatio
<1>3. m \div d \in Int /\ m % d \in Nat /\ m % d < d /\ m = d * (m \div d) + (m % d)
  BY Division
<1>4. PICK q \in Int, r \in Nat : q = m \div d /\ r = m % d
  BY <1>3
<1>5. PICK e \in Int : e = d * q
  BY SMT
<1> QED
  BY <1>1, <1>2, <1>3, <1>4, <1>5

\* There is only one such integer.
LEMMA CeilingIs ==
  ASSUME NEW n \in Nat, NEW d \in Nat, d > 0, NEW c \in Int, n <= d * c, d * c < n + d
  PROVE  CeilRatio(n, d) = c
<1>1. PICK q \in Int : q = CeilRatio(n, d) /\ n <= d * q /\ d * q < n + d
  BY CeilingBounds
<1>2. d * c \in Int /\ d * q \in Int /\ d * (c + 1) = d * c + d /\ d * (q + 1) = d * q + d
  BY SMT
<1>3. d * q < d * (c + 1) /\ d * c < d * (q + 1)
  BY <1>1, <1>2
<1>4. q < c + 1 /\ c < q + 1
  BY <1>3, FactorsCompare
<1> QED
  BY <1>1, <1>4

\* The scale of a quotient of safe integers exists.
LEMMA ScaleFits ==
  ASSUME NEW w \in Nat, w > 0, NEW n \in Nat, n > 0, n < PowerOfTwo[w],
         NEW d \in Nat, d > 0, d < PowerOfTwo[w]
  PROVE  /\ Scale(n, d, w) \in Nat
         /\ PowerOfTwo[w - 1] * d <= n * PowerOfTwo[Scale(n, d, w)]
         /\ n * PowerOfTwo[Scale(n, d, w)] < PowerOfTwo[w] * d
<1> PICK W \in Nat, V \in Nat : W = PowerOfTwo[w] /\ V = PowerOfTwo[w - 1] /\ W = 2 * V /\ V >= 1
  <2>1. w - 1 \in Nat /\ (w - 1) + 1 = w
    OBVIOUS
  <2> QED
    BY <2>1, PowersOfTwo, PowersGrow
<1> PICK e \in Nat, h \in Nat : e = W * d /\ h = V * d /\ e = 2 * h
  <2>1. W * d \in Nat /\ V * d \in Nat /\ W * d = 2 * (V * d)
    BY SMT
  <2> QED
    BY <2>1
<1> DEFINE T == {j \in Nat : e <= n * PowerOfTwo[j]}
<1>1. \A j \in Nat : n * PowerOfTwo[j] \in Nat /\ n * PowerOfTwo[j + 1] = 2 * (n * PowerOfTwo[j])
  <2> TAKE j \in Nat
  <2>1. PICK p \in Nat : p = PowerOfTwo[j] /\ PowerOfTwo[j + 1] = 2 * p
    BY PowersOfTwo
  <2>2. n * p \in Nat /\ n * (2 * p) = 2 * (n * p)
    BY SMT
  <2> QED
    BY <2>1, <2>2
<1>2. 2 * w \in T
  <2>1. PowerOfTwo[w + w] = W * W
    BY PowersGrow
  <2>2. W * d <= W * W /\ W * W \in Nat
    BY FactorsCompare
  <2>3. W * W <= (W * W) * n
    BY <2>2, FactorsCompare, 1 <= n, (W * W) * 1 = W * W, n * 0 = 0, SMT
  <2>4. (W * W) * n = n * (W * W)
    BY SMT
  <2>5. 2 * w = w + w /\ 2 * w \in Nat
    OBVIOUS
  <2> QED
    BY <2>1, <2>2, <2>3, <2>4, <2>5
<1>3. PICK j \in T : \A i \in T : j <= i
  BY <1>2, LeastNatural
<1>4. j # 0
  <2>1. n * 1 = n
    OBVIOUS
  <2>2. W * 1 <= W * d /\ W * 1 = W
    BY FactorsCompare
  <2> QED
    BY <2>1, <2>2, PowersOfTwo
<1>5. PICK k \in Nat : j = k + 1
  BY <1>4, j - 1 \in Nat
<1>6. k \in 0..(2 * w) /\ n * PowerOfTwo[k] < e
  BY <1>1, <1>2, <1>3, <1>5
<1>7. h <= n * PowerOfTwo[k]
  BY <1>1, <1>3, <1>5
<1>8. \E i \in 0..(2 * w) : /\ PowerOfTwo[w - 1] * d <= n * PowerOfTwo[i]
                            /\ n * PowerOfTwo[i] < PowerOfTwo[w] * d
  BY <1>6, <1>7
<1> QED
  BY <1>8 DEF Scale

\* m/d lies whole d-ths and a rest below x, by at least 0 and less than p.
Under(d, p, whole, rest, m, x) ==
  m = d * whole + rest /\ m <= d * x /\ d * x <= m + d * p - p

\* A quotient between two integers, rounded down or up.
LEMMA Between ==
  ASSUME NEW d \in Nat, d > 0, NEW p \in Nat, p > 0, NEW whole \in Int, NEW x \in Int,
         NEW rest \in Nat, rest < d, NEW m \in Int,
         Under(d, p, whole, rest, m, x)
  PROVE  /\ rest > 0 => whole + 1 <= x /\ x < whole + 1 + p
         /\ rest < p => whole <= x /\ x < whole + p
<1>1. /\ d * (whole + p) = d * whole + d * p /\ d * (x + 1) = d * x + d
      /\ d * ((whole + 1) + p) = d * whole + d + d * p
  BY Distributes
<1>2. d * whole \in Int /\ d * x \in Int /\ d * p \in Int
  BY Distributes
<1>3. /\ d * whole < d * (x + 1)
      /\ rest > 0 => d * whole < d * x
      /\ rest < p => d * x < d * (whole + p)
      /\ d * x < d * ((whole + 1) + p)
  BY <1>1, <1>2 DEF Under
<1>4. \A a, b \in Int : d * a < d * b => a < b
  BY FactorsCompare
<1>5. x + 1 \in Int /\ whole + p \in Int /\ (whole + 1) + p \in Int
  OBVIOUS
<1>6. /\ whole < x + 1
      /\ rest > 0 => whole < x
      /\ rest < p => x < whole + p
      /\ x < (whole + 1) + p
  BY <1>3, <1>4, <1>5
<1> QED
  BY <1>6

\* The ceiling of a quotient, scaled, bounds the scaled quotient.
LEMMA CeilingScales ==
  ASSUME NEW n \in Int, NEW d \in Int, NEW c \in Int, NEW p \in Nat, p > 0
  PROVE  /\ p * c \in Int /\ d * (p * c) \in Int /\ d * p \in Int
         /\ (n <= d * c /\ d * c < n + d) =>
              n * p <= d * (p * c) /\ d * (p * c) <= n * p + d * p - p
<1>1. d * c \in Int /\ p * c \in Int /\ d * (p * c) = p * (d * c) /\ (n + d) - 1 \in Int
  BY Distributes
<1>2. d * (p * c) \in Int /\ d * p \in Int
  BY <1>1, Distributes
<1>3. p * n = n * p /\ p * ((n + d) - 1) = n * p + d * p - p
  BY Distributes
<1>4. \A a, b \in Int : a <= b => p * a <= p * b
  BY FactorsCompare
<1>5. ASSUME n <= d * c, d * c < n + d
      PROVE  n * p <= d * (p * c) /\ d * (p * c) <= n * p + d * p - p
  <2>1. PICK e \in Int : e = d * c
    BY <1>1
  <2>2. n <= e /\ e <= (n + d) - 1
    BY <1>5, <2>1
  <2>3. p * n <= p * e /\ p * e <= p * ((n + d) - 1)
    BY <1>1, <1>4, <2>2
  <2>4. p * e = d * (p * c)
    BY <1>1, <2>1
  <2> QED
    BY <1>3, <2>3, <2>4
<1> QED
  BY <1>1, <1>2, <1>5

\* Rounding a scaled quotient stays within the ceiling of the quotient.
LEMMA RoundingKeepsCeiling ==
  ASSUME NEW n \in Nat, NEW d \in Nat, d > 0, NEW k \in Nat, d < 2 * PowerOfTwo[k]
  PROVE  CeilRatio(Rounded(n, d, k), PowerOfTwo[k]) = CeilRatio(n, d)
<1>1. PICK p \in Nat : p = PowerOfTwo[k] /\ p > 0
  BY PowersOfTwo, PowersGrow
<1>2. PICK m \in Nat : m = n * p
  BY Distributes
<1>3. m \div d \in Int /\ m % d \in Nat /\ m % d < d /\ m = d * (m \div d) + (m % d)
  BY Division
<1>4. PICK whole \in Int, rest \in Nat :
      whole = m \div d /\ rest = m % d /\ rest < d /\ m = d * whole + rest
  BY <1>3
<1>5. whole \in Nat
  <2>1. d * (-1) = -d /\ d * whole \in Int
    BY Distributes
  <2>2. PICK e \in Int : e = d * whole
    BY <2>1
  <2>3. -d < e
    BY <1>4, <2>2
  <2>4. \A a, b \in Int : d * a < d * b => a < b
    BY FactorsCompare
  <2>5. -1 \in Int /\ d * (-1) < d * whole
    BY <2>1, <2>2, <2>3
  <2>6. -1 < whole
    BY <2>4, <2>5
  <2> QED
    BY <2>6
<1>6. PICK c \in Int : c = CeilRatio(n, d) /\ n <= d * c /\ d * c < n + d
  BY CeilingBounds
<1>7. PICK x \in Int : x = p * c
  BY Distributes
<1>8. m <= d * x /\ d * x <= m + d * p - p
  BY <1>1, <1>2, <1>6, <1>7, CeilingScales
<1>9. /\ rest > 0 => whole + 1 <= x /\ x < whole + 1 + p
      /\ rest < p => whole <= x /\ x < whole + p
  <2>1. Under(d, p, whole, rest, m, x)
    BY <1>4, <1>8 DEF Under
  <2>2. m \in Int /\ rest < d /\ p > 0
    BY <1>1, <1>4
  <2> QED
    BY <2>1, <2>2, Between
<1>10. PICK r : r = Rounded(n, d, k)
  OBVIOUS
<1>11. \/ r = whole + 1 /\ (2 * rest > d \/ 2 * rest = d)
       \/ r = whole /\ ~(2 * rest > d)
  BY <1>1, <1>2, <1>4, <1>10 DEF Rounded
<1>12. /\ (2 * rest > d \/ 2 * rest = d) => rest > 0
       /\ ~(2 * rest > d) => rest < p
  BY <1>1
<1>13. r \in Nat /\ r <= x /\ x < r + p
  BY <1>1, <1>5, <1>9, <1>11, <1>12
<1>14. CeilRatio(r, p) = c
  <2>1. r <= p * c /\ p * c < r + p
    BY <1>7, <1>13
  <2> QED
    BY <1>1, <1>13, <2>1, CeilingIs
<1> QED
  BY <1>1, <1>6, <1>10, <1>14

\* Math.ceil of a quotient of safe integers is the exact ceiling, for doubles of
\* any width: the scale of the quotient leaves it more than half a unit above
\* the integer below.
THEOREM CeilingsAreExact == ASSUME NEW w \in Nat PROVE CeilingsExact(w)
<1> SUFFICES ASSUME NEW n \in Safe(w), NEW d \in Safe(w) \ {0, 1}
             PROVE  DoubleCeil(n, d, w) = CeilRatio(n, d)
  BY DEF CeilingsExact
<1> PICK W \in Nat : W = PowerOfTwo[w]
  BY PowersOfTwo
<1>1. n \in Nat /\ n < W /\ d \in Nat /\ d > 0 /\ d < W
  BY DEF Safe
<1>2. w > 0
  BY <1>1, PowersOfTwo
<1>3. CASE n = 0
  <2>1. CeilRatio(0, d) = 0
    <3>1. d * 0 = 0
      BY <1>1, Distributes
    <3> QED
      BY <1>1, <3>1, CeilingIs
  <2> QED
    BY <1>3, <2>1 DEF DoubleCeil
<1>4. CASE n # 0
  <2>1. PICK k \in Nat : /\ k = Scale(n, d, w)
                         /\ PowerOfTwo[w - 1] * d <= n * PowerOfTwo[k]
    BY <1>1, <1>2, <1>4, ScaleFits
  <2>2. PICK p \in Nat, V \in Nat : p = PowerOfTwo[k] /\ V = PowerOfTwo[w - 1] /\ W = 2 * V
    <3>1. w - 1 \in Nat /\ (w - 1) + 1 = w
      BY <1>2
    <3> QED
      BY <3>1, PowersOfTwo
  <2>3. d < 2 * p
    <3>1. PICK vd \in Int, np \in Int : vd = V * d /\ np = n * p /\ d * W = 2 * vd /\ n * (2 * p) = 2 * np
      <4>1. V * d \in Int /\ n * p \in Int /\ d * (2 * V) = 2 * (V * d) /\ n * (2 * p) = 2 * (n * p)
        BY <1>1, SMT
      <4> QED
        BY <2>2, <4>1
    <3>2. d * W <= n * (2 * p)
      BY <2>1, <2>2, <3>1
    <3>3. SUFFICES ASSUME 2 * p <= d PROVE FALSE
      BY <1>1
    <3>4. n * (2 * p) <= n * d
      BY <1>1, <1>4, <3>3, FactorsCompare
    <3>5. d * n < d * W
      <4>1. d * (n + 1) <= d * W
        BY <1>1, FactorsCompare
      <4>2. d * (n + 1) = d * n + d /\ d * n \in Int /\ d * W \in Int
        BY <1>1, SMT
      <4> QED
        BY <1>1, <4>1, <4>2
    <3>6. d * n = n * d /\ d * n \in Int /\ d * W \in Int /\ n * (2 * p) \in Int
      BY <1>1, SMT
    <3> QED
      BY <3>2, <3>4, <3>5, <3>6
  <2> QED
    BY <1>1, <1>4, <2>1, <2>2, <2>3, RoundingKeepsCeiling DEF DoubleCeil
<1> QED
  BY <1>3, <1>4

\* The fare computed in doubles is the exact fare whenever no step is refused,
\* for doubles wide enough to hold the denominators and any rate card:
\* quoteInitialFare and calculateFinalFare charge what the rules say, to the
\* minor unit, or nothing.
THEOREM DoubleFareIsExact ==
  ASSUME NEW w \in Nat, {MetersPerKm, SecondsPerMinute, BasisPoints} \subseteq Safe(w),
         NEW rates \in Cards, NEW meters \in Nat, NEW seconds \in Nat, NEW surge \in Nat,
         FarePasses(meters, seconds, surge, rates, w)
  PROVE  DoubleFare(meters, seconds, surge, rates, w) = Fare(meters, seconds, surge, rates)
<1>1. {MetersPerKm, SecondsPerMinute, BasisPoints} \subseteq Safe(w) \ {0, 1}
  BY DEF MetersPerKm, SecondsPerMinute, BasisPoints
<1>2. \A n \in Safe(w), d \in {MetersPerKm, SecondsPerMinute, BasisPoints} :
        DoubleCeil(n, d, w) = CeilRatio(n, d)
  BY <1>1, CeilingsAreExact DEF CeilingsExact
<1>3. DoubleSubtotal(meters, seconds, rates, w) = Subtotal(meters, seconds, rates)
  BY <1>2 DEF FarePasses, DoubleSubtotal, Subtotal
<1>4. DoubleMultiplier(Subtotal(meters, seconds, rates), rates.service, w)
        = ApplyMultiplier(Subtotal(meters, seconds, rates), rates.service)
  BY <1>2, <1>3 DEF FarePasses, DoubleMultiplier, ApplyMultiplier
<1> QED
  BY <1>2, <1>3, <1>4 DEF FarePasses, DoubleFare, DoubleMultiplier, Fare, ApplyMultiplier

\* ceilRatio rounds every fraction of a minor unit up and nothing else, whatever
\* the width of the doubles.
THEOREM FaresAlwaysRoundExactly == PurchaseSpec => []FaresRoundExactly
<1>1. CeilingsHold
  BY CeilingsAreExact, PurchaseAssumption DEF CeilingsHold
<1>2. FaresRoundExactly
  BY <1>1 DEF FaresRoundExactly
<1>3. []FaresRoundExactly
  BY <1>2, PTL
<1> QED
  BY <1>3

-------------------------------------------------------------------------------
(* Refinement: every command once *)

\* A receipt is what a commit writes.
ReceiptsShaped ==
  \A m \in Commands :
    receipt[m] = NoReceipt \/ \E body, id : receipt[m] = [body |-> body, id |-> id]

\* A step performs one command, or leaves all receipts and all rows.
LEMMA StepPerforms ==
  ASSUME PurchaseInv, LedgerInv, [PurchaseNext]_purchaseVars
  PROVE  \/ UNCHANGED receipt /\ \A op \in Operations : RowsMade(op)' = RowsMade(op)
         \/ \E r \in Calls, op \in Operations : Performs(r, op)
<1>1. ASSUME UNCHANGED attempts, DOMAIN quotes' = DOMAIN quotes, DOMAIN trips' = DOMAIN trips
      PROVE  \A op \in Operations : RowsMade(op)' = RowsMade(op)
  BY <1>1 DEF RowsMade
<1>2. ASSUME NEW r \in Calls, NEW c \in Callers, NEW k \in Keys, AskStep(r, c, k)
      PROVE  UNCHANGED <<receipt, quotes, trips, attempts>>
  BY <1>2 DEF AskStep, AskQuote, OpenTrip, OpenCapture, Taken, quoteVars
<1>3. ASSUME NEW r \in Calls, CallStep(r)
      PROVE  \/ UNCHANGED <<receipt, quotes, trips, attempts>>
             \/ \E op \in Operations : Performs(r, op)
  <2>1. CASE CommitQuote(r) /\ UNCHANGED <<trips, attempts>>
    BY <2>1, CommitQuoteMakesOne, PurchaseAssumption
  <2>2. CASE CommitTrip(r) /\ UNCHANGED attempts
    BY <2>2, CommitTripMakesOne, PurchaseAssumption
  <2>3. CASE CommitCapture(r)
    BY <2>3, CommitCaptureMakesOne, PurchaseAssumption
  <2> QED
    BY <1>3, <2>1, <2>2, <2>3 DEF CallStep, EstimateRoute, OpenQuote, Fails, quoteVars
<1>4. ASSUME OutsideStep
      PROVE  /\ UNCHANGED <<receipt, attempts>>
             /\ DOMAIN quotes' = DOMAIN quotes /\ DOMAIN trips' = DOMAIN trips
  BY <1>4 DEF OutsideStep, QuoteLapses, NewRateCard, EndTrip, CompleteTripAt, ProcessStops,
     callVars, quoteVars
<1>5. CASE UNCHANGED purchaseVars
  BY <1>1, <1>5 DEF purchaseVars, callVars, quoteVars
<1> QED
  BY <1>1, <1>2, <1>3, <1>4, <1>5 DEF PurchaseNext

LEMMA PerformingWrites ==
  ASSUME PurchaseInv, LedgerInv, NEW r \in Calls, NEW op \in Operations, Performs(r, op)
  PROVE  \E m \in Commands : \E id, row :
           /\ m[1] = op /\ receipt[m] = NoReceipt /\ Makes(op, row)
           /\ receipt' = [receipt EXCEPT ![m] = [body |-> call[r].body, id |-> id]]
           /\ RowOf(m, receipt'[m]) = <<op, row>>
<1>1. PICK id, row : /\ Committed(r, id) /\ Makes(op, row)
                     /\ row = IF op = "CAPTURE" THEN <<call[r].body.trip, id>> ELSE <<id, id>>
  BY DEF Performs
<1> PICK m : m = CommandOf(call[r])
  OBVIOUS
<1>2. m \in Commands /\ receipt[m] = NoReceipt /\ m[1] = op
  BY TransactionSawNoReceipt DEF PurchaseInv, LedgerInv, Running, CommandOf, Performs
<1>3. PICK known : known = [body |-> call[r].body, id |-> id]
  OBVIOUS
<1>4. receipt' = [receipt EXCEPT ![m] = known]
  BY <1>1, <1>3 DEF Committed
<1>5. receipt'[m] = known
  BY <1>2, <1>4 DEF LedgerInv
<1>6. RowOf(m, known) = <<op, row>>
  BY <1>1, <1>2, <1>3 DEF RowOf
<1> QED
  BY <1>1, <1>2, <1>3, <1>4, <1>5, <1>6

LEMMA ReceiptsStayShaped ==
  ASSUME PurchaseInv, LedgerInv, ReceiptsShaped, [PurchaseNext]_purchaseVars
  PROVE  ReceiptsShaped'
<1>1. CASE UNCHANGED receipt
  BY <1>1 DEF ReceiptsShaped
<1>2. ASSUME NEW r \in Calls, NEW op \in Operations, Performs(r, op) PROVE ReceiptsShaped'
  <2>1. PICK m \in Commands :
          \E id : receipt' = [receipt EXCEPT ![m] = [body |-> call[r].body, id |-> id]]
    BY <1>2, PerformingWrites
  <2> PICK id : receipt' = [receipt EXCEPT ![m] = [body |-> call[r].body, id |-> id]]
    BY <2>1
  <2>2. \A n \in Commands : receipt'[n] = IF n = m THEN [body |-> call[r].body, id |-> id] ELSE receipt[n]
    BY <2>1 DEF LedgerInv
  <2> QED
    BY <2>2 DEF ReceiptsShaped
<1> QED
  BY <1>1, <1>2, StepPerforms

\* What a request was told is the receipt of its command.
LEMMA ToldTheReceipt ==
  ASSUME LedgerInv, ReceiptsShaped, NEW r \in Calls
  PROVE  \/ receiptTold[r] = NoReceipt
         \/ \E m \in Commands : /\ receipt[m] # NoReceipt
                                /\ receiptTold[r] = [command |-> m, outcome |-> receipt[m]]
<1>1. CASE call[r].at = "done"
  <2>1. PICK m : m = CommandOf(call[r])
    OBVIOUS
  <2>2. /\ m \in Commands /\ receipt[m] # NoReceipt
        /\ receipt[m].body = call[r].body /\ receipt[m].id = call[r].answer
    BY <1>1, <2>1, IdleIsNoRequest DEF LedgerInv, CommandsHold, CallHolds
  <2>3. PICK body, id : receipt[m] = [body |-> body, id |-> id]
    BY <2>2 DEF ReceiptsShaped
  <2>4. receipt[m] = [body |-> call[r].body, id |-> call[r].answer]
    BY <2>2, <2>3
  <2>5. receiptTold[r] = [command |-> m, outcome |-> receipt[m]]
    BY <1>1, <2>1, <2>4 DEF receiptTold
  <2> QED
    BY <2>2, <2>5
<1>2. CASE call[r].at # "done"
  BY <1>2 DEF receiptTold
<1> QED
  BY <1>1, <1>2

LEMMA ToldTheReceiptNext ==
  (LedgerInv /\ ReceiptsShaped)' => \A r \in Calls : Bought!Hears(r)
<1>1. LedgerInv /\ ReceiptsShaped =>
        \A r \in Calls :
          \/ receiptTold[r] = NoReceipt
          \/ \E m \in Commands : /\ receipt[m] # NoReceipt
                                 /\ receiptTold[r] = [command |-> m, outcome |-> receipt[m]]
  BY ToldTheReceipt
<1>2. (LedgerInv /\ ReceiptsShaped =>
        \A r \in Calls :
          \/ receiptTold[r] = NoReceipt
          \/ \E m \in Commands : /\ receipt[m] # NoReceipt
                                 /\ receiptTold[r] = [command |-> m, outcome |-> receipt[m]])'
  BY <1>1, PTL
<1> QED
  BY <1>2 DEF Bought!Hears

LEMMA PurchaseStepRefines ==
  ASSUME PurchaseInv, LedgerInv, LedgerInv', ReceiptsShaped', [PurchaseNext]_purchaseVars
  PROVE  [Bought!Next]_(Bought!vars)
<1>1. Bought!Answers
  <2>1. DOMAIN receiptTold' = Calls
    BY DEF receiptTold
  <2> QED
    BY <2>1, ToldTheReceiptNext DEF Bought!Answers
<1>2. CASE UNCHANGED receipt /\ \A op \in Operations : RowsMade(op)' = RowsMade(op)
  <2>1. rowsMade' = rowsMade
    BY <1>2 DEF rowsMade
  <2> QED
    BY <1>1, <1>2, <2>1 DEF Bought!Next
<1>3. ASSUME NEW r \in Calls, NEW op \in Operations, Performs(r, op)
      PROVE  Bought!Next
  <2> DEFINE Written(m, id, row) ==
               /\ m[1] = op /\ receipt[m] = NoReceipt /\ Makes(op, row)
               /\ receipt' = [receipt EXCEPT ![m] = [body |-> call[r].body, id |-> id]]
               /\ RowOf(m, receipt'[m]) = <<op, row>>
  <2> PICK m \in Commands : \E id, row : Written(m, id, row)
    BY <1>3, PerformingWrites
  <2>1. PICK id, row : Written(m, id, row)
    OBVIOUS
  <2>2. receipt'[m] = [body |-> call[r].body, id |-> id]
    BY <2>1 DEF LedgerInv
  <2>3. receipt'[m] # NoReceipt
    BY <2>2 DEF NoReceipt
  <2>4. receipt' = [receipt EXCEPT ![m] = receipt'[m]]
    BY <2>1, <2>2
  <2>5. \A w : w \in rowsMade <=> \E o \in Operations : \E x \in RowsMade(o) : w = <<o, x>>
    BY DEF rowsMade
  <2>6. \A w : w \in rowsMade' <=> \E o \in Operations : \E x \in RowsMade(o)' : w = <<o, x>>
    BY DEF rowsMade
  <2>7. <<op, row>> \notin rowsMade
    BY <2>1, <2>5 DEF Makes
  <2>8. \A w : w \in rowsMade' <=> w \in rowsMade \/ w = <<op, row>>
    <3>1. \A o \in Operations : \A x : x \in RowsMade(o)' <=> x \in RowsMade(o) \/ (o = op /\ x = row)
      BY <2>1 DEF Makes
    <3> QED
      BY <2>5, <2>6, <3>1
  <2>9. rowsMade' = rowsMade \cup {RowOf(m, receipt'[m])}
    BY <2>1, <2>8
  <2>10. Bought!Perform(m)
    BY <2>1, <2>3, <2>4, <2>7, <2>9 DEF Bought!Perform
  <2> QED
    BY <1>1, <2>10 DEF Bought!Next
<1> QED
  BY <1>2, <1>3, StepPerforms

LEMMA PurchaseInitRefines == PurchaseInit => Bought!Init
<1> SUFFICES ASSUME PurchaseInit PROVE Bought!Init
  OBVIOUS
<1>1. /\ quotes = <<>> /\ trips = <<>>
      /\ call = [r \in Calls |-> Idle] /\ receipt = [m \in Commands |-> NoReceipt]
  BY DEF PurchaseInit, CallsInit, QuotesInit, TripsInit
<1>2. \A op \in Operations : \A w : w \notin RowsMade(op)
  BY <1>1, RowsOneByOneAlways, PurchaseAssumption DEF RowsOneByOne
<1>3. rowsMade = {}
  BY <1>2 DEF rowsMade
<1>4. receiptTold = [r \in Calls |-> NoReceipt]
  BY <1>1, IdleIsNoRequest DEF receiptTold
<1> QED
  BY <1>1, <1>3, <1>4 DEF Bought!Init

\* Quotes, Trips and payments implement commands that are performed once: with
\* joined promises, receipts looked for twice, locks, retries and a process that
\* stops between COMMIT and answer, for any number of Customers, keys and requests.
THEOREM PurchaseImplementsOnceOnly == PurchaseSpec => BuysOnceOnly
<1>1. PurchaseInit => ReceiptsShaped
  BY DEF PurchaseInit, CallsInit, ReceiptsShaped
<1>2. PurchaseInv /\ LedgerInv /\ ReceiptsShaped /\ [PurchaseNext]_purchaseVars => ReceiptsShaped'
  BY ReceiptsStayShaped
<1>3. PurchaseInv /\ LedgerInv /\ LedgerInv' /\ ReceiptsShaped' /\ [PurchaseNext]_purchaseVars
        => [Bought!Next]_(Bought!vars)
  BY PurchaseStepRefines
<1> QED
  BY <1>1, <1>2, <1>3, PurchaseInitRefines, LedgerAlways, PTL
     DEF PurchaseSpec, BuysOnceOnly, Bought!Spec

===============================================================================
