------------------------------- MODULE TripFeed -------------------------------
(***************************************************************************)
(* The connections of realtime.gateway.ts over OutboxRelay, and the screen *)
(* of each: subscribe, broadcast and revokeTripSubscription, and the merge *)
(* of App.tsx.  A connection here has authenticated; one that closes, or   *)
(* whose revalidation fails, opens again and keeps its screen.             *)
(***************************************************************************)
EXTENDS OutboxRelay, FiniteSetsExt

CONSTANTS
  Customers,          \* connections of the Customer who owns the Trips
  MaxSubscriptions    \* maximumSubscriptionsPerConnection; 20 in the code

\* Every Driver is one connection.
Clients == Customers \cup Drivers

ASSUME FeedAssumption ==
  /\ Customers \cap (Drivers \cup {NoDriver}) = {}
  /\ MaxSubscriptions \in Nat

VARIABLES
  following,   \* state.tripIds of each connection
  reads,       \* <<t, v>>: the snapshot read by subscribe and not yet added
  screen       \* the version of each Trip a client shows

feedVars == <<following, reads, screen>>
tripFeedVars == <<now, open, version, log, commits, started, cursor, polls,
                  relayed, following, reads, screen>>

FeedTypeOK ==
  /\ RelayTypeOK
  /\ following \in [Clients -> SUBSET Trips]
  /\ reads \in [Clients -> SUBSET (Trips \X Nat)]
  /\ screen \in [Clients -> [Trips -> Nat]]
  /\ \A c \in Clients : Cardinality(following[c]) <= MaxSubscriptions

FeedInit ==
  /\ RelayInit
  /\ following = [c \in Clients |-> {}]
  /\ reads = [c \in Clients |-> {}]
  /\ screen = [c \in Clients |-> [t \in Trips |-> 0]]

-------------------------------------------------------------------------------
(* Subscribing *)

\* The WHERE of findAuthorizedTripSnapshot: the owner, or a Driver with a
\* pending offer or an active assignment.
MayFollow(c, t) == c \in Customers \/ c \in Engaged(t)

\* Mutant of Merged: the screen takes what came last.
Overwritten(shown, versions) == IF versions = {} THEN shown ELSE Max(versions)

\* mergeRealtimeTrip and mergeRealtimeTripEvent: an older version is dropped.
Merged(shown, versions) == Max(versions \cup {shown})

\* subscribe reads the snapshot, one Trip at a time, and then awaits.  A
\* connection has one request under way (bound): the PWA sends no second.
ReadSnapshot(c, t) ==
  /\ reads[c] = {}
  /\ MayFollow(c, t)
  /\ reads' = [reads EXCEPT ![c] = @ \cup {<<t, version[t]>>}]
  /\ UNCHANGED <<following, screen>>

\* Mutant of HasCapacity: the limit counts from zero.
HasCapacityAtLimit(c) == Cardinality(following[c]) <= MaxSubscriptions

\* hasSubscriptionCapacity.
HasCapacity(c) == Cardinality(following[c]) < MaxSubscriptions

\* subscribe resumes: it adds the subscription and sends the snapshot, or
\* refuses for want of capacity.  Nothing is read again in between.
Subscribe(c, t, v) ==
  LET granted == t \in following[c] \/ HasCapacity(c)
  IN /\ <<t, v>> \in reads[c]
     /\ reads' = [reads EXCEPT ![c] = @ \ {<<t, v>>}]
     /\ \/ /\ granted
           /\ following' = [following EXCEPT ![c] = @ \cup {t}]
           /\ screen' = [screen EXCEPT ![c][t] = Merged(@, {v})]
        \/ ~granted /\ UNCHANGED <<following, screen>>

\* The socket closes.  A read still under way adds to a discarded state.
Disconnect(c) ==
  /\ following[c] # {} \/ reads[c] # {}
  /\ following' = [following EXCEPT ![c] = {}]
  /\ reads' = [reads EXCEPT ![c] = {}]
  /\ UNCHANGED screen

-------------------------------------------------------------------------------
(* Broadcasting a page *)

\* Mutant of SentBefore: the page in the order of the query.
SentInQueryOrder(q, r) == q.trip = r.trip /\ Precedes(q, r)

\* orderAggregateEvents: the rows of one Trip go out by aggregate version.
SentBefore(q, r) ==
  /\ q.trip = r.trip
  /\ q.version < r.version \/ (q.version = r.version /\ Precedes(q, r))

\* revokeTripSubscription after row r: everybody at a terminal event, the
\* named Driver at dispatch.offer.rejected and .expired.
Revokes(r, c) == r.kind = "final" \/ (r.kind = "dropped" /\ r.driver = c)

\* Mutant of Reaches: one row of a Trip per page is enough.
ReachesOnce(r, c, page) ==
  /\ r.trip \in following[c]
  /\ \A q \in page : ~SentBefore(q, r)

\* broadcast: c is sent row r of the page unless it does not follow the Trip,
\* or a row sent before has ended the subscription.
Reaches(r, c, page) ==
  /\ r.trip \in following[c]
  /\ \A q \in page : SentBefore(q, r) => ~Revokes(q, c)

\* Only these events carry the state and version the screen merges.
CarriesState(r) == r.kind \in {"moved", "final"}

Broadcast(page) ==
  /\ following' = [c \in Clients |->
       following[c] \ {r.trip : r \in {q \in page : Revokes(q, c)}}]
  /\ screen' = [c \in Clients |-> [t \in Trips |->
       Merged(screen[c][t],
              {r.version : r \in {q \in page :
                 q.trip = t /\ CarriesState(q) /\ Reaches(q, c, page)}})]]
  /\ UNCHANGED reads

-------------------------------------------------------------------------------

\* One step of poll p, with what the answer does to the connections.
Poll(p) ==
  \/ (Ask(p) \/ Answer(p) \/ PollFails(p)) /\ UNCHANGED feedVars
  \/ Relay(p) /\ Broadcast(polls[p].page)

\* The connections are gone with the process.
RestartFeed ==
  /\ Restart
  /\ following' = [c \in Clients |-> {}]
  /\ reads' = [c \in Clients |-> {}]
  /\ UNCHANGED screen

\* A command advances a Trip by one version, or by two and ends it.
MaxVersion == LastTick + 1

FeedNext ==
  \/ Command /\ UNCHANGED <<pollVars, feedVars>>
  \/ /\ UNCHANGED dbVars
     /\ RestartFeed \/ \E p \in Polls : Poll(p)
  \/ /\ UNCHANGED relayVars
     /\ \E c \in Clients, t \in Trips :
          \/ ReadSnapshot(c, t)
          \/ \E v \in 0..MaxVersion : Subscribe(c, t, v)
          \/ Disconnect(c)

FeedSpec == FeedInit /\ [][FeedNext]_tripFeedVars

\* The 250 ms timer keeps asking, a query does not fail every time, and its
\* answer arrives.
Asks(p) == Ask(p) /\ UNCHANGED <<dbVars, feedVars>>
Answers(p) == Answer(p) /\ UNCHANGED <<dbVars, feedVars>>
PageArrives(p) == Relay(p) /\ Broadcast(polls[p].page) /\ UNCHANGED dbVars

FairFeedSpec ==
  /\ FeedSpec
  /\ \A p \in Polls : /\ WF_tripFeedVars(Asks(p))
                      /\ SF_tripFeedVars(Answers(p))
                      /\ WF_tripFeedVars(PageArrives(p))

-------------------------------------------------------------------------------
(* What a client can rely on *)

\* A Customer following a Trip is sent every row of it that a page about to
\* be relayed holds: the row that ends the subscription goes out last,
\* whatever the UUIDs of its transaction.
PagesArriveWhole ==
  \A p \in Polls : \A c \in Customers : \A r \in polls[p].page :
    r.trip \in following[c] => Reaches(r, c, polls[p].page)

\* Overlapping polls, cursors set back, pages sent again, late snapshots and
\* reconnections never take a screen back to an older version.
ScreensNeverGoBack ==
  [][\A c \in Clients, t \in Trips : screen'[c][t] >= screen[c][t]]_tripFeedVars

\* While a Customer follows a Trip, each row that carries its state, was not
\* relayed yet and is ahead of the cursor will show, unless it is overtaken:
\* overlapping polls, failed ones and full pages only delay it.
RowsReachScreens ==
  \A c \in Customers, t \in Trips, v \in 1..MaxVersion :
    LET awaited == {r \in log \ relayed :
                      /\ r.trip = t /\ r.version = v /\ CarriesState(r)
                      /\ Follows(r, cursor) /\ ~Overtaken(r)}
    IN (t \in following[c] /\ awaited # {}) ~>
         \/ screen[c][t] >= v
         \/ t \notin following[c]
         \/ \E r \in log : r.trip = t /\ r.version = v /\ Overtaken(r)

===============================================================================
