----------------------------- MODULE OutboxRelay -----------------------------
(***************************************************************************)
(* The Trip outbox and the poller that relays it: trip.outbox_events,      *)
(* listOutboxAfter of realtime.repository.ts and relayOutbox of            *)
(* realtime.gateway.ts.  (delivery.outbox_events is relayed by the second  *)
(* half of relayOutbox in the same way, with a cursor of its own.)         *)
(*                                                                         *)
(* A row is stamped with now(), the time its transaction began, and        *)
(* becomes visible when that transaction commits.  The poller pages        *)
(* through the rows by (occurred_at, id) and keeps a cursor in memory.     *)
(* setInterval does not wait for the poll before, so polls may overlap.    *)
(***************************************************************************)
EXTENDS Naturals, FiniteSets

CONSTANTS
  Trips,
  Drivers,          \* the Drivers a Trip may be offered to
  NoDriver,
  Polls,            \* polls that may be in flight at the same time
  PageLimit,        \* LIMIT of listOutboxAfter; 100 in the code
  TicksPerMs,       \* database clock ticks per millisecond of a JS Date
  LastTick          \* bound: transactions begun, one tick each

ASSUME RelayAssumption ==
  /\ NoDriver \notin Drivers
  /\ PageLimit \in Nat \ {0}
  /\ TicksPerMs \in Nat \ {0}
  /\ LastTick \in Nat

VARIABLES
  now,        \* the database's clock
  open,       \* <<t, at>>: a command on Trip t began its transaction at tick at
  version,    \* trips.version
  log,        \* the committed rows of trip.outbox_events
  commits,    \* history: how many transactions have committed rows
  started,    \* the tick the process last started at
  cursor,     \* this.cursor of the gateway
  polls,      \* each poll: not running, query sent, or page returned
  relayed     \* history: the rows some poll has broadcast

dbVars == <<now, open, version, log, commits>>
pollVars == <<started, cursor, polls, relayed>>
relayVars == <<now, open, version, log, commits, started, cursor, polls, relayed>>

\* "moved" stands for the events whose payload carries state and version
\* and that do not end the Trip; "offered" for dispatch.offer.created and
\* .reassigned, "dropped" for .rejected and .expired, which name a Driver;
\* "final" for the events of terminalTripEventTypes.
Kinds == {"moved", "offered", "dropped", "final"}

\* id orders the rows of one transaction as random UUIDs do, in any way;
\* commit is the place of its transaction in the order of commits (history).
RowType == [trip : Trips, version : Nat, kind : Kinds,
            driver : Drivers \cup {NoDriver}, at : Nat, id : 1..2, commit : Nat]
Cursors == [at : Nat, id : 0..2]

NotPolling == [phase |-> "idle", from |-> [at |-> 0, id |-> 0], page |-> {}]

RelayTypeOK ==
  /\ now \in Nat /\ started \in Nat
  /\ open \subseteq Trips \X Nat
  /\ version \in [Trips -> Nat]
  /\ log \subseteq RowType
  /\ commits \in Nat
  /\ cursor \in Cursors
  /\ polls \in [Polls -> [phase : {"idle", "asked", "answered"},
                          from : Cursors, page : SUBSET RowType]]
  /\ relayed \subseteq log

\* Mutant of Truncated: a cursor rounded up to the next millisecond.
RoundedUp(tick) == tick + TicksPerMs - (tick % TicksPerMs)

\* A timestamptz read into a JS Date: what is below a millisecond is cut off.
Truncated(tick) == tick - (tick % TicksPerMs)

\* The field initialiser of cursor: new Date() and the zero UUID.
CursorAtStart(tick) == [at |-> Truncated(tick), id |-> 0]

\* Trips as createTrip leaves them, their first row relayed long ago.
RelayInit ==
  /\ now = 0 /\ started = 0
  /\ open = {}
  /\ version = [t \in Trips |-> 0]
  /\ log = {}
  /\ commits = 0
  /\ cursor = CursorAtStart(0)
  /\ polls = [p \in Polls |-> NotPolling]
  /\ relayed = {}

-------------------------------------------------------------------------------
(* Commands, as far as the outbox can tell them apart *)

Ended(t) == \E r \in log : r.trip = t /\ r.kind = "final"

\* Drivers whose offer or assignment on t is open, and Drivers never asked.
Engaged(t) ==
  {d \in Drivers :
     /\ ~Ended(t)
     /\ \E r \in log : r.trip = t /\ r.kind = "offered" /\ r.driver = d
     /\ ~\E r \in log : r.trip = t /\ r.kind = "dropped" /\ r.driver = d}
Unasked(t) ==
  {d \in Drivers : ~\E r \in log : r.trip = t /\ r.kind = "offered" /\ r.driver = d}

\* The rows <<version, kind, driver>> one command may publish on t: a move
\* or an end; matching, with an offer or without a candidate; an offer
\* refused or expired, with a successor or without.
Publications(t) ==
  LET v == version[t] + 1
      moved == <<v, "moved", NoDriver>>
      ended == <<v + 1, "final", NoDriver>>
  IN {{moved}, {<<v, "final", NoDriver>>}, {moved, ended}}
     \cup {{moved, <<v, "offered", d>>} : d \in Unasked(t)}
     \cup {{<<v, "dropped", d>>, ended} : d \in Engaged(t)}
     \cup {{<<v, "dropped", d>>, <<v, "offered", e>>} : d \in Engaged(t), e \in Unasked(t)}

\* BEGIN.  Commands on one Trip then queue for its row in any order.
Begin(t) ==
  /\ now < LastTick
  /\ now' = now + 1
  /\ open' = open \cup {<<t, now + 1>>}
  /\ UNCHANGED <<version, log, commits>>

\* COMMIT: the rows appear at once, stamped with the time of BEGIN.
Commit(t, at) ==
  /\ <<t, at>> \in open
  /\ ~Ended(t)
  /\ open' = open \ {<<t, at>>}
  /\ commits' = commits + 1
  /\ \E rows \in Publications(t), id \in [Kinds -> 1..2] :
       /\ \A x, y \in rows : id[x[2]] = id[y[2]] => x = y
       /\ log' = log \cup
            {[trip |-> t, version |-> x[1], kind |-> x[2], driver |-> x[3],
              at |-> at, id |-> id[x[2]], commit |-> commits + 1] : x \in rows}
       /\ \E x \in rows : /\ \A y \in rows : y[1] <= x[1]
                          /\ version' = [version EXCEPT ![t] = x[1]]
  /\ UNCHANGED now

\* ROLLBACK: the command was refused, failed or only repeated a receipt.
Rollback(t, at) ==
  /\ <<t, at>> \in open
  /\ open' = open \ {<<t, at>>}
  /\ UNCHANGED <<now, version, log, commits>>

-------------------------------------------------------------------------------
(* The poller *)

\* Row order of the query, and rows that follow a cursor in it.
Precedes(q, r) == q.at < r.at \/ (q.at = r.at /\ q.id < r.id)
Follows(r, c) == c.at < r.at \/ (c.at = r.at /\ c.id < r.id)

\* The result of listOutboxAfter: the first PageLimit rows after the cursor.
IsPage(page, from) ==
  LET visible == {r \in log : Follows(r, from)} IN
  /\ page \subseteq visible
  /\ \A r \in page : \A q \in visible : Precedes(q, r) => q \in page
  /\ Cardinality(page) <= PageLimit
  /\ page # visible => Cardinality(page) = PageLimit

\* The timer fires: the query is sent with the cursor of this moment.
Ask(p) ==
  /\ polls[p].phase = "idle"
  /\ polls' = [polls EXCEPT ![p] = [phase |-> "asked", from |-> cursor, page |-> {}]]
  /\ UNCHANGED <<started, cursor, relayed>>

\* The database evaluates the query on what is committed by then.
Answer(p) ==
  /\ polls[p].phase = "asked"
  /\ \E page \in SUBSET log :
       /\ IsPage(page, polls[p].from)
       /\ polls' = [polls EXCEPT ![p].phase = "answered", ![p].page = page]
  /\ UNCHANGED <<started, cursor, relayed>>

\* The answer reaches the gateway: without another await it sets the cursor
\* to the last row, or back to the one it asked with, and broadcasts.
Relay(p) ==
  LET page == polls[p].page IN
  /\ polls[p].phase = "answered"
  /\ \/ /\ page = {}
        /\ cursor' = polls[p].from
     \/ \E last \in page :
          /\ \A r \in page : ~Precedes(last, r)
          /\ cursor' = [at |-> Truncated(last.at), id |-> last.id]
  /\ relayed' = relayed \cup page
  /\ polls' = [polls EXCEPT ![p] = NotPolling]
  /\ UNCHANGED started

\* The query fails: the error is swallowed and the cursor stays.
PollFails(p) ==
  /\ polls[p].phase = "asked"
  /\ polls' = [polls EXCEPT ![p] = NotPolling]
  /\ UNCHANGED <<started, cursor, relayed>>

\* The process restarts, once (bound): polls and cursor are gone and the new
\* cursor is the time of the start.  Transactions whose COMMIT was already
\* sent may still succeed.
Restart ==
  /\ started = 0 /\ now > 0
  /\ started' = now
  /\ cursor' = CursorAtStart(now)
  /\ polls' = [p \in Polls |-> NotPolling]
  /\ UNCHANGED relayed

-------------------------------------------------------------------------------

Command ==
  \/ \E t \in Trips : Begin(t)
  \/ \E t \in Trips, at \in 1..LastTick : Commit(t, at) \/ Rollback(t, at)

RelayNext ==
  \/ Command /\ UNCHANGED pollVars
  \/ /\ UNCHANGED dbVars
     /\ \/ \E p \in Polls : Ask(p) \/ Answer(p) \/ Relay(p) \/ PollFails(p)
        \/ Restart

RelaySpec == RelayInit /\ [][RelayNext]_relayVars

-------------------------------------------------------------------------------
(* What the relay must guarantee *)

\* A row stamped later was committed and relayed before row r committed.
Overtaken(r) == \E q \in relayed : q.at > r.at /\ q.commit < r.commit

\* However polls overlap, fail or fill their page, the cursor passes a row
\* of this process's time only by relaying it, unless the row committed after
\* a row with a later stamp had already been relayed.
PassedOnlyIfOvertaken ==
  \A r \in log \ relayed :
    r.at > started => Follows(r, cursor) \/ Overtaken(r)

\* docs/api/realtime.md says committed rows are relayed: no committed row of
\* this process's time is left behind the cursor.
NothingLeftBehind ==
  \A r \in log \ relayed : r.at > started => Follows(r, cursor)

===============================================================================
