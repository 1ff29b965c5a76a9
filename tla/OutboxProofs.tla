----------------------------- MODULE OutboxProofs -----------------------------
(***************************************************************************)
(* The cursor passes a row only by relaying it or because the row was      *)
(* overtaken; a page reaches the Customers of its Trips whole, no screen   *)
(* goes back, and no connection follows more Trips than it may: proved for *)
(* any number of Trips, Drivers, Customers and overlapping polls, any page *)
(* limit and any clock resolution.                                         *)
(***************************************************************************)
EXTENDS TripFeed, Integers, TLAPS, FiniteSetTheorems

(* The inductive invariant *)

Positions == [at : Int, id : Int]

\* Stamps: a transaction has a tick of its own, not after now.
StampsAgree ==
  /\ \A r \in log : r.at \in Int /\ r.at <= now /\ r.id \in Int
  /\ \A x \in open : x[2] \in Int /\ x[2] <= now
  /\ \A x \in open : \A r \in log : r.at # x[2]
  /\ \A x, y \in open : x[2] = y[2] => x = y

\* Rows: (at, id) identifies a row, and commits are counted.
RowsAgree ==
  /\ \A r \in log : r.commit \in Nat /\ r.commit <= commits
  /\ \A q, r \in log : (q.at = r.at /\ q.id = r.id) => q = r

\* Everything of this process's time that c has passed was relayed or overtaken.
PassedFairly(c) ==
  \A r \in log \ relayed : r.at > started => Follows(r, c) \/ Overtaken(r)

\* c stands at the start of the process or not beyond a relayed row.
Backed(c) == c.at <= started \/ \E q \in relayed : c.at <= q.at

\* A row missing from the page of a poll, though it belongs before one of the
\* page's rows, committed after that row and has an earlier stamp.
PageComplete(p) ==
  \A q \in polls[p].page : \A r \in log \ polls[p].page :
    (Follows(r, polls[p].from) /\ Precedes(r, q)) =>
      r.at < q.at /\ r.commit > q.commit

PollAgrees(p) ==
  polls[p].phase # "idle" =>
    /\ PassedFairly(polls[p].from)
    /\ Backed(polls[p].from)
    /\ PageComplete(p)

CursorAgrees == cursor \in Positions /\ PassedFairly(cursor) /\ Backed(cursor)

RelayInv ==
  /\ now \in Nat /\ started \in Nat /\ commits \in Nat
  /\ relayed \subseteq log
  /\ polls \in [Polls -> [phase : {"idle", "asked", "answered"}, from : Positions,
                          page : SUBSET log]]
  /\ StampsAgree
  /\ RowsAgree
  /\ CursorAgrees
  /\ \A p \in Polls : PollAgrees(p)
-------------------------------------------------------------------------------
(* Truncation never moves a stamp forward. *)

LEMMA TruncatedFact ==
  ASSUME NEW tick \in Int
  PROVE  Truncated(tick) \in Int /\ Truncated(tick) <= tick
  BY RelayAssumption, SMT DEF Truncated

LEMMA InvInit == RelayInit => RelayInv
<1> SUFFICES ASSUME RelayInit PROVE RelayInv
  OBVIOUS
<1>1. cursor \in Positions /\ cursor.at <= 0
  BY TruncatedFact DEF RelayInit, CursorAtStart, Positions
<1>2. polls \in [Polls -> [phase : {"idle", "asked", "answered"}, from : Positions,
                          page : SUBSET log]]
  BY DEF RelayInit, NotPolling, Positions
<1>3. CursorAgrees
  BY <1>1 DEF RelayInit, CursorAgrees, PassedFairly, Backed
<1>4. \A p \in Polls : PollAgrees(p)
  BY DEF RelayInit, NotPolling, PollAgrees
<1> QED
  BY <1>2, <1>3, <1>4 DEF RelayInit, RelayInv, StampsAgree, RowsAgree

-------------------------------------------------------------------------------
(* Commands *)

LEMMA BeginKeepsInv ==
  ASSUME RelayInv, NEW t \in Trips, Begin(t), UNCHANGED pollVars
  PROVE  RelayInv'
<1> USE DEF RelayInv
<1>1. StampsAgree'
  BY DEF StampsAgree, Begin
<1>2. RowsAgree' /\ CursorAgrees'
  BY DEF RowsAgree, CursorAgrees, PassedFairly, Backed, Overtaken, Follows, Begin, pollVars
<1>3. \A p \in Polls : PollAgrees(p)'
  BY DEF PollAgrees, PassedFairly, Backed, PageComplete, Overtaken, Follows, Precedes,
         Begin, pollVars
<1> QED
  BY <1>1, <1>2, <1>3 DEF Begin, pollVars

LEMMA RollbackKeepsInv ==
  ASSUME RelayInv, NEW t \in Trips, NEW at \in 1..LastTick, Rollback(t, at),
         UNCHANGED pollVars
  PROVE  RelayInv'
<1> USE DEF RelayInv
<1>1. StampsAgree'
  BY DEF StampsAgree, Rollback
<1>2. RowsAgree' /\ CursorAgrees'
  BY DEF RowsAgree, CursorAgrees, PassedFairly, Backed, Overtaken, Follows, Rollback, pollVars
<1>3. \A p \in Polls : PollAgrees(p)'
  BY DEF PollAgrees, PassedFairly, Backed, PageComplete, Overtaken, Follows, Precedes,
         Rollback, pollVars
<1> QED
  BY <1>1, <1>2, <1>3 DEF Rollback, pollVars

\* What Commit adds to the log: rows with the stamp of the transaction, the
\* next place in the order of commits and identifiers of their own.
LEMMA CommitAdds ==
  ASSUME NEW t \in Trips, NEW at \in 1..LastTick, Commit(t, at)
  PROVE  \E new : /\ log' = log \cup new
                  /\ \A r \in new : /\ r.at = at /\ r.id \in 1..2
                                    /\ r.commit = commits + 1
                  /\ \A q, r \in new : q.id = r.id => q = r
<1>1. PICK rows \in Publications(t), id \in [Kinds -> 1..2] :
        /\ \A x, y \in rows : id[x[2]] = id[y[2]] => x = y
        /\ log' = log \cup
             {[trip |-> t, version |-> x[1], kind |-> x[2], driver |-> x[3],
               at |-> at, id |-> id[x[2]], commit |-> commits + 1] : x \in rows}
  BY DEF Commit
<1> DEFINE Row(x) == [trip |-> t, version |-> x[1], kind |-> x[2], driver |-> x[3],
                      at |-> at, id |-> id[x[2]], commit |-> commits + 1]
           new == {Row(x) : x \in rows}
<1>2. \A x \in rows : x[2] \in Kinds
  BY DEF Publications, Kinds
<1>3. \A r \in new : r.at = at /\ r.id \in 1..2 /\ r.commit = commits + 1
  BY <1>2
<1>4. \A q, r \in new : q.id = r.id => q = r
  <2> SUFFICES ASSUME NEW x \in rows, NEW y \in rows, Row(x).id = Row(y).id
               PROVE  Row(x) = Row(y)
    OBVIOUS
  <2>1. x = y
    BY <1>1
  <2> QED
    BY <2>1
<1> QED
  BY <1>1, <1>3, <1>4

LEMMA CommitKeepsInv ==
  ASSUME RelayInv, NEW t \in Trips, NEW at \in 1..LastTick, Commit(t, at),
         UNCHANGED pollVars
  PROVE  RelayInv'
<1>1. PICK new : /\ log' = log \cup new
                 /\ \A r \in new : r.at = at /\ r.id \in 1..2 /\ r.commit = commits + 1
                 /\ \A q, r \in new : q.id = r.id => q = r
  BY CommitAdds
<1>2. /\ <<t, at>> \in open /\ open' = open \ {<<t, at>>}
      /\ now' = now /\ commits' = commits + 1 /\ at \in Int
  BY RelayAssumption DEF Commit
<1>3. /\ started' = started /\ cursor' = cursor
      /\ polls' = polls /\ relayed' = relayed
  BY DEF pollVars
<1>4. /\ at <= now
      /\ \A r \in log : r.at # at /\ r.at \in Int
      /\ \A x \in open' : x[2] # at
  BY <1>2 DEF RelayInv, StampsAgree
<1>5. StampsAgree'
  BY <1>1, <1>2, <1>4 DEF RelayInv, StampsAgree
<1>6. RowsAgree'
  BY <1>1, <1>2, <1>4 DEF RelayInv, RowsAgree
<1>7. ASSUME NEW c \in Positions, PassedFairly(c), Backed(c)
      PROVE  PassedFairly(c)' /\ Backed(c)'
  <2>1. Backed(c)'
    BY <1>3, <1>7 DEF Backed
  <2>2. ASSUME NEW r \in new, r.at > started, ~Follows(r, c)
        PROVE  Overtaken(r)'
    <3>1. r.at = at /\ c.at \in Int /\ at <= c.at
      BY <1>1, <1>2, <2>2 DEF Follows, Positions
    <3>2. started \in Int /\ relayed \subseteq log
      BY DEF RelayInv
    <3>3. PICK q \in relayed : c.at <= q.at
      BY <1>2, <1>7, <2>2, <3>1, <3>2 DEF Backed
    <3>4. q.at \in Int /\ q.at # at /\ q.commit \in Nat /\ q.commit <= commits
      BY <1>4, <3>2 DEF RelayInv, RowsAgree
    <3>5. q.at > r.at
      BY <1>2, <3>1, <3>3, <3>4
    <3>6. q.commit < r.commit
      BY <1>1, <2>2, <3>4 DEF RelayInv
    <3> QED
      BY <1>3, <3>5, <3>6 DEF Overtaken
  <2>3. PassedFairly(c)'
    BY <1>1, <1>3, <1>7, <2>2 DEF PassedFairly, Follows, Overtaken
  <2> QED
    BY <2>1, <2>3
<1>8. CursorAgrees'
  BY <1>3, <1>7 DEF RelayInv, CursorAgrees, PassedFairly, Backed, Follows, Overtaken
<1>9. ASSUME NEW p \in Polls, PageComplete(p)
      PROVE  PageComplete(p)'
  <2> SUFFICES ASSUME NEW q \in polls[p].page, NEW r \in new,
                      Precedes(r, q)
               PROVE  r.at < q.at /\ r.commit > q.commit
    BY <1>1, <1>3, <1>9 DEF PageComplete, Follows, Precedes
  <2>1. q \in log
    BY DEF RelayInv
  <2>2. q.at # at /\ q.at \in Int /\ q.commit \in Nat /\ q.commit <= commits
    BY <1>4, <2>1 DEF RelayInv, RowsAgree
  <2> QED
    BY <1>1, <2>2 DEF Precedes, RelayInv
<1>10. \A p \in Polls : PollAgrees(p)'
  <2> SUFFICES ASSUME NEW p \in Polls, polls[p].phase # "idle"
               PROVE  PassedFairly(polls[p].from)' /\ Backed(polls[p].from)' /\ PageComplete(p)'
    BY <1>3 DEF PollAgrees
  <2>1. /\ polls[p].from \in Positions
        /\ PassedFairly(polls[p].from) /\ Backed(polls[p].from) /\ PageComplete(p)
    BY DEF RelayInv, PollAgrees
  <2>2. PageComplete(p)'
    BY <1>9, <2>1
  <2> DEFINE c == polls[p].from
  <2>3. c \in Positions /\ PassedFairly(c) /\ Backed(c)
    BY <2>1
  <2>4. PassedFairly(c)' /\ Backed(c)'
    BY <1>3, <1>7, <2>3 DEF PassedFairly, Backed, Follows, Overtaken
  <2> QED
    BY <2>2, <2>4
<1> QED
  BY <1>1, <1>2, <1>3, <1>5, <1>6, <1>8, <1>10 DEF RelayInv

-------------------------------------------------------------------------------
(* The poller *)

\* No poll step writes the database's tables.
LEMMA TablesKept ==
  ASSUME RelayInv, UNCHANGED dbVars
  PROVE  StampsAgree' /\ RowsAgree' /\ now' \in Nat /\ commits' \in Nat /\ log' = log
  BY DEF RelayInv, StampsAgree, RowsAgree, dbVars

\* A poll that the step leaves alone, while cursor and history may change.
LEMMA OtherPoll ==
  ASSUME RelayInv, UNCHANGED dbVars, started' = started, relayed \subseteq relayed',
         NEW o \in Polls, polls'[o] = polls[o]
  PROVE  PollAgrees(o)'
<1>1. /\ polls'[o].phase = polls[o].phase /\ polls'[o].from = polls[o].from
      /\ polls'[o].page = polls[o].page /\ log' = log
  BY DEF dbVars
<1>2. PollAgrees(o)
  BY DEF RelayInv
<1> QED
  BY <1>1, <1>2 DEF PollAgrees, PassedFairly, Backed, PageComplete, Overtaken, Follows, Precedes

LEMMA AskKeepsInv ==
  ASSUME RelayInv, UNCHANGED dbVars, NEW p \in Polls, Ask(p)
  PROVE  RelayInv'
<1>1. /\ started' = started /\ cursor' = cursor /\ relayed' = relayed /\ log' = log
      /\ polls' = [polls EXCEPT ![p] = [phase |-> "asked", from |-> cursor, page |-> {}]]
  BY DEF Ask, dbVars
<1>2. cursor \in Positions /\ PassedFairly(cursor) /\ Backed(cursor)
  BY DEF RelayInv, CursorAgrees
<1>3. CursorAgrees'
  BY <1>1, <1>2 DEF CursorAgrees, PassedFairly, Backed, Overtaken, Follows
<1>4. polls' \in [Polls -> [phase : {"idle", "asked", "answered"}, from : Positions,
                           page : SUBSET log']]
  BY <1>1, <1>2 DEF RelayInv
<1>5. PollAgrees(p)'
  <2>1. polls'[p] = [phase |-> "asked", from |-> cursor, page |-> {}]
    BY <1>1 DEF RelayInv
  <2> QED
    BY <2>1, <1>1, <1>2 DEF PollAgrees, PassedFairly, Backed, PageComplete, Overtaken, Follows
<1>6. ASSUME NEW o \in Polls, o # p PROVE PollAgrees(o)'
  BY <1>1, <1>6, OtherPoll DEF RelayInv
<1> QED
  BY <1>1, <1>3, <1>4, <1>5, <1>6, TablesKept DEF RelayInv

LEMMA AnswerKeepsInv ==
  ASSUME RelayInv, UNCHANGED dbVars, NEW p \in Polls, Answer(p)
  PROVE  RelayInv'
<1>1. PICK page \in SUBSET log :
        /\ IsPage(page, polls[p].from)
        /\ polls' = [polls EXCEPT ![p].phase = "answered", ![p].page = page]
  BY DEF Answer
<1>2. started' = started /\ cursor' = cursor /\ relayed' = relayed /\ log' = log
  BY DEF Answer, dbVars
<1>3. CursorAgrees'
  BY <1>2 DEF RelayInv, CursorAgrees, PassedFairly, Backed, Overtaken, Follows
<1>4. polls' \in [Polls -> [phase : {"idle", "asked", "answered"}, from : Positions,
                           page : SUBSET log']]
  BY <1>1, <1>2 DEF RelayInv
<1>5. PollAgrees(p)'
  <2>1. polls'[p].from = polls[p].from /\ polls'[p].page = page
    BY <1>1 DEF RelayInv
  <2>2. PassedFairly(polls[p].from) /\ Backed(polls[p].from)
    BY DEF RelayInv, PollAgrees, Answer
  <2>3. PageComplete(p)'
    BY <1>1, <1>2, <2>1 DEF PageComplete, IsPage, Follows, Precedes
  <2> QED
    BY <1>2, <2>1, <2>2, <2>3 DEF PollAgrees, PassedFairly, Backed, Overtaken, Follows
<1>6. ASSUME NEW o \in Polls, o # p PROVE PollAgrees(o)'
  BY <1>1, <1>2, <1>6, OtherPoll DEF RelayInv
<1> QED
  BY <1>2, <1>3, <1>4, <1>5, <1>6, TablesKept DEF RelayInv

\* Where the cursor stands once the page of an answered poll was relayed.
LEMMA RelayMovesCursor ==
  ASSUME RelayInv, UNCHANGED dbVars, NEW p \in Polls, Relay(p)
  PROVE  CursorAgrees'
<1> DEFINE page == polls[p].page
           from == polls[p].from
<1>1. started' = started /\ relayed' = relayed \cup page /\ log' = log
  BY DEF Relay, dbVars
<1>2. /\ from \in Positions /\ page \subseteq log
      /\ PassedFairly(from) /\ Backed(from) /\ PageComplete(p)
  BY DEF RelayInv, PollAgrees, Relay
<1>3. CASE page = {} /\ cursor' = from
  BY <1>1, <1>2, <1>3 DEF CursorAgrees, PassedFairly, Backed, Overtaken, Follows
<1>4. ASSUME NEW last \in page, \A r \in page : ~Precedes(last, r),
             cursor' = [at |-> Truncated(last.at), id |-> last.id]
      PROVE  CursorAgrees'
  <2>1. last.at \in Int /\ last.id \in Int /\ last \in log
    BY <1>2 DEF RelayInv, StampsAgree
  <2>2. Truncated(last.at) \in Int /\ Truncated(last.at) <= last.at
    BY <2>1, TruncatedFact
  <2>3. cursor' \in Positions /\ Backed(cursor)'
    BY <1>1, <1>4, <2>1, <2>2 DEF Positions, Backed
  <2>4. ASSUME NEW r \in log, r \notin relayed, r \notin page, r.at > started,
               ~Follows(r, cursor')
        PROVE  Overtaken(r)'
    <3>1. r.at \in Int /\ r.id \in Int
      BY DEF RelayInv, StampsAgree
    <3>2. CASE Overtaken(r)
      BY <1>1, <3>2 DEF Overtaken
    <3>3. CASE ~Overtaken(r)
      <4>1. Follows(r, from)
        BY <1>2, <2>4, <3>3 DEF PassedFairly
      <4>2. Precedes(r, last)
        <5>1. r # last
          BY <2>4
        <5>2. r.at # last.at \/ r.id # last.id
          BY <2>1, <5>1 DEF RelayInv, RowsAgree
        <5> QED
          BY <1>4, <2>1, <2>2, <2>4, <3>1, <5>2 DEF Follows, Precedes
      <4>3. r.at < last.at /\ r.commit > last.commit
        BY <1>2, <2>4, <4>1, <4>2 DEF PageComplete
      <4>4. last.commit \in Nat /\ r.commit \in Nat
        BY <2>1 DEF RelayInv, RowsAgree
      <4> QED
        BY <1>1, <2>1, <3>1, <4>3, <4>4 DEF Overtaken
    <3> QED
      BY <3>2, <3>3
  <2>5. PassedFairly(cursor)'
    BY <1>1, <2>4 DEF PassedFairly, Follows, Overtaken
  <2> QED
    BY <2>3, <2>5 DEF CursorAgrees
<1> QED
  BY <1>3, <1>4 DEF Relay

LEMMA RelayKeepsInv ==
  ASSUME RelayInv, UNCHANGED dbVars, NEW p \in Polls, Relay(p)
  PROVE  RelayInv'
<1>1. /\ started' = started /\ relayed' = relayed \cup polls[p].page /\ log' = log
      /\ polls' = [polls EXCEPT ![p] = NotPolling]
  BY DEF Relay, dbVars
<1>2. relayed' \subseteq log' /\ relayed \subseteq relayed'
  BY <1>1 DEF RelayInv
<1>3. polls' \in [Polls -> [phase : {"idle", "asked", "answered"}, from : Positions,
                           page : SUBSET log']]
  BY <1>1 DEF RelayInv, NotPolling, Positions
<1>4. PollAgrees(p)'
  <2>1. polls'[p].phase = "idle"
    BY <1>1 DEF RelayInv, NotPolling
  <2> QED
    BY <2>1 DEF PollAgrees
<1>5. ASSUME NEW o \in Polls, o # p PROVE PollAgrees(o)'
  BY <1>1, <1>2, <1>5, OtherPoll DEF RelayInv
<1> QED
  BY <1>1, <1>2, <1>3, <1>4, <1>5, TablesKept, RelayMovesCursor DEF RelayInv

LEMMA PollFailsKeepsInv ==
  ASSUME RelayInv, UNCHANGED dbVars, NEW p \in Polls, PollFails(p)
  PROVE  RelayInv'
<1>1. /\ started' = started /\ cursor' = cursor /\ relayed' = relayed /\ log' = log
      /\ polls' = [polls EXCEPT ![p] = NotPolling]
  BY DEF PollFails, dbVars
<1>2. CursorAgrees'
  BY <1>1 DEF RelayInv, CursorAgrees, PassedFairly, Backed, Overtaken, Follows
<1>3. polls' \in [Polls -> [phase : {"idle", "asked", "answered"}, from : Positions,
                           page : SUBSET log']]
  BY <1>1 DEF RelayInv, NotPolling, Positions
<1>4. PollAgrees(p)'
  <2>1. polls'[p].phase = "idle"
    BY <1>1 DEF RelayInv, NotPolling
  <2> QED
    BY <2>1 DEF PollAgrees
<1>5. ASSUME NEW o \in Polls, o # p PROVE PollAgrees(o)'
  BY <1>1, <1>5, OtherPoll DEF RelayInv
<1> QED
  BY <1>1, <1>2, <1>3, <1>4, <1>5, TablesKept DEF RelayInv

LEMMA RestartKeepsInv ==
  ASSUME RelayInv, UNCHANGED dbVars, Restart
  PROVE  RelayInv'
<1>1. /\ started' = now /\ now \in Nat /\ relayed' = relayed /\ log' = log
      /\ polls' = [p \in Polls |-> NotPolling] /\ cursor' = CursorAtStart(now)
  BY DEF Restart, dbVars, RelayInv
<1>2. cursor' \in Positions /\ cursor'.at <= started'
  BY <1>1, TruncatedFact DEF CursorAtStart, Positions
<1>3. PassedFairly(cursor)'
  BY <1>1 DEF RelayInv, StampsAgree, PassedFairly
<1>4. CursorAgrees'
  BY <1>2, <1>3 DEF CursorAgrees, Backed
<1>5. polls' \in [Polls -> [phase : {"idle", "asked", "answered"}, from : Positions,
                           page : SUBSET log']]
  BY <1>1 DEF NotPolling, Positions
<1>6. \A p \in Polls : PollAgrees(p)'
  BY <1>1 DEF NotPolling, PollAgrees
<1> QED
  BY <1>1, <1>4, <1>5, <1>6, TablesKept DEF RelayInv

-------------------------------------------------------------------------------

LEMMA NextKeepsInv == RelayInv /\ [RelayNext]_relayVars => RelayInv'
<1> SUFFICES ASSUME RelayInv, [RelayNext]_relayVars PROVE RelayInv'
  OBVIOUS
<1>1. ASSUME Command, UNCHANGED pollVars PROVE RelayInv'
  BY <1>1, BeginKeepsInv, CommitKeepsInv, RollbackKeepsInv DEF Command
<1>2. ASSUME UNCHANGED dbVars, NEW p \in Polls, Ask(p) \/ Answer(p) \/ Relay(p) \/ PollFails(p)
      PROVE  RelayInv'
  BY <1>2, AskKeepsInv, AnswerKeepsInv, RelayKeepsInv, PollFailsKeepsInv
<1>3. ASSUME UNCHANGED dbVars, Restart PROVE RelayInv'
  BY <1>3, RestartKeepsInv
<1>4. ASSUME UNCHANGED relayVars PROVE RelayInv'
  BY <1>4 DEF relayVars, RelayInv, StampsAgree, RowsAgree, CursorAgrees, PollAgrees,
              PassedFairly, Backed, PageComplete, Overtaken, Follows, Precedes
<1> QED
  BY <1>1, <1>2, <1>3, <1>4 DEF RelayNext

\* Whatever the number of overlapping polls, the page limit and the clock's
\* resolution, the cursor of relayOutbox passes a row of this process's time
\* only by relaying it, or because the row committed out of order.
THEOREM NothingPassedUnlessOvertaken == RelaySpec => []PassedOnlyIfOvertaken
<1>1. RelayInv => PassedOnlyIfOvertaken
  BY DEF RelayInv, CursorAgrees, PassedFairly, PassedOnlyIfOvertaken
<1> QED
  BY InvInit, NextKeepsInv, <1>1, PTL DEF RelaySpec

-------------------------------------------------------------------------------
(* The connections over the relay *)

\* The steps of the connections are steps of the relay or leave it alone, so that
\* what was proved of it holds with any number of clients.
THEOREM FeedRelays == FeedSpec => RelaySpec
<1>1. FeedInit => RelayInit
  BY DEF FeedInit
<1>2. [FeedNext]_tripFeedVars => [RelayNext]_relayVars
  <2>1. ASSUME Command, UNCHANGED <<pollVars, feedVars>> PROVE RelayNext
    BY <2>1 DEF RelayNext
  <2>2. ASSUME UNCHANGED dbVars, RestartFeed \/ \E p \in Polls : Poll(p) PROVE RelayNext
    BY <2>2 DEF RelayNext, RestartFeed, Poll
  <2>3. ASSUME UNCHANGED tripFeedVars PROVE UNCHANGED relayVars
    BY <2>3 DEF tripFeedVars, relayVars
  <2> QED
    BY <2>1, <2>2, <2>3 DEF FeedNext
<1> QED
  BY <1>1, <1>2, PTL DEF FeedSpec, RelaySpec

\* However many clients subscribe, and whenever, the cursor passes a row only by
\* relaying it to those that follow its Trip, or because it was overtaken.
THEOREM FeedPassesFairly == FeedSpec => []PassedOnlyIfOvertaken
  BY FeedRelays, NothingPassedUnlessOvertaken

\* Rows: their versions are those their Trip went through, and a row that ends a
\* Trip has the highest one.
LogHolds ==
  /\ now \in Nat /\ started \in Nat /\ commits \in Nat
  /\ open \subseteq Trips \X Nat
  /\ version \in [Trips -> Nat]
  /\ log \subseteq RowType
  /\ \A r \in log : r.version <= version[r.trip]
  /\ \A q, r \in log : (q.kind = "final" /\ q.trip = r.trip /\ q # r) => r.version < q.version

PollsHold ==
  /\ cursor \in Cursors
  /\ polls \in [Polls -> [phase : {"idle", "asked", "answered"}, from : Cursors,
                          page : SUBSET log]]
  /\ relayed \subseteq log

\* Clients: no snapshot and no screen is ahead of its Trip.
ClientsHold ==
  /\ following \in [Clients -> SUBSET Trips]
  /\ reads \in [Clients -> SUBSET (Trips \X Nat)]
  /\ screen \in [Clients -> [Trips -> Nat]]
  /\ \A c \in Clients : /\ IsFiniteSet(following[c])
                        /\ Cardinality(following[c]) <= MaxSubscriptions
                        /\ \A x \in reads[c] : x[2] <= version[x[1]]
                        /\ \A t \in Trips : screen[c][t] <= version[t]

FeedInv == LogHolds /\ PollsHold /\ ClientsHold

-------------------------------------------------------------------------------
(* Highest versions *)

LEMMA LeastNatural ==
  ASSUME NEW T \in SUBSET Nat, T # {}
  PROVE  \E x \in T : \A y \in T : x <= y
<1>1. IsWellFoundedOn(OpToRel(<, Nat), Nat)
  BY NatLessThanWellFounded
<1>2. \E Less : IsWellFoundedOn(Less, Nat) /\ \A x, y \in Nat : y < x => <<y, x>> \in Less
  <2>1. \A x, y \in Nat : y < x => <<y, x>> \in OpToRel(<, Nat)
    BY DEF OpToRel
  <2> QED
    BY <1>1, <2>1
<1> PICK Less : IsWellFoundedOn(Less, Nat) /\ \A x, y \in Nat : y < x => <<y, x>> \in Less
  BY <1>2
<1>3. PICK x \in T : \A y \in T : ~ (<<y, x>> \in Less)
  BY WFMin
<1>4. ASSUME NEW y \in T PROVE x <= y
  <2>1. x \in Nat /\ y \in Nat /\ ~(<<y, x>> \in Less)
    BY <1>3
  <2>2. ~(y < x)
    BY <2>1
  <2> QED
    BY <2>1, <2>2
<1> QED
  BY <1>4

LEMMA MaxOfBounded ==
  ASSUME NEW S \in SUBSET Nat, S # {}, NEW bound \in Nat, \A x \in S : x <= bound
  PROVE  Max(S) \in S /\ \A x \in S : x <= Max(S)
<1> DEFINE T == {bound - x : x \in S}
<1>1. T \in SUBSET Nat /\ T # {}
  <2>1. \A x \in S : x \in Nat /\ bound - x \in Nat
    OBVIOUS
  <2> QED
    BY <2>1
<1>2. PICK y \in T : \A z \in T : y <= z
  BY <1>1, LeastNatural
<1>3. PICK m \in S : y = bound - m
  BY <1>2
<1>4. ASSUME NEW x \in S PROVE m >= x
  <2>1. y <= bound - x
    BY <1>2
  <2> QED
    BY <1>3, <2>1
<1>5. Max(S) \in S /\ \A x \in S : Max(S) >= x
  BY <1>4 DEF Max
<1> QED
  BY <1>5
\* A merge takes a screen no further back, and not ahead of what it is given.
LEMMA MergedGoesForward ==
  ASSUME NEW shown \in Nat, NEW versions \in SUBSET Nat, NEW bound \in Nat,
         shown <= bound, \A v \in versions : v <= bound
  PROVE  /\ Merged(shown, versions) \in Nat
         /\ shown <= Merged(shown, versions) /\ Merged(shown, versions) <= bound
<1> PICK S : S = versions \cup {shown}
  OBVIOUS
<1>1. S \in SUBSET Nat /\ S # {} /\ shown \in S /\ \A x \in S : x <= bound
  OBVIOUS
<1>2. Max(S) \in S /\ \A x \in S : x <= Max(S)
  BY <1>1, MaxOfBounded
<1>3. Merged(shown, versions) = Max(S)
  BY DEF Merged
<1> QED
  BY <1>1, <1>2, <1>3

\* A stamp cut to the millisecond is still a time.
LEMMA TruncatedIsATime ==
  ASSUME NEW tick \in Nat
  PROVE  Truncated(tick) \in Nat
<1> DEFINE q == tick \div TicksPerMs
           m == tick % TicksPerMs
<1>1. /\ TicksPerMs \in Nat /\ TicksPerMs > 0
      /\ q \in Int /\ m \in Int /\ 0 <= m /\ m < TicksPerMs /\ tick = TicksPerMs * q + m
  BY RelayAssumption
<1> HIDE DEF q, m
<1>2. q >= 0
  <2>1. CASE q <= -1
    <3>1. TicksPerMs * q <= TicksPerMs * (-1)
      BY <1>1, <2>1
    <3> QED
      BY <1>1, <3>1
  <2> QED
    BY <1>1, <2>1
<1>3. TicksPerMs * q >= 0
  BY <1>1, <1>2
<1>4. tick - m \in Nat
  BY <1>1, <1>3
<1> QED
  BY <1>4 DEF Truncated, m

-------------------------------------------------------------------------------
(* Commands *)

\* What one command may publish: versions that follow the Trip's, and a row that
\* ends it after all the others.
LEMMA PublicationsFollow ==
  ASSUME NEW t \in Trips, version[t] \in Nat, NEW rows \in Publications(t)
  PROVE  /\ \A x \in rows : /\ x[1] \in Nat /\ x[1] > version[t]
                            /\ x[2] \in Kinds /\ x[3] \in Drivers \cup {NoDriver}
         /\ \A x, y \in rows : (x[2] = "final" /\ x # y) => y[1] < x[1]
<1> DEFINE v == version[t] + 1
           moved == <<v, "moved", NoDriver>>
           ended == <<v + 1, "final", NoDriver>>
<1>1. v \in Nat /\ v > version[t] /\ v + 1 \in Nat /\ v + 1 > version[t] /\ v < v + 1
  OBVIOUS
<1>2. \/ rows = {moved} \/ rows = {<<v, "final", NoDriver>>} \/ rows = {moved, ended}
      \/ \E d \in Drivers : rows = {moved, <<v, "offered", d>>}
      \/ \E d \in Drivers : rows = {<<v, "dropped", d>>, ended}
      \/ \E d, e \in Drivers : rows = {<<v, "dropped", d>>, <<v, "offered", e>>}
  BY DEF Publications, Engaged, Unasked
<1> HIDE DEF v
<1> QED
  BY <1>1, <1>2 DEF Kinds

LEMMA CommitKeepsLog ==
  ASSUME LogHolds, NEW t \in Trips, NEW at \in 1..LastTick, Commit(t, at), started' = started
  PROVE  LogHolds' /\ log \subseteq log' /\ \A u \in Trips : version[u] <= version'[u]
<1>1. PICK rows \in Publications(t), id \in [Kinds -> 1..2] :
        /\ log' = log \cup
             {[trip |-> t, version |-> x[1], kind |-> x[2], driver |-> x[3],
               at |-> at, id |-> id[x[2]], commit |-> commits + 1] : x \in rows}
        /\ \E x \in rows : /\ \A y \in rows : y[1] <= x[1]
                           /\ version' = [version EXCEPT ![t] = x[1]]
  BY DEF Commit
<1> PICK last \in rows : /\ \A y \in rows : y[1] <= last[1]
                         /\ version' = [version EXCEPT ![t] = last[1]]
  BY <1>1
<1>2. /\ version \in [Trips -> Nat] /\ commits + 1 \in Nat /\ at \in Nat
      /\ now' \in Nat /\ started' \in Nat /\ commits' \in Nat /\ open' \subseteq Trips \X Nat
      /\ ~Ended(t)
  BY RelayAssumption DEF LogHolds, Commit
<1>3. /\ \A x \in rows : /\ x[1] \in Nat /\ x[1] > version[t]
                         /\ x[2] \in Kinds /\ x[3] \in Drivers \cup {NoDriver}
      /\ \A x, y \in rows : (x[2] = "final" /\ x # y) => y[1] < x[1]
  BY <1>2, PublicationsFollow
<1>4. /\ version' \in [Trips -> Nat] /\ version'[t] = last[1]
      /\ \A u \in Trips : version[u] <= version'[u]
  BY <1>2, <1>3
<1> DEFINE Row(x) == [trip |-> t, version |-> x[1], kind |-> x[2], driver |-> x[3],
                      at |-> at, id |-> id[x[2]], commit |-> commits + 1]
<1>5. ASSUME NEW x \in rows
      PROVE  /\ Row(x) \in RowType /\ Row(x).trip = t /\ Row(x).version = x[1]
             /\ Row(x).kind = x[2]
  BY <1>2, <1>3 DEF RowType
<1> DEFINE new == {Row(x) : x \in rows}
<1>6. log' = log \cup new
  BY <1>1
<1>7. ASSUME NEW r \in new
      PROVE  /\ r \in RowType /\ r.trip = t
             /\ version[t] < r.version /\ r.version <= version'[t]
  <2>1. PICK x \in rows : r = Row(x)
    OBVIOUS
  <2>2. x[1] <= last[1] /\ x[1] > version[t]
    BY <1>3
  <2> HIDE DEF Row
  <2> QED
    BY <1>4, <1>5, <2>1, <2>2
<1>8. ASSUME NEW q \in new, NEW r \in new, q.kind = "final", q # r
      PROVE  r.version < q.version
  <2>1. PICK x \in rows : q = Row(x)
    OBVIOUS
  <2>2. PICK y \in rows : r = Row(y)
    OBVIOUS
  <2> HIDE DEF Row
  <2>3. x[2] = "final" /\ x # y /\ q.version = x[1] /\ r.version = y[1]
    BY <1>5, <1>8, <2>1, <2>2
  <2> QED
    BY <1>3, <2>3
<1> HIDE DEF new
<1>9. \A r \in log : r \in RowType /\ r.version <= version[r.trip] /\ r.trip \in Trips
  BY DEF LogHolds, RowType
<1>10. log' \subseteq RowType
  BY <1>6, <1>7, <1>9
<1>11. ASSUME NEW r \in log' PROVE r.version <= version'[r.trip]
  <2>1. CASE r \in new
    BY <1>7, <2>1
  <2>2. CASE r \in log
    <3>1. /\ version[r.trip] <= version'[r.trip] /\ r.version <= version[r.trip]
          /\ r.version \in Nat /\ version[r.trip] \in Nat /\ version'[r.trip] \in Nat
      BY <1>2, <1>4, <1>9, <2>2 DEF RowType
    <3> QED
      BY <3>1
  <2> QED
    BY <1>6, <2>1, <2>2
<1>12. ASSUME NEW q \in log', NEW r \in log', q.kind = "final", q.trip = r.trip, q # r
       PROVE  r.version < q.version
  <2>1. CASE q \in log /\ r \in log
    BY <1>12, <2>1 DEF LogHolds
  <2>2. CASE q \in log /\ r \in new
    BY <1>2, <1>7, <1>12, <2>2 DEF Ended
  <2>3. CASE q \in new /\ r \in log
    <3>1. /\ r.version <= version[t] /\ version[t] < q.version
          /\ r.version \in Nat /\ q.version \in Nat /\ version[t] \in Nat
      BY <1>2, <1>7, <1>9, <1>12, <2>3 DEF RowType
    <3> QED
      BY <3>1
  <2>4. CASE q \in new /\ r \in new
    BY <1>8, <1>12, <2>4
  <2> QED
    BY <1>6, <2>1, <2>2, <2>3, <2>4
<1> QED
  BY <1>2, <1>4, <1>6, <1>10, <1>11, <1>12 DEF LogHolds

\* A command moves Trips on, which leaves clients behind but never ahead.
LEMMA CommandKeepsFeed ==
  ASSUME FeedInv, Command, UNCHANGED <<pollVars, feedVars>>
  PROVE  FeedInv'
<1>1. LogHolds' /\ log \subseteq log' /\ \A u \in Trips : version[u] <= version'[u]
  <2>1. /\ started' = started /\ LogHolds
        /\ \A u \in Trips : version[u] \in Nat
    BY DEF pollVars, FeedInv, LogHolds
  <2>2. ASSUME NEW t \in Trips, Begin(t)
        PROVE  LogHolds' /\ log \subseteq log' /\ \A u \in Trips : version[u] <= version'[u]
    BY <2>1, <2>2 DEF Begin, LogHolds
  <2>3. ASSUME NEW t \in Trips, NEW at \in 1..LastTick, Rollback(t, at)
        PROVE  LogHolds' /\ log \subseteq log' /\ \A u \in Trips : version[u] <= version'[u]
    BY <2>1, <2>3 DEF Rollback, LogHolds
  <2>4. ASSUME NEW t \in Trips, NEW at \in 1..LastTick, Commit(t, at)
        PROVE  LogHolds' /\ log \subseteq log' /\ \A u \in Trips : version[u] <= version'[u]
    BY <2>1, <2>4, CommitKeepsLog
  <2> QED
    BY <2>2, <2>3, <2>4 DEF Command
<1>2. PollsHold'
  BY <1>1 DEF FeedInv, PollsHold, pollVars
<1>3. /\ version \in [Trips -> Nat] /\ version' \in [Trips -> Nat]
      /\ following' = following /\ reads' = reads /\ screen' = screen /\ ClientsHold
  BY <1>1 DEF FeedInv, LogHolds, feedVars
<1>4. ASSUME NEW c \in Clients, NEW x \in reads[c] PROVE x[2] <= version'[x[1]]
  <2>1. x[1] \in Trips /\ x[2] \in Nat /\ x[2] <= version[x[1]]
    BY <1>3 DEF ClientsHold
  <2> QED
    BY <1>1, <1>3, <2>1
<1>5. ASSUME NEW c \in Clients, NEW t \in Trips PROVE screen[c][t] <= version'[t]
  <2>1. screen[c][t] \in Nat /\ screen[c][t] <= version[t]
    BY <1>3 DEF ClientsHold
  <2> QED
    BY <1>1, <1>3, <2>1
<1>6. ClientsHold'
  BY <1>3, <1>4, <1>5 DEF ClientsHold
<1> QED
  BY <1>1, <1>2, <1>6 DEF FeedInv

-------------------------------------------------------------------------------
(* The poller and what it sends *)

LEMMA PollingKeepsPolls ==
  ASSUME FeedInv, UNCHANGED dbVars,
         Restart \/ \E p \in Polls : Ask(p) \/ Answer(p) \/ Relay(p) \/ PollFails(p)
  PROVE  LogHolds' /\ PollsHold'
<1>1. /\ PollsHold /\ log' = log /\ now \in Nat
      /\ cursor \in Cursors /\ relayed \subseteq log
      /\ polls \in [Polls -> [phase : {"idle", "asked", "answered"}, from : Cursors,
                              page : SUBSET log]]
      /\ \A r \in log : r.at \in Nat /\ r.id \in 1..2
  BY DEF FeedInv, LogHolds, PollsHold, dbVars, RowType
<1>2. NotPolling \in [phase : {"idle", "asked", "answered"}, from : Cursors, page : SUBSET log]
  BY DEF NotPolling, Cursors
<1>3. CASE Restart
  <2>1. cursor' \in Cursors
    BY <1>1, <1>3, TruncatedIsATime DEF Restart, CursorAtStart, Cursors
  <2> QED
    BY <1>1, <1>2, <1>3, <2>1 DEF Restart, FeedInv, LogHolds, PollsHold, dbVars
<1>4. ASSUME NEW p \in Polls, Ask(p) \/ Answer(p) \/ Relay(p) \/ PollFails(p)
      PROVE  LogHolds' /\ PollsHold'
  <2>1. LogHolds'
    BY <1>4 DEF Ask, Answer, Relay, PollFails, FeedInv, LogHolds, dbVars
  <2>2. /\ polls' \in [Polls -> [phase : {"idle", "asked", "answered"}, from : Cursors,
                                 page : SUBSET log]]
        /\ relayed' \subseteq log
    <3>1. CASE Ask(p)
      BY <1>1, <3>1 DEF Ask
    <3>2. CASE Answer(p)
      BY <1>1, <3>2 DEF Answer
    <3>3. CASE Relay(p)
      BY <1>1, <1>2, <3>3 DEF Relay
    <3>4. CASE PollFails(p)
      BY <1>1, <1>2, <3>4 DEF PollFails
    <3> QED
      BY <1>4, <3>1, <3>2, <3>3, <3>4
  <2>3. cursor' \in Cursors
    <3>1. CASE cursor' = cursor \/ cursor' = polls[p].from
      BY <1>1, <3>1
    <3>2. ASSUME NEW last \in polls[p].page,
                 cursor' = [at |-> Truncated(last.at), id |-> last.id]
          PROVE  cursor' \in Cursors
      <4>1. last.at \in Nat /\ last.id \in 1..2
        BY <1>1
      <4>2. Truncated(last.at) \in Nat
        BY <4>1, TruncatedIsATime
      <4> QED
        BY <3>2, <4>1, <4>2 DEF Cursors
    <3> QED
      BY <1>4, <3>1, <3>2 DEF Ask, Answer, Relay, PollFails
  <2> QED
    BY <1>1, <2>1, <2>2, <2>3 DEF PollsHold
<1> QED
  BY <1>3, <1>4

\* A page takes no screen back, and none ahead of its Trip.
LEMMA BroadcastKeepsClients ==
  ASSUME FeedInv, NEW page \in SUBSET log, Broadcast(page), version' = version
  PROVE  ClientsHold' /\ \A c \in Clients, t \in Trips : screen'[c][t] >= screen[c][t]
<1>1. /\ ClientsHold /\ version \in [Trips -> Nat] /\ reads' = reads
      /\ \A r \in log : r.version \in Nat /\ r.version <= version[r.trip]
  BY DEF FeedInv, LogHolds, RowType, Broadcast
<1>2. following' = [c \in Clients |->
        following[c] \ {r.trip : r \in {q \in page : Revokes(q, c)}}]
  BY DEF Broadcast
<1>3. ASSUME NEW c \in Clients
      PROVE  /\ following'[c] \in SUBSET Trips /\ IsFiniteSet(following'[c])
             /\ Cardinality(following'[c]) <= MaxSubscriptions
  <2> PICK old : old = following[c]
    OBVIOUS
  <2> PICK left : left = following'[c]
    OBVIOUS
  <2>1. left \in SUBSET old
    BY <1>2
  <2>2. old \in SUBSET Trips /\ IsFiniteSet(old) /\ Cardinality(old) <= MaxSubscriptions
    BY <1>1 DEF ClientsHold
  <2>3. /\ IsFiniteSet(left) /\ Cardinality(left) <= Cardinality(old)
        /\ Cardinality(left) \in Nat /\ Cardinality(old) \in Nat
    BY <2>1, <2>2, FS_Subset, FS_CardinalityType
  <2> QED
    BY <2>1, <2>2, <2>3, FeedAssumption
<1>4. ASSUME NEW c \in Clients, NEW t \in Trips
      PROVE  /\ screen'[c][t] \in Nat /\ screen[c][t] <= screen'[c][t]
             /\ screen'[c][t] <= version[t] /\ screen[c][t] \in Nat
  <2> DEFINE sent == {q \in page : q.trip = t /\ CarriesState(q) /\ Reaches(q, c, page)}
             versions == {r.version : r \in sent}
  <2>1. screen'[c][t] = Merged(screen[c][t], versions)
    BY DEF Broadcast
  <2>2. versions \in SUBSET Nat /\ \A v \in versions : v <= version[t]
    BY <1>1
  <2>3. screen[c][t] \in Nat /\ screen[c][t] <= version[t] /\ version[t] \in Nat
    BY <1>1 DEF ClientsHold
  <2> HIDE DEF versions
  <2> QED
    BY <2>1, <2>2, <2>3, MergedGoesForward
<1>5. /\ following' \in [Clients -> SUBSET Trips]
      /\ screen' \in [Clients -> [Trips -> Nat]]
  <2>1. /\ screen' = [c \in Clients |-> screen'[c]]
        /\ \A c \in Clients : screen'[c] = [t \in Trips |-> screen'[c][t]]
    BY DEF Broadcast
  <2>2. \A c \in Clients : screen'[c] \in [Trips -> Nat]
    BY <1>4, <2>1
  <2>3. screen' \in [Clients -> [Trips -> Nat]]
    BY <2>1, <2>2
  <2>4. following' \in [Clients -> SUBSET Trips]
    BY <1>2, <1>3
  <2> QED
    BY <2>3, <2>4
<1>6. ClientsHold'
  BY <1>1, <1>3, <1>4, <1>5 DEF ClientsHold
<1> QED
  BY <1>4, <1>6

LEMMA PollingKeepsFeed ==
  ASSUME FeedInv, UNCHANGED dbVars, RestartFeed \/ \E p \in Polls : Poll(p)
  PROVE  FeedInv' /\ \A c \in Clients, t \in Trips : screen'[c][t] >= screen[c][t]
<1>1. LogHolds' /\ PollsHold'
  BY PollingKeepsPolls DEF RestartFeed, Poll
<1>2. /\ version' = version /\ ClientsHold
      /\ \A c \in Clients, t \in Trips : screen[c][t] \in Nat
  BY DEF dbVars, FeedInv, ClientsHold
<1>3. CASE RestartFeed
  <2>1. Cardinality({}) = 0 /\ IsFiniteSet({})
    BY FS_EmptySet
  <2>2. ClientsHold' /\ screen' = screen
    BY <1>2, <1>3, <2>1, FeedAssumption DEF RestartFeed, ClientsHold
  <2> QED
    BY <1>1, <1>2, <2>2 DEF FeedInv
<1>4. ASSUME NEW p \in Polls, Poll(p)
      PROVE  FeedInv' /\ \A c \in Clients, t \in Trips : screen'[c][t] >= screen[c][t]
  <2>1. CASE UNCHANGED feedVars
    BY <1>1, <1>2, <2>1 DEF feedVars, FeedInv, ClientsHold
  <2>2. CASE Broadcast(polls[p].page)
    <3>1. polls[p].page \in SUBSET log
      BY DEF FeedInv, PollsHold
    <3> QED
      BY <1>1, <1>2, <2>2, <3>1, BroadcastKeepsClients DEF FeedInv
  <2> QED
    BY <1>4, <2>1, <2>2 DEF Poll
<1> QED
  BY <1>3, <1>4

-------------------------------------------------------------------------------
(* Subscribing *)

LEMMA SubscribeKeepsClients ==
  ASSUME FeedInv, UNCHANGED relayVars, NEW c \in Clients, NEW t \in Trips,
         NEW v \in 0..MaxVersion, Subscribe(c, t, v)
  PROVE  ClientsHold' /\ \A d \in Clients, u \in Trips : screen'[d][u] >= screen[d][u]
<1>1. /\ ClientsHold /\ version' = version /\ version \in [Trips -> Nat]
      /\ following \in [Clients -> SUBSET Trips]
      /\ reads \in [Clients -> SUBSET (Trips \X Nat)]
      /\ screen \in [Clients -> [Trips -> Nat]]
  BY DEF FeedInv, LogHolds, ClientsHold, relayVars
<1>2. /\ <<t, v>> \in reads[c] /\ reads' = [reads EXCEPT ![c] = @ \ {<<t, v>>}]
      /\ reads' \in [Clients -> SUBSET (Trips \X Nat)]
      /\ \A d \in Clients : reads'[d] \subseteq reads[d]
  BY <1>1 DEF Subscribe
<1>3. v \in Nat /\ v <= version[t]
  BY <1>1, <1>2 DEF ClientsHold
<1>4. \A d \in Clients : \A x \in reads'[d] : x[2] <= version[x[1]]
  BY <1>1, <1>2 DEF ClientsHold
<1>5. CASE UNCHANGED <<following, screen>>
  BY <1>1, <1>2, <1>4, <1>5 DEF ClientsHold
<1>6. ASSUME t \in following[c] \/ HasCapacity(c),
             following' = [following EXCEPT ![c] = @ \cup {t}],
             screen' = [screen EXCEPT ![c][t] = Merged(@, {v})]
      PROVE  ClientsHold' /\ \A d \in Clients, u \in Trips : screen'[d][u] >= screen[d][u]
  <2> PICK old : old = following[c]
    OBVIOUS
  <2>1. old \in SUBSET Trips /\ IsFiniteSet(old) /\ Cardinality(old) <= MaxSubscriptions
    BY <1>1 DEF ClientsHold
  <2>2. /\ IsFiniteSet(old \cup {t}) /\ Cardinality(old) \in Nat
        /\ Cardinality(old \cup {t}) = IF t \in old THEN Cardinality(old)
                                       ELSE Cardinality(old) + 1
    BY <2>1, FS_AddElement, FS_CardinalityType
  <2>3. Cardinality(old \cup {t}) <= MaxSubscriptions
    BY <1>6, <2>1, <2>2, FeedAssumption DEF HasCapacity
  <2>4. /\ following' \in [Clients -> SUBSET Trips]
        /\ following'[c] = old \cup {t}
        /\ \A d \in Clients : d # c => following'[d] = following[d]
    BY <1>1, <1>6
  <2>5. \A d \in Clients : IsFiniteSet(following'[d])
                           /\ Cardinality(following'[d]) <= MaxSubscriptions
    BY <1>1, <2>2, <2>3, <2>4 DEF ClientsHold
  <2> PICK shown : shown = screen[c][t]
    OBVIOUS
  <2> PICK merged : merged = Merged(shown, {v})
    OBVIOUS
  <2>6. shown \in Nat /\ version[t] \in Nat /\ shown <= version[t]
    BY <1>1 DEF ClientsHold
  <2>7. merged \in Nat /\ shown <= merged /\ merged <= version[t]
    BY <1>3, <2>6, MergedGoesForward
  <2>8. screen' = [screen EXCEPT ![c] = [screen[c] EXCEPT ![t] = merged]]
    BY <1>1, <1>6
  <2>9. /\ screen' \in [Clients -> [Trips -> Nat]]
        /\ \A d \in Clients, u \in Trips :
             screen'[d][u] = IF d = c /\ u = t THEN merged ELSE screen[d][u]
    BY <1>1, <2>7, <2>8
  <2>10. ASSUME NEW d \in Clients, NEW u \in Trips
         PROVE  screen'[d][u] >= screen[d][u] /\ screen'[d][u] <= version[u]
    <3>1. screen[d][u] \in Nat /\ screen[d][u] <= version[u]
      BY <1>1 DEF ClientsHold
    <3>2. CASE d = c /\ u = t
      <4>1. screen'[d][u] = merged /\ screen[d][u] = shown /\ version[u] = version[t]
        BY <2>9, <3>2
      <4> QED
        BY <2>6, <2>7, <4>1
    <3>3. CASE ~(d = c /\ u = t)
      <4>1. screen'[d][u] = screen[d][u]
        BY <2>9, <3>3
      <4> QED
        BY <3>1, <4>1
    <3> QED
      BY <3>2, <3>3
  <2> QED
    BY <1>1, <1>2, <1>4, <2>4, <2>5, <2>9, <2>10 DEF ClientsHold
<1>7. \A d \in Clients, u \in Trips : screen[d][u] \in Nat
  BY <1>1
<1> QED
  BY <1>5, <1>6, <1>7 DEF Subscribe

LEMMA ClientsKeepFeed ==
  ASSUME FeedInv, UNCHANGED relayVars, NEW c \in Clients, NEW t \in Trips,
         \/ ReadSnapshot(c, t)
         \/ \E v \in 0..MaxVersion : Subscribe(c, t, v)
         \/ Disconnect(c)
  PROVE  FeedInv' /\ \A d \in Clients, u \in Trips : screen'[d][u] >= screen[d][u]
<1>1. LogHolds' /\ PollsHold'
  BY DEF relayVars, FeedInv, LogHolds, PollsHold
<1>2. /\ ClientsHold /\ version' = version /\ version \in [Trips -> Nat]
      /\ \A d \in Clients, u \in Trips : screen[d][u] \in Nat
  BY DEF FeedInv, LogHolds, ClientsHold, relayVars
<1>3. CASE ReadSnapshot(c, t)
  <2>1. /\ UNCHANGED <<following, screen>>
        /\ reads' = [reads EXCEPT ![c] = @ \cup {<<t, version[t]>>}]
    BY <1>3 DEF ReadSnapshot
  <2>2. ClientsHold'
    BY <1>2, <2>1 DEF ClientsHold
  <2> QED
    BY <1>1, <1>2, <2>1, <2>2 DEF FeedInv
<1>4. CASE \E v \in 0..MaxVersion : Subscribe(c, t, v)
  BY <1>1, <1>4, SubscribeKeepsClients DEF FeedInv
<1>5. CASE Disconnect(c)
  <2>1. /\ UNCHANGED screen /\ following' = [following EXCEPT ![c] = {}]
        /\ reads' = [reads EXCEPT ![c] = {}]
    BY <1>5 DEF Disconnect
  <2>2. Cardinality({}) = 0 /\ IsFiniteSet({})
    BY FS_EmptySet
  <2>3. ClientsHold'
    BY <1>2, <2>1, <2>2, FeedAssumption DEF ClientsHold
  <2> QED
    BY <1>1, <1>2, <2>1, <2>3 DEF FeedInv
<1> QED
  BY <1>3, <1>4, <1>5

-------------------------------------------------------------------------------
(* Every step *)

LEMMA InitHasFeedInv == FeedInit => FeedInv
<1> SUFFICES ASSUME FeedInit PROVE FeedInv
  OBVIOUS
<1>1. Truncated(0) \in Nat
  BY TruncatedIsATime
<1>2. LogHolds /\ PollsHold
  BY <1>1 DEF FeedInit, RelayInit, LogHolds, PollsHold, NotPolling, CursorAtStart, Cursors
<1>3. Cardinality({}) = 0 /\ IsFiniteSet({})
  BY FS_EmptySet
<1>4. ClientsHold
  BY <1>3, FeedAssumption DEF FeedInit, RelayInit, ClientsHold
<1> QED
  BY <1>2, <1>4 DEF FeedInv

LEMMA FeedStepKeepsInv ==
  ASSUME FeedInv, [FeedNext]_tripFeedVars
  PROVE  FeedInv' /\ \A c \in Clients, t \in Trips : screen'[c][t] >= screen[c][t]
<1>1. \A c \in Clients, t \in Trips : screen[c][t] \in Nat
  BY DEF FeedInv, ClientsHold
<1>2. ASSUME Command, UNCHANGED <<pollVars, feedVars>>
      PROVE  FeedInv' /\ \A c \in Clients, t \in Trips : screen'[c][t] >= screen[c][t]
  BY <1>1, <1>2, CommandKeepsFeed DEF feedVars
<1>3. CASE UNCHANGED tripFeedVars
  BY <1>1, <1>3 DEF tripFeedVars, FeedInv, LogHolds, PollsHold, ClientsHold
<1> QED
  BY <1>2, <1>3, PollingKeepsFeed, ClientsKeepFeed DEF FeedNext

LEMMA AlwaysFeedInv == FeedSpec => []FeedInv
<1>1. FeedInv /\ [FeedNext]_tripFeedVars => FeedInv'
  BY FeedStepKeepsInv
<1> QED
  BY <1>1, InitHasFeedInv, PTL DEF FeedSpec

\* Every variable of the relay and of its subscribers keeps its type, what was
\* relayed was committed, and a connection never follows more Trips than
\* hasSubscriptionCapacity allows.
THEOREM FeedTypes == FeedSpec => []FeedTypeOK
<1>1. FeedInv => FeedTypeOK
  <2> SUFFICES ASSUME FeedInv PROVE FeedTypeOK
    OBVIOUS
  <2>1. polls \in [Polls -> [phase : {"idle", "asked", "answered"}, from : Cursors,
                             page : SUBSET RowType]]
    BY DEF FeedInv, LogHolds, PollsHold
  <2>2. RelayTypeOK
    BY <2>1 DEF FeedInv, LogHolds, PollsHold, RelayTypeOK
  <2> QED
    BY <2>2 DEF FeedInv, ClientsHold, FeedTypeOK
<1> QED
  BY <1>1, AlwaysFeedInv, PTL

\* orderAggregateEvents sends the row that ends a subscription after every other
\* row of its Trip, because that row has the highest version of them all: a
\* Customer that follows the Trip misses no row of a page.
THEOREM WholePages == FeedSpec => []PagesArriveWhole
<1>1. FeedInv => PagesArriveWhole
  <2> SUFFICES ASSUME FeedInv, NEW p \in Polls, NEW c \in Customers,
                      NEW r \in polls[p].page, r.trip \in following[c],
                      NEW q \in polls[p].page, SentBefore(q, r)
               PROVE  ~Revokes(q, c)
    BY DEF PagesArriveWhole, Reaches
  <2>1. /\ q \in log /\ r \in log /\ q.trip = r.trip
        /\ q.version \in Nat /\ r.version \in Nat /\ q.at \in Nat /\ q.id \in Nat
        /\ q.driver \in Drivers \cup {NoDriver}
    BY DEF FeedInv, LogHolds, PollsHold, RowType, SentBefore
  <2>2. q.driver # c
    BY <2>1, FeedAssumption
  <2>3. q.kind # "final"
    <3>1. q # r
      BY <2>1 DEF SentBefore, Precedes
    <3>2. ~(r.version < q.version)
      BY <2>1 DEF SentBefore
    <3> QED
      BY <2>1, <3>1, <3>2 DEF FeedInv, LogHolds
  <2> QED
    BY <2>2, <2>3 DEF Revokes
<1> QED
  BY <1>1, AlwaysFeedInv, PTL

\* No order of overlapping polls, repeated pages, late snapshots, reconnections
\* and restarts shows a client an older version than the one it has.
THEOREM ScreensGoForward == FeedSpec => ScreensNeverGoBack
<1>1. FeedInv /\ [FeedNext]_tripFeedVars =>
        [\A c \in Clients, t \in Trips : screen'[c][t] >= screen[c][t]]_tripFeedVars
  BY FeedStepKeepsInv
<1> QED
  BY <1>1, AlwaysFeedInv, PTL DEF FeedSpec, ScreensNeverGoBack

===============================================================================
