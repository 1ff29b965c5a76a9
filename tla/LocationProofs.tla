---------------------------- MODULE LocationProofs ----------------------------
(***************************************************************************)
(* Proofs about the latest location of a Driver, for any pages, sockets,   *)
(* windows and paces: a page opened later is ahead of the earlier ones,    *)
(* one update is admitted in a window, and the marker of the Customer      *)
(* never moves back while the updates are sent in order.                   *)
(***************************************************************************)
EXTENDS Locations, TLAPS

(* The inductive invariant *)

PageStates == [counter : Nat, count : Nat, pause : Nat, captured : Int]
Updates    == [seq : Nat, captured : Int, by : Pages]
Rows       == [seq : Nat, captured : Int, received : Int]
Watchers   == [at : {"away", "reading", "live"}, snapshot : Rows, marker : Rows]

\* A page gains on the clock with an update, and loses that with the pause.
PageHolds(g) ==
  /\ g.count <= MaxUpdates /\ g.pause <= Pace /\ g.captured >= Never
  /\ g.counter = 0 \/ (10 <= g.counter /\ g.counter <= 10 + MaxTime + g.count)
  /\ g.counter <= now + 1
  /\ g.pause < Pace => g.counter <= now

PagesHold ==
  /\ now \in 10..(10 + MaxTime)
  /\ page \in [Pages -> PageStates]
  /\ \A p \in Pages : PageHolds(page[p])

\* What has been sent is behind the page that sent it.
Behind(m, g) == m.seq <= g.counter /\ m.captured <= g.captured

KnownUpdate(u) == u \in Updates /\ u.captured >= Never /\ Behind(u, page[u.by])
KnownRow(m) ==
  m \in Rows /\ m.captured >= Never /\ (m = Nothing \/ \E p \in Pages : Behind(m, page[p]))

ItemsHold ==
  /\ \A u \in sent : KnownUpdate(u)
  /\ \A u \in writing : KnownUpdate(u)
  /\ \A m \in onAir : KnownRow(m)
  /\ watcher \in Watchers
  /\ KnownRow(stored) /\ KnownRow(watcher.snapshot) /\ KnownRow(watcher.marker)

TimersHold == limiter \in Nat /\ entered \in Nat /\ quota \in Nat /\ entered <= limiter

\* Of two updates that are still to be written, or written last, the later one
\* was not captured earlier.
Agree(x, y) == x.seq < y.seq => x.captured <= y.captured

Ordered ==
  /\ \A x, y \in sent \cup writing : Agree(x, y)
  /\ stored # Nothing => \A x \in sent \cup writing : Agree(stored, x)
  /\ \A m \in onAir : m.captured <= stored.captured
  /\ watcher.marker.captured <= stored.captured
  /\ watcher.snapshot.captured <= stored.captured
  /\ (watcher.at = "reading" /\ watcher.snapshot # Nothing)
       => watcher.marker.captured <= watcher.snapshot.captured

OrderHolds == inOrder \in BOOLEAN /\ (inOrder = TRUE => Ordered)

LocationsInv == PagesHold /\ ItemsHold /\ TimersHold /\ OrderHolds

-------------------------------------------------------------------------------
(* The operators the actions are built from *)

LEMMA LessCounts ==
  ASSUME NEW n \in Nat
  PROVE  /\ Less(n) \in Nat /\ Less(n) <= n
         /\ n > 0 => Less(n) < n
         /\ \A k \in Nat : k <= n => Less(k) <= Less(n)
  BY DEF Less

LEMMA NothingIsARow == Nothing \in Rows
  BY DEF Nothing, Rows, Never

\* What the pages have left behind stays behind them as they move on.
PagesAdvance ==
  \A p \in Pages : /\ page'[p] \in PageStates
                   /\ page[p].counter <= page'[p].counter
                   /\ page[p].captured <= page'[p].captured

LEMMA BehindStays ==
  ASSUME page \in [Pages -> PageStates], PagesAdvance
  PROVE  /\ \A u : KnownUpdate(u) => KnownUpdate(u)'
         /\ \A m : KnownRow(m) => KnownRow(m)'
<1>1. ASSUME NEW u, KnownUpdate(u) PROVE KnownUpdate(u)'
  BY <1>1 DEF KnownUpdate, Updates, Behind, PagesAdvance, PageStates
<1>2. ASSUME NEW m, KnownRow(m) PROVE KnownRow(m)'
  BY <1>2 DEF KnownRow, Rows, Behind, PagesAdvance, PageStates
<1> QED
  BY <1>1, <1>2

-------------------------------------------------------------------------------
(* The pages *)

LEMMA OpensPageHolds ==
  ASSUME PagesHold, NEW p \in Pages, OpensPage(p)
  PROVE  PagesHold' /\ PagesAdvance
<1> USE LocationAssumption
<1>1. page[p] \in PageStates /\ page[p].counter = 0 /\ now \in Nat
  BY DEF PagesHold, OpensPage
<1>2. \A q \in Pages : page'[q] = IF q = p THEN [page[p] EXCEPT !.counter = now] ELSE page[q]
  BY DEF PagesHold, OpensPage
<1>3. page' \in [Pages -> PageStates]
  BY <1>1 DEF PagesHold, OpensPage, PageStates
<1>4. \A q \in Pages : PageHolds(page[q])'
  BY <1>1, <1>2 DEF PagesHold, PageHolds, PageStates, OpensPage
<1> QED
  BY <1>1, <1>2, <1>3, <1>4 DEF PagesHold, PagesAdvance, OpensPage, PageStates

LEMMA SendsHolds ==
  ASSUME PagesHold, NEW p \in Pages, NEW captured \in Int, Sends(p, captured)
  PROVE  PagesHold' /\ PagesAdvance
<1> USE LocationAssumption
<1> DEFINE g == [counter |-> page[p].counter + 1, count |-> page[p].count + 1,
                 pause |-> Pace, captured |-> captured]
<1>1. page[p] \in PageStates /\ PageHolds(page[p])
  BY DEF PagesHold
<1>2. page' = [page EXCEPT ![p] = g] /\ now' = now
  BY DEF Sends
<1>3. g \in PageStates
  BY <1>1 DEF PageStates
<1>4. page' \in [Pages -> PageStates] /\ \A q \in Pages : page'[q] = IF q = p THEN g ELSE page[q]
  BY <1>2, <1>3 DEF PagesHold
<1>5. g.counter <= now + 1 /\ PageHolds(g)
  <2>1. /\ page[p].counter > 0 /\ page[p].count < MaxUpdates /\ page[p].pause = 0
        /\ captured >= page[p].captured
    BY DEF Sends
  <2>2. /\ page[p].counter \in Nat /\ page[p].count \in Nat /\ page[p].captured \in Int
        /\ now \in Nat /\ Pace \in Nat \ {0} /\ MaxTime \in Nat /\ MaxUpdates \in Nat
    BY <1>1 DEF PagesHold, PageStates
  <2>3. /\ page[p].captured >= Never /\ Never \in Int /\ page[p].counter <= now
        /\ 10 <= page[p].counter /\ page[p].counter <= 10 + MaxTime + page[p].count
    BY <1>1, <2>1, <2>2 DEF PageHolds, Never
  <2> QED
    BY <2>1, <2>2, <2>3 DEF PageHolds
<1>6. \A q \in Pages : PageHolds(page[q])'
  BY <1>2, <1>4, <1>5 DEF PagesHold, PageHolds
<1> QED
  BY <1>1, <1>2, <1>4, <1>6 DEF PagesHold, PagesAdvance, PageStates, Sends

LEMMA TickHolds ==
  ASSUME PagesHold, Tick
  PROVE  PagesHold' /\ PagesAdvance
<1> USE LocationAssumption
<1>1. \A p \in Pages : page[p] \in PageStates /\ PageHolds(page[p])
  BY DEF PagesHold
<1>2. now' = now + 1 /\ now' \in 10..(10 + MaxTime) /\ now \in Nat
  BY DEF PagesHold, Tick
<1>3. ASSUME NEW p \in Pages
      PROVE  /\ page'[p] \in PageStates /\ PageHolds(page[p])'
             /\ page'[p].counter = page[p].counter /\ page'[p].captured = page[p].captured
  <2>1. page'[p] = [page[p] EXCEPT !.pause = Less(@)]
    BY <1>3 DEF Tick
  <2>2. /\ page'[p] \in PageStates
        /\ page'[p].counter = page[p].counter /\ page'[p].count = page[p].count
        /\ page'[p].captured = page[p].captured /\ page'[p].pause = Less(page[p].pause)
    BY <1>1, <1>3, <2>1, LessCounts DEF PageStates
  <2>3. page[p].pause \in Nat /\ Less(page[p].pause) < Pace
    BY <1>1, <1>3 DEF PageStates, PageHolds, Less
  <2> QED
    BY <1>1, <1>2, <1>3, <2>2, <2>3 DEF PageHolds, PageStates
<1>4. page' \in [Pages -> PageStates]
  BY <1>3 DEF Tick
<1> QED
  BY <1>1, <1>2, <1>3, <1>4 DEF PagesHold, PagesAdvance, PageStates

LEMMA PagesStep ==
  ASSUME PagesHold, [LocationsNext]_locationVars
  PROVE  PagesHold' /\ PagesAdvance
<1>1. ASSUME UNCHANGED <<page, now>> PROVE PagesHold' /\ PagesAdvance
  BY <1>1 DEF PagesHold, PageHolds, PagesAdvance, PageStates
<1>2. ASSUME NEW p \in Pages, OpensPage(p) PROVE PagesHold' /\ PagesAdvance
  BY <1>2, OpensPageHolds
<1>3. ASSUME NEW p \in Pages, NEW captured \in (now - MaxAge)..now, Sends(p, captured)
      PROVE  PagesHold' /\ PagesAdvance
  <2>1. captured \in Int
    BY <1>3, LocationAssumption DEF PagesHold
  <2> QED
    BY <1>3, <2>1, SendsHolds
<1>4. CASE Tick
  BY <1>4, TickHolds
<1>5. ASSUME NEW u, Arrives(u) \/ Writes(u) \/ Broadcasts(u) PROVE UNCHANGED <<page, now>>
  BY <1>5 DEF Arrives, Writes, Broadcasts
<1>6. CASE Restarts \/ ReadsSnapshot \/ Subscribes \/ Disconnects \/ UNCHANGED locationVars
  BY <1>1, <1>6 DEF Restarts, ReadsSnapshot, Subscribes, Disconnects, locationVars
<1> QED
  BY <1>1, <1>2, <1>3, <1>4, <1>5, <1>6 DEF LocationsNext

-------------------------------------------------------------------------------
(* What is on its way, and what is stored and shown *)

LEMMA ItemsStep ==
  ASSUME PagesHold, ItemsHold, PagesAdvance, [LocationsNext]_locationVars
  PROVE  ItemsHold'
<1> USE NothingIsARow
<1>1. /\ \A u : KnownUpdate(u) => KnownUpdate(u)'
      /\ \A m : KnownRow(m) => KnownRow(m)'
  BY BehindStays DEF PagesHold
<1>2. ASSUME UNCHANGED <<sent, writing, onAir, stored, watcher>> PROVE ItemsHold'
  BY <1>1, <1>2 DEF ItemsHold
<1>3. KnownRow(Nothing) /\ KnownRow(Nothing)'
  BY DEF KnownRow, Nothing, Never
<1>4. ASSUME NEW p \in Pages, NEW captured \in Int, Sends(p, captured)
      PROVE  ItemsHold'
  <2> PICK u : u = [seq |-> page[p].counter + 1, captured |-> captured, by |-> p]
    OBVIOUS
  <2>1. /\ sent' = sent \cup {u} /\ UNCHANGED <<writing, onAir, stored, watcher>>
        /\ page'[p].counter = page[p].counter + 1 /\ page'[p].captured = captured
    BY <1>4 DEF Sends, PagesHold
  <2>2. page[p].counter + 1 \in Nat /\ captured >= Never
    <3>1. /\ page[p].counter \in Nat /\ page[p].captured \in Int
          /\ page[p].captured >= Never /\ captured >= page[p].captured
      BY <1>4 DEF PagesHold, PageStates, PageHolds, Sends
    <3> QED
      BY <3>1 DEF Never
  <2>3. /\ u \in Updates /\ u.by = p
        /\ u.seq = page'[p].counter /\ u.captured = page'[p].captured /\ u.captured = captured
    BY <1>4, <2>1, <2>2 DEF Updates
  <2>4. u.seq \in Int /\ u.captured \in Int
    BY <2>3 DEF Updates
  <2>5. KnownUpdate(u)'
    <3>1. u.by = p /\ u.captured >= Never
      BY <2>2, <2>3
    <3>2. u.seq <= page'[p].counter /\ u.captured <= page'[p].captured
      BY <2>3, <2>4
    <3> QED
      BY <2>3, <3>1, <3>2 DEF KnownUpdate, Behind
  <2> QED
    BY <1>1, <2>1, <2>5 DEF ItemsHold
<1>5. ASSUME NEW u \in sent, Arrives(u) PROVE ItemsHold'
  <2>1. sent' \subseteq sent /\ writing' \subseteq writing \cup {u}
    BY <1>5 DEF Arrives, Admits
  <2> QED
    BY <1>1, <1>5, <2>1 DEF ItemsHold, Arrives
<1>6. ASSUME NEW u \in writing, Writes(u) PROVE ItemsHold'
  <2> PICK row : row = [seq |-> u.seq, captured |-> u.captured, received |-> now]
    OBVIOUS
  <2>1. /\ writing' \subseteq writing /\ UNCHANGED <<sent, watcher>>
        /\ stored' \in {stored, row} /\ onAir' \subseteq onAir \cup {row}
    BY <1>6 DEF Writes
  <2>2. KnownUpdate(u)' /\ now \in Int
    BY <1>1, <1>6 DEF ItemsHold, PagesHold
  <2>3. u.by \in Pages /\ u.captured >= Never /\ Behind(u, page[u.by])' /\ u.seq \in Nat /\ u.captured \in Int
    BY <2>2 DEF KnownUpdate, Updates
  <2>4. row \in Rows /\ row.seq = u.seq /\ row.captured = u.captured
    BY <2>2, <2>3 DEF Rows
  <2>5. KnownRow(row)'
    BY <2>3, <2>4 DEF KnownRow, Behind
  <2> QED
    BY <1>1, <2>1, <2>5 DEF ItemsHold
<1>7. ASSUME NEW m \in onAir, Broadcasts(m) PROVE ItemsHold'
  <2>1. /\ onAir' \subseteq onAir /\ UNCHANGED <<sent, writing, stored>>
        /\ watcher' = watcher \/ watcher' = [watcher EXCEPT !.marker = m]
    BY <1>7 DEF Broadcasts
  <2>2. /\ watcher' \in Watchers /\ watcher'.snapshot = watcher.snapshot
        /\ watcher'.marker \in {watcher.marker, m}
    BY <1>7, <2>1 DEF ItemsHold, Watchers, KnownRow
  <2> QED
    BY <1>1, <1>7, <2>1, <2>2 DEF ItemsHold
<1>8. ASSUME Restarts \/ Disconnects PROVE ItemsHold'
  <2>1. /\ writing' \subseteq writing /\ onAir' \subseteq onAir /\ UNCHANGED <<sent, stored>>
        /\ \/ watcher' = [watcher EXCEPT !.at = "away"]
           \/ watcher' = [watcher EXCEPT !.at = "away", !.snapshot = Nothing]
    BY <1>8 DEF Restarts, Disconnects
  <2>2. /\ watcher' \in Watchers /\ watcher'.marker = watcher.marker
        /\ watcher'.snapshot \in {watcher.snapshot, Nothing}
    BY <2>1 DEF ItemsHold, Watchers
  <2> QED
    BY <1>1, <1>3, <2>1, <2>2 DEF ItemsHold
<1>9. ASSUME ReadsSnapshot PROVE ItemsHold'
  <2> DEFINE read == IF now - stored.received <= Fresh THEN stored ELSE Nothing
  <2>1. watcher' = [watcher EXCEPT !.at = "reading", !.snapshot = read]
    BY <1>9 DEF ReadsSnapshot
  <2>2. read \in {stored, Nothing} /\ read \in Rows
    BY DEF ItemsHold, KnownRow
  <2> HIDE DEF read
  <2>3. /\ watcher' \in Watchers /\ watcher'.marker = watcher.marker
        /\ watcher'.snapshot = read
    BY <2>1, <2>2 DEF ItemsHold, Watchers
  <2> QED
    BY <1>1, <1>3, <1>9, <2>2, <2>3 DEF ItemsHold, ReadsSnapshot
<1>10. ASSUME Subscribes PROVE ItemsHold'
  <2>1. /\ watcher'.at = "live" /\ watcher'.snapshot = Nothing
        /\ watcher'.marker \in {watcher.snapshot, watcher.marker}
        /\ watcher' \in Watchers
    BY <1>10 DEF Subscribes, ItemsHold, Watchers, KnownRow
  <2> QED
    BY <1>1, <1>3, <1>10, <2>1 DEF ItemsHold, Subscribes
<1>11. \A p \in Pages : OpensPage(p) => UNCHANGED <<sent, writing, onAir, stored, watcher>>
  BY DEF OpensPage
<1>12. Tick \/ UNCHANGED locationVars => UNCHANGED <<sent, writing, onAir, stored, watcher>>
  BY DEF Tick, locationVars
<1>13. \A captured \in (now - MaxAge)..now : captured \in Int
  BY LocationAssumption DEF PagesHold
<1> QED
  BY <1>2, <1>4, <1>5, <1>6, <1>7, <1>8, <1>9, <1>10, <1>11, <1>12, <1>13 DEF LocationsNext

-------------------------------------------------------------------------------
(* The windows *)

LEMMA TimersStep ==
  ASSUME TimersHold, [LocationsNext]_locationVars
  PROVE  TimersHold' /\ (writing' \subseteq writing \/ entered = 0)
<1> USE LocationAssumption
<1>1. ASSUME UNCHANGED <<limiter, quota, entered, writing>>
      PROVE  TimersHold' /\ writing' \subseteq writing
  BY <1>1 DEF TimersHold
<1>2. ASSUME NEW u \in sent, Arrives(u)
      PROVE  TimersHold' /\ (writing' \subseteq writing \/ entered = 0)
  BY <1>2 DEF Arrives, Admits, TimersHold
<1>3. ASSUME Restarts PROVE TimersHold' /\ writing' \subseteq writing
  BY <1>3 DEF Restarts, TimersHold
<1>4. ASSUME Tick PROVE TimersHold' /\ writing' \subseteq writing
  BY <1>4, LessCounts DEF Tick, TimersHold
<1>5. ASSUME NEW u \in writing, Writes(u)
      PROVE  TimersHold' /\ writing' \subseteq writing
  BY <1>5 DEF Writes, TimersHold
<1>6. ASSUME NEW p \in Pages, NEW captured, OpensPage(p) \/ Sends(p, captured)
      PROVE  UNCHANGED <<limiter, quota, entered, writing>>
  BY <1>6 DEF OpensPage, Sends
<1>7. ASSUME NEW m, Broadcasts(m) PROVE UNCHANGED <<limiter, quota, entered, writing>>
  BY <1>7 DEF Broadcasts
<1>8. CASE ReadsSnapshot \/ Subscribes \/ Disconnects \/ UNCHANGED locationVars
  BY <1>1, <1>8 DEF ReadsSnapshot, Subscribes, Disconnects, locationVars
<1> QED
  BY <1>1, <1>2, <1>3, <1>4, <1>5, <1>6, <1>7, <1>8 DEF LocationsNext

-------------------------------------------------------------------------------
(* The order of the updates *)

\* A step that only drops updates and broadcasts, and keeps row and marker.
LEMMA FewerStayOrdered ==
  ASSUME ItemsHold, Ordered, sent' \cup writing' \subseteq sent \cup writing, onAir' \subseteq onAir,
         stored' = stored, watcher'.marker = watcher.marker,
         watcher'.snapshot \in {watcher.snapshot, Nothing, stored},
         (watcher'.at = "reading" /\ watcher'.snapshot # Nothing)
           => watcher.marker.captured <= watcher'.snapshot.captured
  PROVE  Ordered'
<1>1. /\ stored.captured >= Never /\ stored.captured \in Int
      /\ stored.captured <= stored.captured /\ Nothing.captured <= stored.captured
  BY DEF ItemsHold, KnownRow, Rows, Nothing, Never
<1> QED
  BY <1>1 DEF Ordered

\* The update a page sends is ahead of all that are still to be written.
LEMMA LastIsAhead ==
  ASSUME PagesHold, ItemsHold, NEW p \in Pages, NEW captured \in Int, Sends(p, captured),
         inOrder' = TRUE
  PROVE  /\ inOrder = TRUE
         /\ \A x \in sent \cup writing :
              x.seq < page[p].counter + 1 /\ x.captured <= captured
         /\ stored # Nothing => stored.captured <= captured
<1> DEFINE seq == page[p].counter + 1
<1>1. inOrder' = (inOrder /\ \A q \in Pages : page[q].counter < seq /\ page[q].captured <= captured)
  BY DEF Sends
<1>2. \A q \in Pages : page[q].counter < seq /\ page[q].captured <= captured
  BY <1>1
<1>4. ASSUME NEW x \in sent \cup writing
      PROVE  x.seq < seq /\ x.captured <= captured
  <2>1. KnownUpdate(x)
    BY <1>4 DEF ItemsHold
  <2>2. /\ x.by \in Pages /\ x.seq \in Nat /\ x.captured \in Int
        /\ x.seq <= page[x.by].counter /\ x.captured <= page[x.by].captured
    BY <2>1 DEF KnownUpdate, Updates, Behind
  <2>3. page[x.by] \in PageStates /\ page[p] \in PageStates
    BY <2>2 DEF PagesHold
  <2> QED
    BY <1>2, <2>2, <2>3 DEF PageStates
<1>5. ASSUME stored # Nothing PROVE stored.captured <= captured
  <2>1. PICK q \in Pages : Behind(stored, page[q])
    BY <1>5 DEF ItemsHold, KnownRow
  <2>2. stored.captured \in Int /\ stored.captured <= page[q].captured
    BY <2>1 DEF ItemsHold, KnownRow, Rows, Behind
  <2>3. page[q].captured \in Int /\ page[q].captured <= captured
    BY <1>2 DEF PagesHold, PageStates
  <2> QED
    BY <2>2, <2>3
<1>6. inOrder = TRUE \/ inOrder # TRUE
  OBVIOUS
<1> QED
  BY <1>1, <1>4, <1>5

LEMMA SendsKeepsOrder ==
  ASSUME PagesHold, ItemsHold, NEW p \in Pages, NEW captured \in Int, Sends(p, captured),
         OrderHolds, inOrder' = TRUE
  PROVE  Ordered'
<1> PICK u : u = [seq |-> page[p].counter + 1, captured |-> captured, by |-> p]
  OBVIOUS
<1>1. /\ sent' = sent \cup {u} /\ UNCHANGED <<writing, onAir, stored, watcher>>
      /\ u.seq = page[p].counter + 1 /\ u.captured = captured /\ u.seq \in Int
  BY DEF Sends, PagesHold, PageStates
<1>2. /\ inOrder = TRUE
      /\ \A x \in sent \cup writing : x.seq < u.seq /\ x.captured <= u.captured
      /\ stored # Nothing => stored.captured <= u.captured
  BY <1>1, LastIsAhead
<1>3. Ordered
  BY <1>2 DEF OrderHolds
<1>4. \A x \in sent \cup writing : Agree(x, u) /\ Agree(u, x)
  BY <1>1, <1>2 DEF Agree, ItemsHold, KnownUpdate, Updates
<1>5. Agree(u, u)
  BY <1>1 DEF Agree
<1>6. stored # Nothing => Agree(stored, u)
  BY <1>2 DEF Agree
<1>7. sent' \cup writing' = sent \cup writing \cup {u}
  BY <1>1
<1>8. \A x, y \in sent' \cup writing' : Agree(x, y)
  BY <1>3, <1>4, <1>5, <1>7 DEF Ordered
<1>9. stored' # Nothing => \A x \in sent' \cup writing' : Agree(stored', x)
  BY <1>1, <1>2, <1>3, <1>6, <1>7 DEF Ordered
<1> QED
  BY <1>1, <1>3, <1>8, <1>9 DEF Ordered, Agree

\* The row moves forward only, and the broadcasts and the marker with it.
LEMMA WritesKeepsOrder ==
  ASSUME PagesHold, ItemsHold, Ordered, NEW u \in writing, Writes(u)
  PROVE  Ordered'
<1> PICK row : row = [seq |-> u.seq, captured |-> u.captured, received |-> now]
  OBVIOUS
<1>1. /\ sent' \cup writing' \subseteq sent \cup writing /\ UNCHANGED watcher
      /\ \/ stored' = stored /\ onAir' \subseteq onAir
         \/ Supersedes(u) /\ stored' = row /\ onAir' \subseteq onAir \cup {row}
      /\ row.seq = u.seq /\ row.captured = u.captured
  BY DEF Writes
<1>2. CASE stored' = stored /\ onAir' \subseteq onAir
  <2>1. watcher' = watcher
    BY <1>1
  <2> QED
    BY <1>1, <1>2, <2>1, FewerStayOrdered DEF Ordered
<1>3. CASE Supersedes(u) /\ stored' = row /\ onAir' \subseteq onAir \cup {row}
  <2>1. /\ u.seq \in Int /\ u.captured \in Int /\ stored.seq \in Int /\ stored.captured \in Int
        /\ Never \in Int /\ watcher.marker.captured \in Int
        /\ \A m \in onAir : m.captured \in Int
    BY DEF ItemsHold, KnownUpdate, KnownRow, Updates, Rows, Never, Watchers
  <2>2. u.captured >= stored.captured
    <3>1. CASE stored = Nothing
      BY <2>1, <3>1 DEF ItemsHold, KnownUpdate, Nothing
    <3>2. CASE stored # Nothing
      <4>1. Agree(stored, u)
        BY <3>2 DEF Ordered
      <4> QED
        BY <1>3, <2>1, <3>2, <4>1 DEF Agree, Supersedes
    <3> QED
      BY <3>1, <3>2
  <2>3. \A x, y \in sent' \cup writing' : Agree(x, y)
    BY <1>1 DEF Ordered
  <2>4. \A x \in sent' \cup writing' : Agree(u, x) /\ x.captured \in Int
    BY <1>1 DEF Ordered, ItemsHold, KnownUpdate, Updates
  <2>5. stored' # Nothing => \A x \in sent' \cup writing' : Agree(stored', x)
    BY <1>1, <1>3, <2>4 DEF Agree
  <2>6. watcher'.snapshot.captured <= stored'.captured
    <3>1. watcher.snapshot.captured \in Int /\ watcher.snapshot.captured <= stored.captured
      BY DEF Ordered, ItemsHold, KnownRow, Rows
    <3> QED
      BY <1>1, <1>3, <2>1, <2>2, <3>1
  <2>7. \A m \in onAir' : m.captured <= stored'.captured
    BY <1>1, <1>3, <2>1, <2>2 DEF Ordered
  <2>8. watcher'.marker.captured <= stored'.captured
    BY <1>1, <1>3, <2>1, <2>2 DEF Ordered
  <2> QED
    BY <1>1, <2>3, <2>5, <2>6, <2>7, <2>8 DEF Ordered
<1> QED
  BY <1>1, <1>2, <1>3

LEMMA ShowingKeepsOrder ==
  ASSUME PagesHold, ItemsHold, Ordered,
         \/ \E m \in onAir : Broadcasts(m)
         \/ Restarts \/ ReadsSnapshot \/ Subscribes \/ Disconnects
  PROVE  Ordered' /\ watcher'.marker.captured >= watcher.marker.captured
<1> DEFINE Grows == watcher'.marker.captured >= watcher.marker.captured
<1>1. /\ watcher \in Watchers /\ watcher.marker.captured \in Int /\ stored.captured \in Int
      /\ watcher.marker.captured >= watcher.marker.captured
  BY DEF ItemsHold, Watchers, Rows, KnownRow
<1>2. ASSUME NEW m \in onAir, Broadcasts(m) PROVE Ordered' /\ Grows
  <2>1. /\ UNCHANGED <<sent, writing, stored>> /\ onAir' \subseteq onAir
        /\ \/ watcher' = watcher
           \/ watcher.at = "live" /\ IsNewer(m) /\ watcher' = [watcher EXCEPT !.marker = m]
    BY <1>2 DEF Broadcasts
  <2>2. CASE watcher' = watcher
    BY <1>1, <2>1, <2>2, FewerStayOrdered DEF Ordered
  <2>3. CASE watcher.at = "live" /\ IsNewer(m) /\ watcher' = [watcher EXCEPT !.marker = m]
    <3>1. watcher'.at = "live" /\ watcher'.marker = m /\ watcher'.snapshot = watcher.snapshot
      BY <1>1, <2>3 DEF Watchers
    <3>2. m.captured \in Int /\ m.captured <= stored.captured
      BY <1>2 DEF ItemsHold, KnownRow, Rows, Ordered
    <3>3. m.captured >= watcher.marker.captured
      BY <1>1, <2>3, <3>2 DEF IsNewer
    <3> QED
      BY <2>1, <3>1, <3>2, <3>3 DEF Ordered
  <2> QED
    BY <2>1, <2>2, <2>3
<1>3. ASSUME Restarts \/ Disconnects PROVE Ordered' /\ Grows
  <2>1. /\ writing' \subseteq writing /\ onAir' \subseteq onAir /\ UNCHANGED <<sent, stored>>
        /\ \/ watcher' = [watcher EXCEPT !.at = "away"]
           \/ watcher' = [watcher EXCEPT !.at = "away", !.snapshot = Nothing]
    BY <1>3 DEF Restarts, Disconnects
  <2>2. /\ watcher'.at = "away" /\ watcher'.marker = watcher.marker
        /\ watcher'.snapshot \in {watcher.snapshot, Nothing}
    BY <1>1, <2>1 DEF Watchers
  <2> QED
    BY <1>1, <2>1, <2>2, FewerStayOrdered
<1>4. ASSUME ReadsSnapshot PROVE Ordered' /\ Grows
  <2> DEFINE read == IF now - stored.received <= Fresh THEN stored ELSE Nothing
  <2>1. watcher' = [watcher EXCEPT !.at = "reading", !.snapshot = read]
    BY <1>4 DEF ReadsSnapshot
  <2>2. read \in {stored, Nothing}
    OBVIOUS
  <2> HIDE DEF read
  <2>3. watcher'.marker = watcher.marker /\ watcher'.snapshot = read
    BY <1>1, <2>1 DEF Watchers
  <2>4. watcher'.snapshot # Nothing => watcher.marker.captured <= watcher'.snapshot.captured
    BY <2>2, <2>3 DEF Ordered
  <2> QED
    BY <1>1, <1>4, <2>2, <2>3, <2>4, FewerStayOrdered DEF ReadsSnapshot
<1>5. ASSUME Subscribes PROVE Ordered' /\ Grows
  <2>1. /\ watcher.at = "reading" /\ watcher'.at = "live" /\ watcher'.snapshot = Nothing
        /\ \/ watcher'.marker = watcher.marker
           \/ watcher.snapshot # Nothing /\ watcher'.marker = watcher.snapshot
        /\ UNCHANGED <<sent, writing, onAir, stored>>
    BY <1>5 DEF Subscribes
  <2>2. /\ watcher.snapshot.captured \in Int /\ stored.captured >= Never
        /\ Nothing.captured = Never /\ Never \in Int
    BY DEF ItemsHold, KnownRow, Rows, Nothing, Never
  <2>3. watcher'.marker.captured <= stored.captured /\ Nothing.captured <= stored.captured /\ Grows
    BY <1>1, <2>1, <2>2 DEF Ordered
  <2> QED
    BY <2>1, <2>3 DEF Ordered
<1> QED
  BY <1>2, <1>3, <1>4, <1>5

LEMMA OrderStep ==
  ASSUME PagesHold, ItemsHold, OrderHolds, [LocationsNext]_locationVars
  PROVE  OrderHolds' /\ (inOrder = TRUE => watcher'.marker.captured >= watcher.marker.captured)
<1>1. /\ watcher.marker.captured \in Int
      /\ watcher.marker.captured >= watcher.marker.captured
  BY DEF ItemsHold, Watchers, Rows
<1>2. ASSUME NEW p \in Pages, NEW captured \in (now - MaxAge)..now, Sends(p, captured)
      PROVE  OrderHolds' /\ watcher' = watcher
  <2>1. captured \in Int
    BY <1>2, LocationAssumption DEF PagesHold
  <2>2. inOrder' = TRUE => Ordered'
    BY <1>2, <2>1, SendsKeepsOrder
  <2>3. inOrder' \in BOOLEAN /\ watcher' = watcher
    BY <1>2 DEF Sends
  <2> QED
    BY <2>2, <2>3 DEF OrderHolds
<1>3. ASSUME NEW u \in sent, Arrives(u)
      PROVE  OrderHolds' /\ watcher' = watcher
  <2>1. /\ sent' \cup writing' \subseteq sent \cup writing /\ UNCHANGED inOrder
        /\ watcher' = watcher /\ stored' = stored /\ onAir' = onAir
    BY <1>3 DEF Arrives, Admits
  <2> QED
    BY <2>1, FewerStayOrdered DEF OrderHolds, Ordered
<1>4. ASSUME NEW u \in writing, Writes(u)
      PROVE  OrderHolds' /\ watcher' = watcher
  <2>1. inOrder' = inOrder /\ watcher' = watcher
    BY <1>4 DEF Writes
  <2> QED
    BY <1>4, <2>1, WritesKeepsOrder DEF OrderHolds
<1>5. CASE \/ \E m \in onAir : Broadcasts(m)
           \/ Restarts \/ ReadsSnapshot \/ Subscribes \/ Disconnects
  <2>1. inOrder' = inOrder
    BY <1>5 DEF Broadcasts, Restarts, ReadsSnapshot, Subscribes, Disconnects
  <2> QED
    BY <1>5, <2>1, ShowingKeepsOrder DEF OrderHolds
<1>6. CASE Tick \/ (\E p \in Pages : OpensPage(p)) \/ UNCHANGED locationVars
  <2>1. UNCHANGED <<sent, writing, onAir, stored, watcher, inOrder>>
    BY <1>6 DEF Tick, OpensPage, locationVars
  <2> QED
    BY <1>1, <2>1 DEF OrderHolds, Ordered
<1> QED
  BY <1>1, <1>2, <1>3, <1>4, <1>5, <1>6 DEF LocationsNext

-------------------------------------------------------------------------------

LEMMA LocationsInvInitially == LocationsInit => LocationsInv
<1> SUFFICES ASSUME LocationsInit PROVE LocationsInv
  OBVIOUS
<1> USE LocationAssumption
<1>1. PagesHold
  BY DEF LocationsInit, PagesHold, PageStates, PageHolds, Never
<1>2. KnownRow(Nothing)
  BY NothingIsARow DEF KnownRow, Nothing, Never
<1>3. ItemsHold
  BY <1>2, NothingIsARow DEF LocationsInit, ItemsHold, Watchers
<1>4. TimersHold
  BY DEF LocationsInit, TimersHold
<1>5. OrderHolds
  BY DEF LocationsInit, OrderHolds, Ordered, Nothing, Never
<1> QED
  BY <1>1, <1>3, <1>4, <1>5 DEF LocationsInv

LEMMA LocationsInvStep ==
  ASSUME LocationsInv, [LocationsNext]_locationVars
  PROVE  LocationsInv'
  BY PagesStep, ItemsStep, TimersStep, OrderStep DEF LocationsInv

\* The invariant the theorems about the latest location rest on: pages keep
\* pace with the clock, everything on its way was sent by one of them, and what
\* is sent in order is kept in order.
THEOREM LocationsInvAlways == LocationsSpec => []LocationsInv
  BY LocationsInvInitially, LocationsInvStep, PTL DEF LocationsSpec

\* What is stored, broadcast, read or shown always names an update some page
\* has sent, and no counter leaves its range.
THEOREM LocationTypes == LocationsSpec => []LocationTypeOK
<1>1. LocationsInv => LocationTypeOK
  <2> SUFFICES ASSUME LocationsInv PROVE LocationTypeOK
    OBVIOUS
  <2> USE LocationAssumption
  <2>1. \A p \in Pages : page[p].counter \in {0} \cup 10..(10 + MaxTime + MaxUpdates)
    BY DEF LocationsInv, PagesHold, PageHolds, PageStates
  <2>2. \A u \in sent \cup writing : u.seq <= page[u.by].counter
    BY DEF LocationsInv, ItemsHold, KnownUpdate, Behind
  <2>3. \A m \in {stored, watcher.snapshot, watcher.marker} \cup onAir :
          m = Nothing \/ \E p \in Pages : m.seq <= page[p].counter
    BY DEF LocationsInv, ItemsHold, KnownRow, Behind
  <2>4. watcher.at \in {"away", "reading", "live"}
    BY DEF LocationsInv, ItemsHold, Watchers
  <2> QED
    BY <2>1, <2>2, <2>3, <2>4 DEF LocationTypeOK
<1> QED
  BY <1>1, LocationsInvAlways, PTL

\* A page is opened at the time in seconds, and no page that has paused since
\* its last update has got further than that.
THEOREM PagesOpenAhead == LocationsSpec => LaterPageIsAhead
<1>1. ASSUME LocationsInv, LocationsNext,
             NEW p \in Pages, NEW q \in Pages,
             page[q].counter = 0, page'[q].counter > 0, page[p].pause < Pace
      PROVE  page[p].counter <= page'[q].counter
  <2>1. page[p].counter <= now /\ page[p].counter \in Nat /\ now \in Nat
    BY <1>1 DEF LocationsInv, PagesHold, PageHolds, PageStates
  <2>2. OpensPage(q)
    <3>1. page'[q].counter # page[q].counter
      BY <1>1
    <3>2. ASSUME NEW x \in Pages, NEW captured, Sends(x, captured) PROVE FALSE
      BY <1>1, <3>1, <3>2 DEF Sends, LocationsInv, PagesHold
    <3>3. ASSUME NEW x \in Pages, OpensPage(x) PROVE x = q
      BY <3>1, <3>3 DEF OpensPage, LocationsInv, PagesHold
    <3>4. ~Tick
      <4>1. page[q] \in PageStates
        BY <1>1 DEF LocationsInv, PagesHold
      <4>2. Tick => page'[q] = [page[q] EXCEPT !.pause = Less(@)]
        BY DEF Tick
      <4> QED
        BY <3>1, <4>1, <4>2 DEF PageStates
    <3>5. ASSUME NEW u, Arrives(u) \/ Writes(u) \/ Broadcasts(u) PROVE FALSE
      BY <3>1, <3>5 DEF Arrives, Writes, Broadcasts
    <3>6. ~(Restarts \/ ReadsSnapshot \/ Subscribes \/ Disconnects)
      BY <3>1 DEF Restarts, ReadsSnapshot, Subscribes, Disconnects
    <3> QED
      BY <1>1, <3>2, <3>3, <3>4, <3>5, <3>6 DEF LocationsNext
  <2>3. page'[q].counter = now
    BY <1>1, <2>2 DEF OpensPage, LocationsInv, PagesHold, PageStates
  <2> QED
    BY <2>1, <2>3
<1>2. LocationsInv /\ [LocationsNext]_locationVars
        => [\A p, q \in Pages :
              (page[q].counter = 0 /\ page'[q].counter > 0 /\ page[p].pause < Pace)
                => page[p].counter <= page'[q].counter]_locationVars
  BY <1>1
<1> QED
  BY <1>2, LocationsInvAlways, PTL DEF LocationsSpec, LaterPageIsAhead

\* The window reserved before the write keeps every other update out.
THEOREM OneIsAdmitted == LocationsSpec => OneAdmissionPerWindow
<1>1. LocationsInv /\ [LocationsNext]_locationVars
        => [writing' \subseteq writing \/ entered = 0]_locationVars
  BY TimersStep DEF LocationsInv
<1> QED
  BY <1>1, LocationsInvAlways, PTL DEF LocationsSpec, OneAdmissionPerWindow

\* While the updates are sent in order, the marker follows them forward.
THEOREM MarkerMovesForward == LocationsSpec => MarkerNeverGoesBack
<1>1. LocationsInv /\ [LocationsNext]_locationVars
        => [inOrder => watcher'.marker.captured >= watcher.marker.captured]_locationVars
  <2>1. ASSUME LocationsInv, [LocationsNext]_locationVars, inOrder
        PROVE  watcher'.marker.captured >= watcher.marker.captured
    <3>1. inOrder = TRUE
      BY <2>1 DEF LocationsInv, OrderHolds
    <3> QED
      BY <2>1, <3>1, OrderStep DEF LocationsInv
  <2> QED
    BY <2>1
<1> QED
  BY <1>1, LocationsInvAlways, PTL DEF LocationsSpec, MarkerNeverGoesBack

===============================================================================
