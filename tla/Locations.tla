------------------------------ MODULE Locations ------------------------------
(***************************************************************************)
(* The latest location of a Driver: the pages that send it, the admission  *)
(* control of the gateway and of location.service.ts, the upsert that      *)
(* drops what is out of order (location.repository.ts), and the marker on  *)
(* the Delivery page of the Customer, fed by snapshots of the row and by   *)
(* live messages.  Updates overtake each other on the network, between     *)
(* their admission and their write, and between their write and their      *)
(* broadcast.  One unit of time stands for a second.                       *)
(***************************************************************************)
EXTENDS Integers, FiniteSets

CONSTANTS
  Pages,         \* the pages, or devices, the Driver opens one after another
  Sockets,       \* those that send on the WebSocket; the web application uses PUT
  Pace,          \* a page's pause between two updates, 2.8 s, in whole seconds
  Window,        \* the window of one admission
  Fresh,         \* the age at which a snapshot leaves a location out
  MaxAge,        \* maximumAge, of a position the browser has cached
  MaxTime,       \* bounds of an instance: the seconds that pass,
  MaxUpdates     \* and the updates of a page

ASSUME LocationAssumption ==
  /\ Sockets \subseteq Pages
  /\ {Pace, Window, Fresh, MaxTime, MaxUpdates} \subseteq Nat \ {0} /\ MaxAge \in Nat

VARIABLES
  now,         \* the time
  page,        \* each page: its counter, the pause before its next update, its last position
  sent,        \* updates on their way to the API
  writing,     \* updates admitted and not written yet
  limiter,     \* what is left of the window of the rate limiter,
  quota,       \* of the window of the gateway's location quota,
  entered,     \* and of Window since this process last admitted an update
  stored,      \* the row of latest_driver_locations
  onAir,       \* accepted updates whose broadcast is still to come
  watcher,     \* the Customer's connection, the snapshot read for it, the marker
  inOrder      \* every update so far was newer than all that were sent before it

locationVars ==
  <<now, page, sent, writing, limiter, quota, entered, stored, onAir, watcher, inOrder>>

Never   == -100                       \* longer ago than any window
Nothing == [seq |-> 0, captured |-> Never, received |-> Never]

LocationsInit ==
  /\ now = 10
  /\ page = [p \in Pages |-> [counter |-> 0, count |-> 0, pause |-> 0, captured |-> Never]]
  /\ sent = {} /\ writing = {} /\ limiter = 0 /\ quota = 0 /\ entered = 0
  /\ stored = Nothing /\ onAir = {} /\ inOrder = TRUE
  /\ watcher = [at |-> "away", snapshot |-> Nothing, marker |-> Nothing]

-------------------------------------------------------------------------------
(* The Driver's pages *)

\* Mutant of OpensPage: the counter is seeded with milliseconds.
OpensPageInMilliseconds(p) ==
  /\ page[p].counter = 0
  /\ page' = [page EXCEPT ![p].counter = 1000 * now]
  /\ UNCHANGED <<now, sent, writing, limiter, quota, entered, stored, onAir, watcher, inOrder>>

\* A page's counter starts at the time in seconds.
OpensPage(p) ==
  /\ page[p].counter = 0
  /\ page' = [page EXCEPT ![p].counter = now]
  /\ UNCHANGED <<now, sent, writing, limiter, quota, entered, stored, onAir, watcher, inOrder>>

\* Mutant of Sends: every position is sent.
SendsEveryFix(p, captured) ==
  LET seq == page[p].counter + 1
  IN  /\ page[p].counter > 0 /\ page[p].count < MaxUpdates
      /\ captured >= page[p].captured
      /\ page' = [page EXCEPT ![p] =
           [counter |-> seq, count |-> @.count + 1, pause |-> Pace, captured |-> captured]]
      /\ sent' = sent \cup {[seq |-> seq, captured |-> captured, by |-> p]}
      /\ inOrder' = (inOrder /\ \A q \in Pages : /\ page[q].counter < seq
                                                 /\ page[q].captured <= captured)
      /\ UNCHANGED <<now, writing, limiter, quota, entered, stored, onAir, watcher>>

\* sendLocation, for a position the browser may have cached.  An update that is
\* lost is one that never arrives.
Sends(p, captured) ==
  LET seq == page[p].counter + 1
  IN  /\ page[p].counter > 0 /\ page[p].count < MaxUpdates
      /\ page[p].pause = 0 /\ captured >= page[p].captured
      /\ page' = [page EXCEPT ![p] =
           [counter |-> seq, count |-> @.count + 1, pause |-> Pace, captured |-> captured]]
      /\ sent' = sent \cup {[seq |-> seq, captured |-> captured, by |-> p]}
      /\ inOrder' = (inOrder /\ \A q \in Pages : /\ page[q].counter < seq
                                                 /\ page[q].captured <= captured)
      /\ UNCHANGED <<now, writing, limiter, quota, entered, stored, onAir, watcher>>

-------------------------------------------------------------------------------
(* The API *)

\* Mutant of Admits: the window is not reserved.
AdmitsUnreserved(u) ==
  /\ entered' = Window /\ writing' = writing \cup {u} /\ UNCHANGED limiter

\* tryAccept reserves the window before the write.
Admits(u) ==
  /\ limiter' = Window /\ entered' = Window /\ writing' = writing \cup {u}

\* consumeActorLocationQuota comes first for a socket, and counts an update that
\* the limiter refuses.
Arrives(u) ==
  /\ sent' = sent \ {u}
  /\ quota' = IF u.by \in Sockets /\ quota = 0 THEN Window ELSE quota
  /\ IF limiter = 0 /\ (u.by \in Sockets => quota = 0)
       THEN Admits(u) ELSE UNCHANGED <<limiter, entered, writing>>
  /\ UNCHANGED <<now, page, stored, onAir, watcher, inOrder>>

\* upsertLatest writes over a row only what has a higher sequence number, or the
\* same one and a later capture time.
Supersedes(u) ==
  \/ stored = Nothing
  \/ u.seq > stored.seq
  \/ u.seq = stored.seq /\ u.captured > stored.captured

Writes(u) ==
  LET row == [seq |-> u.seq, captured |-> u.captured, received |-> now]
  IN  /\ writing' = writing \ {u}
      /\ stored' = IF Supersedes(u) THEN row ELSE stored
      /\ onAir' = IF Supersedes(u) /\ u.by \in Sockets THEN onAir \cup {row} ELSE onAir
      /\ UNCHANGED <<now, page, sent, limiter, quota, entered, watcher, inOrder>>

\* Mutant of IsNewer: the marker takes what came last.
IsNewerAlways(m) == m # watcher.marker

\* isNewerDriverLocation, on the Customer's page.
IsNewer(m) ==
  \/ m.captured > watcher.marker.captured
  \/ m.captured = watcher.marker.captured /\ m.received > watcher.marker.received

\* broadcastDelivery reaches who is subscribed by now.
Broadcasts(m) ==
  /\ onAir' = onAir \ {m}
  /\ watcher' = IF watcher.at = "live" /\ IsNewer(m)
                  THEN [watcher EXCEPT !.marker = m] ELSE watcher
  /\ UNCHANGED <<now, page, sent, writing, limiter, quota, entered, stored, inOrder>>

\* The process starts anew: what it had in memory and in hand is gone.
Restarts ==
  /\ writing' = {} /\ onAir' = {} /\ limiter' = 0 /\ quota' = 0 /\ entered' = 0
  /\ watcher' = [watcher EXCEPT !.at = "away"]
  /\ UNCHANGED <<now, page, sent, stored, inOrder>>

-------------------------------------------------------------------------------
(* The Customer's page *)

\* subscribe reads the snapshot ...
ReadsSnapshot ==
  /\ watcher.at = "away"
  /\ watcher' = [watcher EXCEPT !.at = "reading",
       !.snapshot = IF now - stored.received <= Fresh THEN stored ELSE Nothing]
  /\ UNCHANGED <<now, page, sent, writing, limiter, quota, entered, stored, onAir, inOrder>>

\* ... and subscribes in a later turn; a snapshot with a location replaces the
\* marker.
Subscribes ==
  /\ watcher.at = "reading"
  /\ watcher' = [at |-> "live", snapshot |-> Nothing,
       marker |-> IF watcher.snapshot # Nothing THEN watcher.snapshot ELSE watcher.marker]
  /\ UNCHANGED <<now, page, sent, writing, limiter, quota, entered, stored, onAir, inOrder>>

\* The connection is lost, and the marker stays.
Disconnects ==
  /\ watcher.at # "away"
  /\ watcher' = [watcher EXCEPT !.at = "away", !.snapshot = Nothing]
  /\ UNCHANGED <<now, page, sent, writing, limiter, quota, entered, stored, onAir, inOrder>>

Less(left) == IF left > 0 THEN left - 1 ELSE 0

Tick ==
  /\ now < 10 + MaxTime /\ now' = now + 1
  /\ limiter' = Less(limiter) /\ quota' = Less(quota) /\ entered' = Less(entered)
  /\ page' = [p \in Pages |-> [page[p] EXCEPT !.pause = Less(@)]]
  /\ UNCHANGED <<sent, writing, stored, onAir, watcher, inOrder>>

LocationsNext ==
  \/ \E p \in Pages : OpensPage(p) \/ \E captured \in (now - MaxAge)..now : Sends(p, captured)
  \/ \E u \in sent : Arrives(u)
  \/ \E u \in writing : Writes(u)
  \/ \E m \in onAir : Broadcasts(m)
  \/ Restarts \/ ReadsSnapshot \/ Subscribes \/ Disconnects \/ Tick

LocationsSpec == LocationsInit /\ [][LocationsNext]_locationVars

-------------------------------------------------------------------------------
(* Properties *)

\* Every variable keeps its type; the row and whatever comes from it name an
\* update some page has sent.
LocationTypeOK ==
  /\ \A p \in Pages : page[p].counter \in {0} \cup 10..(10 + MaxTime + MaxUpdates)
  /\ \A u \in sent \cup writing : u.seq <= page[u.by].counter
  /\ \A m \in {stored, watcher.snapshot, watcher.marker} \cup onAir :
       m = Nothing \/ \E p \in Pages : m.seq <= page[p].counter
  /\ watcher.at \in {"away", "reading", "live"}

\* A page that is opened, or loaded again, starts above every number an earlier
\* page has used, so that its updates are not dropped as stale: the counter is
\* seeded with seconds and a page sends less than once a second.
LaterPageIsAhead ==
  [][\A p, q \in Pages :
       (page[q].counter = 0 /\ page'[q].counter > 0 /\ page[p].pause < Pace)
         => page[p].counter <= page'[q].counter]_locationVars

\* driver-location-rate-limiter.ts: reserving the window before the write keeps
\* concurrent requests, on either path, from both being admitted within it.
OneAdmissionPerWindow ==
  [][writing' \subseteq writing \/ entered = 0]_locationVars

\* The marker never moves back in time while the updates are sent in order, in
\* whatever order they are written, broadcast or read as a snapshot.
MarkerNeverGoesBack ==
  [][inOrder => watcher'.marker.captured >= watcher.marker.captured]_locationVars

===============================================================================
