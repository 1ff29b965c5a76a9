----------------------------- MODULE SessionProofs -----------------------------
(***************************************************************************)
(* A family of refresh sessions has one live session, one that ended never *)
(* comes back, a browser whose requests never overlap replays no token of  *)
(* its own, and no message of a connection starts once a heartbeat has     *)
(* asked about a session that is gone: proved for any number of tabs,      *)
(* requests, connections and sessions.                                     *)
(***************************************************************************)
EXTENDS Connections, TLAPS, SequenceTheorems

(* The inductive invariant *)

Statuses == {"ACTIVE", "ROTATED", "REVOKED", "EXPIRED"}
Rows == [family : Nat, status : Statuses, lapsed : BOOLEAN]

Requests ==
  [op : {"LOGIN", "REFRESH", "LOGOUT"}, from : Tabs \cup {Nobody}, token : Nat,
   at : {"sent", "rotating", "revoking", "answered"}, seen : SUBSET Nat, answer : Nat]

\* A family is named after its first session.
RowsHold ==
  /\ sessions \in Seq(Rows)
  /\ \A s \in 1..Len(sessions) : sessions[s].family \in 1..s

\* An access token in a tab was issued with a session.
TabsHold ==
  /\ tab \in [Tabs -> [token : Nat, busy : BOOLEAN]]
  /\ \A b \in Tabs : tab[b].token <= Len(sessions)

\* The cookie, the tabs and the requests name sessions that exist, and whoever holds a
\* row came with a refresh token.
TokensHold ==
  /\ jar \in 0..Len(sessions)
  /\ call \in [Calls -> {NoCall} \cup Requests]
  /\ TabsHold
  /\ \A r \in UnderWay :
       /\ call[r].token <= Len(sessions) /\ call[r].answer <= Len(sessions)
       /\ call[r].op = "REFRESH" => call[r].token # None
       /\ call[r].at \in {"rotating", "revoking"} => call[r].token # None

\* A row is locked by one transaction at a time, and what the transaction that
\* rotates it has read about it stays true until it commits.
LocksHold ==
  /\ \A r, x \in UnderWay :
       (/\ call[r].at \in {"rotating", "revoking"}
        /\ call[x].at \in {"rotating", "revoking"}
        /\ call[r].token = call[x].token) => r = x
  /\ \A r \in UnderWay :
       call[r].at = "rotating" => sessions[call[r].token].status = "ACTIVE"

SessionInv == RowsHold /\ TokensHold /\ LocksHold /\ OneLiveSessionPerFamily

\* What a step may do to the rows: a session that is not ACTIVE stays as it is,
\* and a family only grows while it has an ACTIVE session.
RowsGrow ==
  /\ Len(sessions) <= Len(sessions')
  /\ \A s \in 1..Len(sessions) :
       /\ sessions'[s].family = sessions[s].family
       /\ sessions[s].status # "ACTIVE" => sessions'[s].status = sessions[s].status
       /\ sessions[s].lapsed => sessions'[s].lapsed
  /\ \A n \in 1..Len(sessions') : n > Len(sessions) =>
       \/ \A s \in 1..Len(sessions) : sessions'[n].family # sessions[s].family
       \/ \E s \in 1..Len(sessions) :
            sessions[s].family = sessions'[n].family /\ sessions[s].status = "ACTIVE"

-------------------------------------------------------------------------------
(* Sequences of rows *)

LEMMA RowsAreNumbered ==
  ASSUME RowsHold
  PROVE  /\ Len(sessions) \in Nat /\ DOMAIN sessions = 1..Len(sessions)
         /\ \A s \in 1..Len(sessions) : sessions[s] \in Rows
  BY LenProperties, ElementOfSeq DEF RowsHold

LEMMA Rewritten ==
  ASSUME NEW S, NEW seq \in Seq(S), NEW f \in [DOMAIN seq -> S]
  PROVE  f \in Seq(S) /\ Len(f) = Len(seq)
<1>1. DOMAIN seq = 1..Len(seq) /\ Len(seq) \in Nat
  BY LenProperties
<1>2. f \in Seq(S)
  BY <1>1, IsASeq
<1> QED
  BY <1>1, <1>2, LenProperties

-------------------------------------------------------------------------------
(* Steps that leave the table as long as it is *)

\* A row may lose its status ACTIVE unless a transaction that rotates it holds it.
RowsFall ==
  /\ sessions' \in Seq(Rows) /\ Len(sessions') = Len(sessions)
  /\ \A s \in 1..Len(sessions) :
       /\ sessions'[s].family = sessions[s].family
       /\ sessions'[s].status # sessions[s].status =>
            sessions[s].status = "ACTIVE" /\ Holders(s) = {}
       /\ sessions[s].lapsed => sessions'[s].lapsed

LEMMA FallingKeepsRows ==
  ASSUME SessionInv, RowsFall
  PROVE  RowsHold' /\ OneLiveSessionPerFamily' /\ RowsGrow
<1>1. Len(sessions) \in Nat /\ DOMAIN sessions = 1..Len(sessions)
  BY RowsAreNumbered DEF SessionInv
<1>2. DOMAIN sessions' = 1..Len(sessions)
  BY LenProperties DEF RowsFall
<1>3. RowsHold'
  BY <1>1, <1>2 DEF SessionInv, RowsFall, RowsHold
<1>4. OneLiveSessionPerFamily'
  BY <1>1, <1>2 DEF SessionInv, RowsFall, OneLiveSessionPerFamily
<1>5. RowsGrow
  BY <1>1 DEF RowsFall, RowsGrow
<1> QED
  BY <1>3, <1>4, <1>5

\* Requests of the browser and their answers leave the rows alone.
LEMMA BrowsingKeepsInv ==
  ASSUME SessionInv, UNCHANGED sessions, jar' \in 0..Len(sessions),
         TabsHold',
         call' \in [Calls -> {NoCall} \cup Requests],
         \A r \in Calls : call'[r] # NoCall =>
           \/ /\ call'[r].at = "sent" /\ call'[r].answer = None
              /\ call'[r].token = jar /\ (call'[r].op = "REFRESH" => jar # None)
           \/ /\ call[r] # NoCall /\ call'[r].at = call[r].at
              /\ call'[r].token = call[r].token /\ call'[r].answer = call[r].answer
              /\ call'[r].op = call[r].op
  PROVE  SessionInv' /\ RowsGrow
<1>1. Len(sessions) \in Nat /\ sessions \in Seq(Rows) /\ jar \in 0..Len(sessions)
  BY RowsAreNumbered DEF SessionInv, RowsHold, TokensHold
<1>2. RowsHold' /\ OneLiveSessionPerFamily' /\ RowsGrow
  BY <1>1, FallingKeepsRows DEF RowsFall
<1>3. TokensHold'
  BY <1>1 DEF SessionInv, TokensHold, TabsHold, UnderWay, None
<1>4. LocksHold'
  BY DEF SessionInv, LocksHold, UnderWay
<1> QED
  BY <1>2, <1>3, <1>4 DEF SessionInv

LEMMA SendKeepsInv ==
  ASSUME SessionInv, NEW r \in Calls, NEW b \in Tabs,
         \/ Send(r, b, "LOGIN") \/ Send(r, b, "LOGOUT"), UNCHANGED <<sessions, jar>>,
         tab' = [tab EXCEPT ![b].busy = TRUE]
  PROVE  SessionInv' /\ RowsGrow
<1>1. jar \in 0..Len(sessions) /\ call \in [Calls -> {NoCall} \cup Requests]
  BY DEF SessionInv, TokensHold
<1>2. Len(sessions) \in Nat
  BY RowsAreNumbered DEF SessionInv
<1>3. PICK op \in {"LOGIN", "LOGOUT"} : call' = [call EXCEPT ![r] =
       [op |-> op, from |-> b, token |-> jar, at |-> "sent", seen |-> {}, answer |-> None]]
  BY DEF Send
<1>4. [op |-> op, from |-> b, token |-> jar, at |-> "sent", seen |-> {}, answer |-> None]
        \in Requests
  BY <1>1, <1>2 DEF Requests, None
<1>5. call' \in [Calls -> {NoCall} \cup Requests]
  BY <1>1, <1>3, <1>4
<1>6. TabsHold'
  BY DEF SessionInv, TokensHold, TabsHold
<1> QED
  BY <1>1, <1>3, <1>5, <1>6, BrowsingKeepsInv

LEMMA ReloadKeepsInv ==
  ASSUME SessionInv, NEW r \in Calls, NEW b \in Tabs, Reload(r, b)
  PROVE  SessionInv' /\ RowsGrow
<1>1. jar \in 0..Len(sessions) /\ call \in [Calls -> {NoCall} \cup Requests]
  BY DEF SessionInv, TokensHold
<1>2. Len(sessions) \in Nat
  BY RowsAreNumbered DEF SessionInv
<1> DEFINE asked ==
  [op |-> "REFRESH", from |-> b, token |-> jar, at |-> "sent", seen |-> {}, answer |-> None]
<1>3. asked \in Requests
  BY <1>1, <1>2 DEF Requests, None
<1>4. /\ Forgotten(b) \in [Calls -> {NoCall} \cup Requests]
      /\ \A x \in Calls : Forgotten(b)[x] # NoCall =>
           /\ call[x] # NoCall /\ Forgotten(b)[x].at = call[x].at
           /\ Forgotten(b)[x].token = call[x].token /\ Forgotten(b)[x].op = call[x].op
           /\ Forgotten(b)[x].answer = call[x].answer
  BY <1>1 DEF Forgotten, Requests, NoCall
<1>5. call' = [Forgotten(b) EXCEPT ![r] = asked]
  BY DEF Reload
<1>6. call' \in [Calls -> {NoCall} \cup Requests]
  BY <1>3, <1>4, <1>5
<1>7. \A x \in Calls : call'[x] = IF x = r THEN asked ELSE Forgotten(b)[x]
  BY <1>4, <1>5
<1>8. jar # None /\ UNCHANGED <<sessions, jar>> /\ TabsHold'
  BY <1>2 DEF Reload, SessionInv, TokensHold, TabsHold, None
<1> HIDE DEF asked
<1>9. asked.at = "sent" /\ asked.answer = None /\ asked.token = jar
  BY DEF asked
<1> QED
  BY <1>1, <1>4, <1>6, <1>7, <1>8, <1>9, BrowsingKeepsInv

LEMMA EndingKeepsInv ==
  ASSUME SessionInv, NEW r \in Calls, Arrives(r) \/ GetsLost(r)
  PROVE  SessionInv' /\ RowsGrow
<1>1. call[r] # NoCall /\ UNCHANGED sessions /\ call' = [call EXCEPT ![r] = NoCall]
  BY DEF Arrives, GetsLost
<1>2. call \in [Calls -> {NoCall} \cup Requests] /\ jar \in 0..Len(sessions)
  BY DEF SessionInv, TokensHold
<1>3. Len(sessions) \in Nat
  BY RowsAreNumbered DEF SessionInv
<1>4. call[r].answer \in 0..Len(sessions)
  BY <1>1, <1>2, <1>3 DEF SessionInv, TokensHold, UnderWay, Requests
<1>5. jar' \in 0..Len(sessions)
  BY <1>2, <1>3, <1>4 DEF Arrives, GetsLost, None
<1>6. call' \in [Calls -> {NoCall} \cup Requests]
  BY <1>1, <1>2
<1>7. PICK token \in {None, call[r].answer} : tab' = Settled(r, token)
  BY DEF Arrives, GetsLost
<1>8. TabsHold'
  BY <1>1, <1>3, <1>4, <1>7 DEF SessionInv, TokensHold, TabsHold, Settled, None
<1> QED
  BY <1>1, <1>2, <1>5, <1>6, <1>8, BrowsingKeepsInv

-------------------------------------------------------------------------------
(* The identity module *)

\* One request that is under way goes on to a point at, with an answer.
GoesOn(r, at, answer) ==
  /\ call' \in [Calls -> {NoCall} \cup Requests]
  /\ call'[r] # NoCall
  /\ call'[r].at = at /\ call'[r].answer = answer
  /\ call'[r].token = call[r].token /\ call'[r].op = call[r].op
  /\ \A x \in Calls : x # r => call'[x] = call[x]

LEMMA AnswersGoOn ==
  ASSUME SessionInv, NEW r \in Calls, call[r] # NoCall, NEW answer \in Nat, Answers(r, answer)
  PROVE  GoesOn(r, "answered", answer)
  BY DEF SessionInv, TokensHold, Answers, GoesOn, Requests, NoCall

\* A transaction that ends lets go of its row, and others still hold theirs.
LEMMA AnsweringKeepsInv ==
  ASSUME SessionInv, NEW r \in Calls, call[r] # NoCall,
         GoesOn(r, "answered", None), RowsFall, UNCHANGED <<jar, tab>>
  PROVE  SessionInv' /\ RowsGrow
<1>1. RowsHold' /\ OneLiveSessionPerFamily' /\ RowsGrow
  BY FallingKeepsRows
<1>2. Len(sessions) \in Nat /\ Len(sessions') = Len(sessions)
  BY RowsAreNumbered DEF SessionInv, RowsFall
<1>3. TokensHold'
  BY <1>2 DEF SessionInv, TokensHold, TabsHold, GoesOn, UnderWay, None
<1>4. \A x \in UnderWay : call[x].at = "rotating" =>
        call[x].token \in 1..Len(sessions) /\ x \in Holders(call[x].token)
  BY <1>2 DEF SessionInv, TokensHold, UnderWay, Holders, Requests, NoCall, None
<1>5. LocksHold'
  <2>1. ASSUME NEW x \in UnderWay', call'[x].at = "rotating"
        PROVE  sessions'[call'[x].token].status = "ACTIVE"
    <3>1. x \in UnderWay /\ call'[x] = call[x]
      BY <2>1 DEF GoesOn, UnderWay
    <3>2. sessions[call[x].token].status = "ACTIVE"
      BY <2>1, <3>1 DEF SessionInv, LocksHold
    <3> QED
      BY <2>1, <3>1, <3>2, <1>4 DEF RowsFall
  <2>2. \A x, y \in UnderWay' :
          (/\ call'[x].at \in {"rotating", "revoking"}
           /\ call'[y].at \in {"rotating", "revoking"}
           /\ call'[x].token = call'[y].token) => x = y
    BY DEF SessionInv, LocksHold, GoesOn, UnderWay
  <2> QED
    BY <2>1, <2>2 DEF LocksHold
<1> QED
  BY <1>1, <1>3, <1>5 DEF SessionInv

\* Setting the status of one row, which nobody rotates, is such a step.
LEMMA StatusFalls ==
  ASSUME SessionInv, NEW s \in 1..Len(sessions), NEW status \in Statuses,
         sessions[s].status = "ACTIVE", Holders(s) = {},
         sessions' = [sessions EXCEPT ![s].status = status]
  PROVE  RowsFall
<1>1. /\ Len(sessions) \in Nat /\ DOMAIN sessions = 1..Len(sessions)
      /\ sessions \in Seq(Rows) /\ \A t \in 1..Len(sessions) : sessions[t] \in Rows
  BY RowsAreNumbered DEF SessionInv, RowsHold
<1>2. sessions' \in [DOMAIN sessions -> Rows]
  BY <1>1 DEF Rows
<1>3. sessions' \in Seq(Rows) /\ Len(sessions') = Len(sessions)
  BY <1>1, <1>2, Rewritten
<1> QED
  BY <1>1, <1>3 DEF RowsFall, Rows

LEMMA RowsStand == ASSUME SessionInv, UNCHANGED sessions PROVE RowsFall
  BY DEF SessionInv, RowsHold, RowsFall

LEMMA LogoutKeepsInv ==
  ASSUME SessionInv, NEW r \in Calls, Logout(r)
  PROVE  SessionInv' /\ RowsGrow
<1>1. call[r] # NoCall /\ call \in [Calls -> {NoCall} \cup Requests] /\ Len(sessions) \in Nat
  BY RowsAreNumbered DEF Logout, Starts, NoCall, SessionInv, TokensHold
<1>2. GoesOn(r, "answered", None)
  BY <1>1, AnswersGoOn DEF Logout, None
<1>3. call[r].token \in 0..Len(sessions)
  BY <1>1 DEF SessionInv, TokensHold, UnderWay, Requests
<1>4. RowsFall
  <2>1. CASE UNCHANGED sessions
    BY <2>1, RowsStand
  <2>2. CASE ~UNCHANGED sessions
    <3>1. /\ call[r].token # None /\ Holders(call[r].token) = {}
          /\ sessions[call[r].token].status = "ACTIVE"
          /\ sessions' = [sessions EXCEPT ![call[r].token].status = "REVOKED"]
      BY <2>2 DEF Logout
    <3>2. call[r].token \in 1..Len(sessions)
      BY <1>1, <1>3, <3>1 DEF None
    <3> QED
      BY <3>1, <3>2, StatusFalls DEF Statuses
  <2> QED
    BY <2>1, <2>2
<1> QED
  BY <1>1, <1>2, <1>4, AnsweringKeepsInv DEF Logout

LEMMA RevokesFamilyKeepsInv ==
  ASSUME SessionInv, NEW r \in Calls, RevokesFamily(r)
  PROVE  SessionInv' /\ RowsGrow
<1>1. /\ Len(sessions) \in Nat /\ DOMAIN sessions = 1..Len(sessions)
      /\ sessions \in Seq(Rows) /\ \A t \in 1..Len(sessions) : sessions[t] \in Rows
  BY RowsAreNumbered DEF SessionInv, RowsHold
<1>2. GoesOn(r, "answered", None)
  BY AnswersGoOn DEF RevokesFamily, None
<1>3. \A s \in call[r].seen : Holders(s) = {}
  BY DEF RevokesFamily
<1>4. sessions' = [s \in DOMAIN sessions |->
       IF s \in call[r].seen /\ sessions[s].status = "ACTIVE"
         THEN [sessions[s] EXCEPT !.status = "REVOKED"] ELSE sessions[s]]
  BY DEF RevokesFamily
<1>5. sessions' \in [DOMAIN sessions -> Rows]
  BY <1>1, <1>4 DEF Rows, Statuses
<1>6. sessions' \in Seq(Rows) /\ Len(sessions') = Len(sessions)
  BY <1>1, <1>5, Rewritten
<1>7. RowsFall
  BY <1>1, <1>3, <1>4, <1>6 DEF RowsFall, Rows
<1> QED
  BY <1>2, <1>7, AnsweringKeepsInv DEF RevokesFamily

LEMMA LapsesKeepsInv ==
  ASSUME SessionInv, NEW s \in DOMAIN sessions, Lapses(s)
  PROVE  SessionInv' /\ RowsGrow
<1>1. /\ Len(sessions) \in Nat /\ DOMAIN sessions = 1..Len(sessions)
      /\ sessions \in Seq(Rows) /\ \A t \in 1..Len(sessions) : sessions[t] \in Rows
  BY RowsAreNumbered DEF SessionInv, RowsHold
<1>2. /\ sessions' = [sessions EXCEPT ![s].lapsed = TRUE]
      /\ UNCHANGED <<jar, tab, call>>
  BY DEF Lapses
<1>3. sessions' \in [DOMAIN sessions -> Rows]
  BY <1>1, <1>2 DEF Rows
<1>4. sessions' \in Seq(Rows) /\ Len(sessions') = Len(sessions)
  BY <1>1, <1>3, Rewritten
<1>5. \A t \in 1..Len(sessions) : /\ sessions'[t].status = sessions[t].status
                                  /\ sessions'[t].family = sessions[t].family
                                  /\ sessions[t].lapsed => sessions'[t].lapsed
  BY <1>1, <1>2 DEF Rows
<1>6. RowsHold' /\ OneLiveSessionPerFamily' /\ RowsGrow
  BY <1>4, <1>5, FallingKeepsRows DEF RowsFall
<1>7. TokensHold'
  BY <1>2, <1>4 DEF SessionInv, TokensHold, TabsHold, UnderWay
<1>8. \A r \in UnderWay : call[r].at = "rotating" => call[r].token \in 1..Len(sessions)
  BY <1>1 DEF SessionInv, TokensHold, UnderWay, Requests, None
<1>9. LocksHold'
  BY <1>2, <1>5, <1>8 DEF SessionInv, LocksHold, UnderWay
<1> QED
  BY <1>6, <1>7, <1>9 DEF SessionInv

\* The row a request locks is not locked by another one.
LEMMA LockingKeepsInv ==
  ASSUME SessionInv, NEW r \in Calls, call[r] # NoCall, call[r].token \in 1..Len(sessions),
         Holders(call[r].token) = {}, NEW at \in {"rotating", "revoking"},
         at = "rotating" => sessions[call[r].token].status = "ACTIVE",
         GoesOn(r, at, call[r].answer), UNCHANGED <<sessions, jar, tab>>
  PROVE  SessionInv' /\ RowsGrow
<1>1. RowsHold' /\ OneLiveSessionPerFamily' /\ RowsGrow
  BY FallingKeepsRows, RowsStand
<1>2. TokensHold'
  BY DEF SessionInv, TokensHold, TabsHold, GoesOn, UnderWay, None
<1>3. LocksHold'
  BY DEF SessionInv, LocksHold, GoesOn, UnderWay, Holders
<1> QED
  BY <1>1, <1>2, <1>3 DEF SessionInv

LEMMA LooksUpKeepsInv ==
  ASSUME SessionInv, NEW r \in Calls, LooksUp(r)
  PROVE  SessionInv' /\ RowsGrow
<1> DEFINE s == call[r].token
<1>1. /\ call[r] # NoCall /\ call[r].op = "REFRESH" /\ Holders(s) = {}
      /\ call \in [Calls -> {NoCall} \cup Requests] /\ Len(sessions) \in Nat
      /\ UNCHANGED <<jar, tab>>
  BY RowsAreNumbered DEF LooksUp, Starts, NoCall, SessionInv, TokensHold
<1>2. call[r] \in Requests /\ s \in 1..Len(sessions)
  BY <1>1 DEF SessionInv, TokensHold, UnderWay, Requests, None
<1>3. CASE sessions[s].status = "ROTATED"
  <2>1. /\ call' = [call EXCEPT ![r].at = "revoking",
                                ![r].seen = ActiveIn(sessions[s].family)]
        /\ UNCHANGED sessions
    <3>1. ~Alive(s) /\ sessions[s].status # "ACTIVE"
      BY <1>3 DEF Alive
    <3> QED
      BY <1>3, <3>1, Zenon DEF LooksUp
  <2>2. ActiveIn(sessions[s].family) \in SUBSET Nat
    BY RowsAreNumbered DEF ActiveIn, Family, SessionInv
  <2>3. GoesOn(r, "revoking", call[r].answer)
    BY <1>1, <1>2, <2>1, <2>2 DEF GoesOn, Requests, NoCall
  <2> QED
    BY <1>1, <1>2, <2>1, <2>3, LockingKeepsInv
<1>4. CASE sessions[s].status # "ROTATED" /\ Alive(s)
  <2>1. call' = [call EXCEPT ![r].at = "rotating"] /\ UNCHANGED sessions
    BY <1>4 DEF LooksUp, Alive
  <2>2. GoesOn(r, "rotating", call[r].answer)
    BY <1>1, <1>2, <2>1 DEF GoesOn, Requests, NoCall
  <2> QED
    BY <1>1, <1>2, <1>4, <2>1, <2>2, LockingKeepsInv DEF Alive
<1>5. CASE sessions[s].status # "ROTATED" /\ ~Alive(s)
  <2>1. Answers(r, None)
    BY <1>5 DEF LooksUp
  <2>2. GoesOn(r, "answered", None)
    BY <1>1, <2>1, AnswersGoOn DEF None
  <2>3. RowsFall
    <3>1. CASE UNCHANGED sessions
      BY <3>1, RowsStand
    <3>2. CASE ~UNCHANGED sessions
      <4>1. /\ sessions[s].status = "ACTIVE"
            /\ sessions' = [sessions EXCEPT ![s].status = "EXPIRED"]
        BY <3>2 DEF LooksUp
      <4> QED
        BY <1>1, <1>2, <4>1, StatusFalls DEF Statuses
    <3> QED
      BY <3>1, <3>2
  <2> QED
    BY <1>1, <2>2, <2>3, AnsweringKeepsInv
<1> QED
  BY <1>3, <1>4, <1>5

\* A session is added: to a family of its own, or to that of a row that becomes
\* ROTATED.
LEMMA LoginKeepsInv ==
  ASSUME SessionInv, NEW r \in Calls, Login(r)
  PROVE  SessionInv' /\ RowsGrow
<1> DEFINE n == Len(sessions) + 1
<1>1. /\ Len(sessions) \in Nat /\ DOMAIN sessions = 1..Len(sessions)
      /\ sessions \in Seq(Rows) /\ \A t \in 1..Len(sessions) : sessions[t] \in Rows
  BY RowsAreNumbered DEF SessionInv, RowsHold
<1>2. /\ sessions' = Append(sessions, NewSession(n)) /\ Answers(r, n) /\ UNCHANGED <<jar, tab>>
      /\ call[r] # NoCall
  BY DEF Login, Starts, NoCall
<1>3. NewSession(n) \in Rows /\ NewSession(n).family = n
  BY <1>1 DEF NewSession, Rows, Statuses
<1>4. /\ sessions' \in Seq(Rows) /\ Len(sessions') = n
      /\ \A t \in 1..Len(sessions) : sessions'[t] = sessions[t]
      /\ sessions'[n].family = n
  BY <1>1, <1>2, <1>3, AppendProperties
<1>5. DOMAIN sessions' = 1..n
  BY <1>4, LenProperties
<1>6. GoesOn(r, "answered", n)
  BY <1>1, <1>2, AnswersGoOn
<1> HIDE DEF n
<1>7. n = Len(sessions) + 1
  BY DEF n
<1>8. RowsHold'
  BY <1>1, <1>4, <1>7 DEF SessionInv, RowsHold
<1>9. OneLiveSessionPerFamily'
  BY <1>1, <1>4, <1>5, <1>7 DEF SessionInv, RowsHold, OneLiveSessionPerFamily
<1>10. RowsGrow
  BY <1>1, <1>4, <1>7 DEF SessionInv, RowsHold, RowsGrow
<1>11. TokensHold'
  <2>1. TabsHold'
    BY <1>1, <1>2, <1>4, <1>6, <1>7 DEF SessionInv, TokensHold, TabsHold
  <2> QED
    BY <1>1, <1>2, <1>4, <1>6, <1>7, <2>1 DEF SessionInv, TokensHold, GoesOn, UnderWay, Requests
<1>12. \A x \in UnderWay : call[x].at = "rotating" => call[x].token \in 1..Len(sessions)
  BY <1>1 DEF SessionInv, TokensHold, UnderWay, Requests, None
<1>13. LocksHold'
  BY <1>4, <1>6, <1>12 DEF SessionInv, LocksHold, GoesOn, UnderWay
<1> QED
  BY <1>8, <1>9, <1>10, <1>11, <1>13 DEF SessionInv

LEMMA RotatesKeepsInv ==
  ASSUME SessionInv, NEW r \in Calls, Rotates(r)
  PROVE  SessionInv' /\ RowsGrow
<1> DEFINE n == Len(sessions) + 1
           s == call[r].token
           old == [sessions EXCEPT ![s].status = "ROTATED"]
           new == NewSession(sessions[s].family)
<1>1. /\ Len(sessions) \in Nat /\ DOMAIN sessions = 1..Len(sessions)
      /\ sessions \in Seq(Rows) /\ \A t \in 1..Len(sessions) : sessions[t] \in Rows
  BY RowsAreNumbered DEF SessionInv, RowsHold
<1>2. /\ sessions' = Append(old, new) /\ Answers(r, n) /\ UNCHANGED <<jar, tab>>
      /\ call[r] # NoCall /\ call[r].at = "rotating"
  BY DEF Rotates
<1>3. \A x \in UnderWay : call[x].at = "rotating" => call[x].token \in 1..Len(sessions)
  BY <1>1 DEF SessionInv, TokensHold, UnderWay, Requests, None
<1>4. s \in 1..Len(sessions) /\ sessions[s].status = "ACTIVE"
  BY <1>2, <1>3 DEF SessionInv, LocksHold, UnderWay
<1>5. /\ old \in Seq(Rows) /\ Len(old) = Len(sessions)
      /\ \A t \in 1..Len(sessions) :
           /\ old[t].family = sessions[t].family
           /\ old[t].status = IF t = s THEN "ROTATED" ELSE sessions[t].status
           /\ old[t].lapsed = sessions[t].lapsed
  <2>1. old \in [DOMAIN sessions -> Rows]
    BY <1>1, <1>4 DEF Rows, Statuses
  <2> QED
    BY <1>1, <1>4, <2>1, Rewritten DEF Rows
<1>6. new \in Rows /\ new.family = sessions[s].family /\ new.status = "ACTIVE"
  BY <1>1, <1>4 DEF NewSession, Rows, Statuses
<1>7. GoesOn(r, "answered", n)
  BY <1>1, <1>2, AnswersGoOn
<1> HIDE DEF n, old, new
<1>8. n = Len(sessions) + 1
  BY DEF n
<1>9. /\ sessions' \in Seq(Rows) /\ Len(sessions') = n
      /\ \A t \in 1..Len(sessions) :
           /\ sessions'[t].family = sessions[t].family
           /\ sessions'[t].status = IF t = s THEN "ROTATED" ELSE sessions[t].status
           /\ sessions'[t].lapsed = sessions[t].lapsed
      /\ sessions'[n].family = sessions[s].family
  BY <1>1, <1>2, <1>5, <1>6, <1>8, AppendProperties
<1>10. DOMAIN sessions' = 1..n
  BY <1>9, LenProperties
<1>11. RowsHold'
  BY <1>1, <1>4, <1>8, <1>9 DEF SessionInv, RowsHold
<1>12. \A t \in 1..Len(sessions) : sessions[t].family = sessions[s].family =>
         sessions'[t].status = "ROTATED"
  BY <1>1, <1>4, <1>9 DEF SessionInv, OneLiveSessionPerFamily
<1>13. OneLiveSessionPerFamily'
  BY <1>1, <1>8, <1>9, <1>10, <1>12 DEF SessionInv, OneLiveSessionPerFamily
<1>14. RowsGrow
  BY <1>1, <1>4, <1>8, <1>9 DEF RowsGrow
<1>15. TokensHold'
  <2>1. TabsHold'
    BY <1>1, <1>2, <1>7, <1>8, <1>9 DEF SessionInv, TokensHold, TabsHold
  <2> QED
    BY <1>1, <1>2, <1>7, <1>8, <1>9, <2>1 DEF SessionInv, TokensHold, GoesOn, UnderWay, Requests
<1>16. LocksHold'
  <2>1. \A x \in UnderWay' : call'[x].at \in {"rotating", "revoking"} =>
          x \in UnderWay /\ x # r /\ call'[x] = call[x] /\ call[x].token # s
    BY <1>2, <1>7 DEF SessionInv, LocksHold, GoesOn, UnderWay
  <2> HIDE DEF s
  <2>2. \A x \in UnderWay' : call'[x].at = "rotating" =>
          sessions'[call'[x].token].status = "ACTIVE"
    BY <1>3, <1>9, <2>1 DEF SessionInv, LocksHold
  <2> QED
    BY <2>1, <2>2 DEF SessionInv, LocksHold
<1> QED
  BY <1>11, <1>13, <1>14, <1>15, <1>16 DEF SessionInv

-------------------------------------------------------------------------------
(* Every step *)

LEMMA InitHasInv == ConnectionsInit => SessionInv
<1> SUFFICES ASSUME ConnectionsInit PROVE SessionInv
  OBVIOUS
<1>1. /\ sessions = <<>> /\ jar = None /\ call = [r \in Calls |-> NoCall]
      /\ tab = [b \in Tabs |-> [token |-> None, busy |-> FALSE]]
  BY DEF ConnectionsInit, SessionsInit
<1>2. sessions \in Seq(Rows) /\ Len(sessions) = 0
  BY <1>1, EmptySeq
<1>3. DOMAIN sessions = {}
  BY <1>2, LenProperties
<1> QED
  BY <1>1, <1>2, <1>3 DEF SessionInv, RowsHold, TokensHold, TabsHold, LocksHold, UnderWay,
     OneLiveSessionPerFamily, None

LEMMA StepKeepsInv ==
  ASSUME SessionInv, ConnectionsNext
  PROVE  SessionInv' /\ RowsGrow
<1>1. CASE GatewayStep
  <2>1. UNCHANGED <<sessions, jar, tab, call>>
    BY <1>1 DEF GatewayStep, sessionVars
  <2>2. RowsHold' /\ OneLiveSessionPerFamily' /\ RowsGrow
    BY <2>1, RowsStand, FallingKeepsRows
  <2> QED
    BY <2>1, <2>2 DEF SessionInv, TokensHold, TabsHold, LocksHold, UnderWay
<1>2. CASE SessionStep
  <2>1. ASSUME NEW r \in Calls, NEW b \in Tabs, Reload(r, b) \/ SignIn(r, b) \/ SignOut(r, b)
        PROVE  SessionInv' /\ RowsGrow
    BY <2>1, ReloadKeepsInv, SendKeepsInv DEF SignIn, SignOut
  <2>2. ASSUME NEW r \in Calls, \/ Arrives(r) \/ GetsLost(r) \/ Login(r) \/ LooksUp(r)
                                \/ Rotates(r) \/ RevokesFamily(r) \/ Logout(r)
        PROVE  SessionInv' /\ RowsGrow
    BY <2>2, EndingKeepsInv, LoginKeepsInv, LooksUpKeepsInv, RotatesKeepsInv,
       RevokesFamilyKeepsInv, LogoutKeepsInv
  <2> QED
    BY <1>2, <2>1, <2>2, LapsesKeepsInv DEF SessionStep
<1> QED
  BY <1>1, <1>2 DEF ConnectionsNext, BrowserStep

LEMMA StutterKeepsInv ==
  ASSUME SessionInv, UNCHANGED connectionVars
  PROVE  SessionInv' /\ RowsGrow
<1>1. UNCHANGED <<sessions, jar, tab, call>>
  BY DEF connectionVars, sessionVars
<1>2. RowsHold' /\ OneLiveSessionPerFamily' /\ RowsGrow
  BY <1>1, RowsStand, FallingKeepsRows
<1> QED
  BY <1>1, <1>2 DEF SessionInv, TokensHold, TabsHold, LocksHold, UnderWay

LEMMA AlwaysSessionInv == ConnectionsSpec => []SessionInv
<1>1. SessionInv /\ [ConnectionsNext]_connectionVars => SessionInv'
  BY StepKeepsInv, StutterKeepsInv
<1> QED
  BY <1>1, InitHasInv, PTL DEF ConnectionsSpec

\* However many tabs and requests present a token at once, the row lock of
\* rotateSession makes a family one chain, with at most one session ACTIVE.
THEOREM OneLiveSession == ConnectionsSpec => []OneLiveSessionPerFamily
<1>1. SessionInv => OneLiveSessionPerFamily
  BY DEF SessionInv
<1> QED
  BY <1>1, AlwaysSessionInv, PTL

\* A step that lets rows only grow revives no session and no family.
LEMMA NothingRevives ==
  ASSUME SessionInv, SessionInv', RowsGrow
  PROVE  \A s \in DOMAIN sessions :
           /\ ActiveIn(sessions[s].family) = {} => ActiveIn(sessions[s].family)' = {}
           /\ sessions[s].status # "ACTIVE" => sessions'[s].status = sessions[s].status
<1>1. Len(sessions) \in Nat /\ DOMAIN sessions = 1..Len(sessions)
  BY RowsAreNumbered DEF SessionInv
<1>2. Len(sessions') \in Nat /\ DOMAIN sessions' = 1..Len(sessions')
  BY LenProperties DEF SessionInv, RowsHold
<1>3. ASSUME NEW s \in DOMAIN sessions, ActiveIn(sessions[s].family) = {}
      PROVE  ActiveIn(sessions[s].family)' = {}
  <2>1. sessions'[s].family = sessions[s].family
    BY <1>1 DEF RowsGrow
  <2>2. \A t \in 1..Len(sessions) :
          sessions[t].family = sessions[s].family => sessions[t].status # "ACTIVE"
    BY <1>1, <1>3 DEF ActiveIn, Family
  <2>3. \A t \in 1..Len(sessions') :
          sessions'[t].family = sessions[s].family => sessions'[t].status # "ACTIVE"
    BY <1>1, <1>2, <2>2 DEF RowsGrow
  <2> QED
    BY <1>2, <2>1, <2>3 DEF ActiveIn, Family
<1> QED
  BY <1>1, <1>3 DEF RowsGrow

\* No request, however late or repeated, revives a session or a family that was
\* logged out, revoked or expired.
THEOREM TheDeadStayDead == ConnectionsSpec => DeadFamiliesStayDead
<1>1. SessionInv /\ SessionInv' /\ [ConnectionsNext]_connectionVars =>
        [\A s \in DOMAIN sessions :
           /\ ActiveIn(sessions[s].family) = {} => ActiveIn(sessions[s].family)' = {}
           /\ sessions[s].status # "ACTIVE" => sessions'[s].status = sessions[s].status
        ]_connectionVars
  BY StepKeepsInv, NothingRevives
<1> QED
  BY <1>1, AlwaysSessionInv, PTL DEF ConnectionsSpec, DeadFamiliesStayDead

-------------------------------------------------------------------------------
(* Connections: a message and the session behind it *)

States ==
  [at : {"closed", "open", "welcome", "refused", "authenticated"}, token : Nat,
   check : {"none", "asked", "good", "bad"}, cmd : {"none", "waiting", "running"},
   noticed : BOOLEAN]

\* A connection that is not closed has the token of a session, and one whose
\* session was gone when the heartbeat asked is still being checked, with one
\* possible outcome.
Watched(b) ==
  /\ conn[b].at # "closed" => conn[b].token \in 1..Len(sessions)
  /\ conn[b].noticed =>
       /\ conn[b].at = "authenticated" /\ conn[b].check \in {"asked", "bad"}
       /\ ~Alive(conn[b].token)

GatewayInv == conn \in [Online -> States] /\ \A b \in Online : Watched(b)

\* What a step does to one connection.
StartsNoCommand(b) ==
  (conn[b].cmd # "running" /\ conn'[b].cmd = "running") => ~conn[b].noticed

LEMMA ClosedIsWatched ==
  ASSUME NEW c \in States
  PROVE  /\ Closed(c) \in States /\ Closed(c).at = "closed" /\ ~Closed(c).noticed
         /\ Closed(c).cmd = "running" => c.cmd = "running"
  BY DEF Closed, NoConnection, States, None

\* No step of the browser or of the identity module revives a session.
LEMMA TheDeadAreNotAlive ==
  ASSUME SessionInv, RowsGrow, NEW s \in 1..Len(sessions), ~Alive(s)
  PROVE  ~Alive(s)'
<1>1. s \in 1..Len(sessions') /\ Len(sessions) \in Nat
  BY RowsAreNumbered DEF SessionInv, RowsGrow
<1>2. CASE sessions[s].status # "ACTIVE"
  BY <1>2 DEF RowsGrow, Alive
<1>3. CASE sessions[s].lapsed
  BY <1>3 DEF RowsGrow, Alive
<1> QED
  BY <1>2, <1>3 DEF Alive

LEMMA BrowserKeepsConnections ==
  ASSUME SessionInv, RowsGrow, GatewayInv,
         \A b \in Online : conn'[b] \in {conn[b], Closed(conn[b])},
         conn' \in [Online -> States]
  PROVE  GatewayInv' /\ \A b \in Online : StartsNoCommand(b)
<1>1. Len(sessions) \in Nat /\ Len(sessions') \in Nat /\ Len(sessions) <= Len(sessions')
  BY RowsAreNumbered DEF SessionInv, RowsGrow
<1>2. ASSUME NEW b \in Online
      PROVE  Watched(b)' /\ StartsNoCommand(b)
  <2>1. conn[b] \in States
    BY DEF GatewayInv
  <2>2. CASE conn'[b] = conn[b]
    <3> PICK t : t = conn[b].token
      OBVIOUS
    <3>1. conn[b].noticed => t \in 1..Len(sessions) /\ ~Alive(t) /\ conn[b].at # "closed"
      BY DEF GatewayInv, Watched
    <3>2. conn[b].noticed => ~Alive(t)'
      BY <3>1, TheDeadAreNotAlive
    <3>3. conn'[b].token = t /\ (conn'[b].noticed => ~Alive(t)')
      BY <2>2, <3>2
    <3>4. conn'[b].noticed => ~Alive(conn[b].token)'
      BY <3>3 DEF Alive
    <3> QED
      BY <1>1, <2>2, <3>4 DEF GatewayInv, Watched, StartsNoCommand
  <2>3. CASE conn'[b] = Closed(conn[b])
    BY <2>1, <2>3, ClosedIsWatched DEF Watched, StartsNoCommand
  <2> QED
    BY <2>2, <2>3
<1> QED
  BY <1>2 DEF GatewayInv

\* One connection b changes, the sessions do not.
LEMMA OthersStay ==
  ASSUME GatewayInv, NEW b \in Online, NEW c \in States, conn' = [conn EXCEPT ![b] = c],
         UNCHANGED <<sessions, tab>>,
         c.at # "closed" => c.token \in 1..Len(sessions),
         c.noticed => /\ c.at = "authenticated" /\ c.check \in {"asked", "bad"}
                      /\ ~Alive(c.token),
         (conn[b].cmd # "running" /\ c.cmd = "running") => ~conn[b].noticed
  PROVE  GatewayInv' /\ \A x \in Online : StartsNoCommand(x)
<1>1. conn' \in [Online -> States] /\ conn'[b] = c
      /\ \A x \in Online : x # b => conn'[x] = conn[x]
  BY DEF GatewayInv
<1>2. Watched(b)' /\ StartsNoCommand(b)
  BY <1>1 DEF Watched, Alive, StartsNoCommand
<1>3. \A x \in Online : x # b => Watched(x)' /\ StartsNoCommand(x)
  BY <1>1 DEF GatewayInv, Watched, Alive, StartsNoCommand
<1> QED
  BY <1>1, <1>2, <1>3 DEF GatewayInv

LEMMA GatewayKeepsInv ==
  ASSUME SessionInv, GatewayInv, NEW b \in Online, UNCHANGED sessionVars,
         \/ Connects(b) \/ AsksWho(b) \/ Authenticates(b) \/ Drops(b)
         \/ Heartbeat(b) \/ Checks(b) \/ Revalidates(b)
         \/ MessageArrives(b) \/ Resumes(b) \/ MessageDone(b)
  PROVE  GatewayInv' /\ \A x \in Online : StartsNoCommand(x)
<1> DEFINE c == conn[b]
<1>1. /\ c \in States /\ conn \in [Online -> States] /\ UNCHANGED <<sessions, tab>>
      /\ c.at # "closed" => c.token \in 1..Len(sessions)
      /\ c.noticed => /\ c.at = "authenticated" /\ c.check \in {"asked", "bad"}
                      /\ ~Alive(c.token)
  BY DEF GatewayInv, Watched, sessionVars
<1>2. ASSUME NEW d \in States, conn' = [conn EXCEPT ![b] = d],
             d.at # "closed" => d.token \in 1..Len(sessions),
             d.noticed => /\ d.at = "authenticated" /\ d.check \in {"asked", "bad"}
                          /\ ~Alive(d.token),
             (c.cmd # "running" /\ d.cmd = "running") => ~c.noticed
      PROVE  GatewayInv' /\ \A x \in Online : StartsNoCommand(x)
  BY <1>1, <1>2, OthersStay
<1>3. CASE conn' = [conn EXCEPT ![b] = Closed(c)]
  BY <1>1, <1>2, <1>3, ClosedIsWatched
<1>4. CASE Connects(b)
  <2>1. tab[b].token \in 1..Len(sessions)
    BY <1>4, OnlineAssumption, RowsAreNumbered
       DEF Connects, SessionInv, TokensHold, TabsHold, None
  <2>2. conn' = [conn EXCEPT ![b] = [c EXCEPT !.at = "open", !.token = tab[b].token]]
    BY <1>4 DEF Connects
  <2>3. c.at = "closed" /\ ~c.noticed
    BY <1>1, <1>4 DEF Connects
  <2> DEFINE token == tab[b].token
             d == [c EXCEPT !.at = "open", !.token = token]
  <2>4. token \in Nat /\ token \in 1..Len(sessions)
    BY <2>1, RowsAreNumbered DEF SessionInv
  <2>5. conn' = [conn EXCEPT ![b] = d]
    BY <2>2
  <2> HIDE DEF token, c
  <2>6. /\ d \in States /\ d.at = "open" /\ d.token = token
        /\ d.noticed = c.noticed /\ d.cmd = c.cmd
    BY <1>1, <2>4 DEF States
  <2> HIDE DEF d
  <2> QED
    BY <1>2, <2>3, <2>4, <2>5, <2>6
<1>5. CASE AsksWho(b)
  <2>1. PICK at \in {"welcome", "refused"} : conn' = [conn EXCEPT ![b] = [c EXCEPT !.at = at]]
    BY <1>5 DEF AsksWho
  <2>2. c.at = "open" /\ ~c.noticed
    BY <1>1, <1>5 DEF AsksWho
  <2> DEFINE d == [c EXCEPT !.at = at]
  <2>3. /\ d \in States /\ d.at = at /\ d.token = c.token
        /\ d.noticed = c.noticed /\ d.cmd = c.cmd
    BY <1>1 DEF States
  <2> HIDE DEF c, d
  <2> QED
    BY <1>1, <1>2, <2>1, <2>2, <2>3 DEF d
<1>6. CASE Authenticates(b)
  <2>1. CASE c.at = "welcome" /\ conn' = [conn EXCEPT ![b].at = "authenticated"]
    <3> DEFINE d == [c EXCEPT !.at = "authenticated"]
    <3>1. conn' = [conn EXCEPT ![b] = d] /\ ~c.noticed /\ c.at = "welcome"
      BY <1>1, <2>1
    <3>2. /\ d \in States /\ d.at = "authenticated" /\ d.token = c.token
          /\ d.noticed = c.noticed /\ d.cmd = c.cmd
      BY <1>1 DEF States
    <3> HIDE DEF c, d
    <3> QED
      BY <1>1, <1>2, <3>1, <3>2
  <2> QED
    BY <1>3, <1>6, <2>1 DEF Authenticates
<1>7. CASE Heartbeat(b)
  <2> DEFINE noticed == ~Alive(c.token)
             d == [c EXCEPT !.check = "asked", !.noticed = noticed]
  <2>1. conn' = [conn EXCEPT ![b] = d] /\ c.at = "authenticated"
    BY <1>7 DEF Heartbeat, Authenticated
  <2>2. noticed \in BOOLEAN
    BY DEF Alive
  <2> HIDE DEF noticed
  <2>3. /\ d \in States /\ d.at = c.at /\ d.token = c.token /\ d.check = "asked"
        /\ d.noticed = noticed /\ d.cmd = c.cmd
    BY <1>1, <2>2 DEF States
  <2> HIDE DEF c, d
  <2>4. d.noticed => ~Alive(d.token)
    BY <2>3 DEF noticed
  <2> QED
    BY <1>1, <1>2, <2>1, <2>3, <2>4
<1>8. CASE Checks(b)
  <2>1. PICK verdict \in IF Alive(c.token) THEN {"good", "bad"} ELSE {"bad"} :
          conn' = [conn EXCEPT ![b] = [c EXCEPT !.check = verdict]]
    BY <1>8 DEF Checks
  <2>2. verdict \in {"good", "bad"} /\ (~Alive(c.token) => verdict = "bad")
    BY <2>1
  <2> DEFINE d == [c EXCEPT !.check = verdict]
  <2>3. /\ d \in States /\ d.at = c.at /\ d.token = c.token /\ d.check = verdict
        /\ d.noticed = c.noticed /\ d.cmd = c.cmd
    BY <1>1, <2>2 DEF States
  <2> HIDE DEF c, d
  <2> QED
    BY <1>1, <1>2, <2>1, <2>2, <2>3 DEF d
<1>9. CASE Revalidates(b)
  <2>1. CASE c.check = "good" /\ conn' = [conn EXCEPT ![b].check = "none"]
    <3> DEFINE d == [c EXCEPT !.check = "none"]
    <3>1. conn' = [conn EXCEPT ![b] = d] /\ ~c.noticed
      BY <1>1, <2>1
    <3>2. /\ d \in States /\ d.at = c.at /\ d.token = c.token
          /\ d.noticed = c.noticed /\ d.cmd = c.cmd
      BY <1>1 DEF States
    <3> HIDE DEF c, d
    <3> QED
      BY <1>1, <1>2, <3>1, <3>2
  <2> QED
    BY <1>3, <1>9, <2>1 DEF Revalidates
<1>10. CASE MessageArrives(b) \/ Resumes(b) \/ MessageDone(b)
  <2>1. PICK cmd \in {"none", "waiting", "running"} :
          /\ conn' = [conn EXCEPT ![b] = [c EXCEPT !.cmd = cmd]]
          /\ cmd = "running" => c.check = "none"
    BY <1>10 DEF MessageArrives, Resumes, MessageDone
  <2> DEFINE d == [c EXCEPT !.cmd = cmd]
  <2>2. /\ d \in States /\ d.at = c.at /\ d.token = c.token /\ d.check = c.check
        /\ d.noticed = c.noticed /\ d.cmd = cmd
    BY <1>1 DEF States
  <2> HIDE DEF c, d
  <2> QED
    BY <1>1, <1>2, <2>1, <2>2 DEF d
<1> QED
  BY <1>3, <1>4, <1>5, <1>6, <1>7, <1>8, <1>9, <1>10 DEF Drops

LEMMA InitHasGatewayInv == ConnectionsInit => GatewayInv
<1> SUFFICES ASSUME ConnectionsInit PROVE GatewayInv
  OBVIOUS
<1>1. NoConnection \in States /\ NoConnection.at = "closed" /\ ~NoConnection.noticed
  BY DEF NoConnection, States, None
<1>2. conn = [b \in Online |-> NoConnection]
  BY DEF ConnectionsInit
<1> HIDE DEF NoConnection
<1> QED
  BY <1>1, <1>2 DEF GatewayInv, Watched

LEMMA StepKeepsGatewayInv ==
  ASSUME SessionInv, GatewayInv, ConnectionsNext
  PROVE  GatewayInv' /\ \A b \in Online : StartsNoCommand(b)
<1>1. CASE GatewayStep
  BY <1>1, GatewayKeepsInv DEF GatewayStep
<1>2. CASE BrowserStep
  <2>1. RowsGrow
    BY StepKeepsInv
  <2>2. conn' = [b \in Online |-> IF tab'[b].token = tab[b].token THEN conn[b]
                                  ELSE Closed(conn[b])]
    BY <1>2 DEF BrowserStep
  <2>3. \A b \in Online : conn[b] \in States /\ Closed(conn[b]) \in States
    BY ClosedIsWatched DEF GatewayInv
  <2>4. \A b \in Online : conn'[b] \in {conn[b], Closed(conn[b])}
    BY <2>2
  <2>5. conn' \in [Online -> States]
    BY <2>2, <2>3
  <2> QED
    BY <2>1, <2>4, <2>5, BrowserKeepsConnections
<1> QED
  BY <1>1, <1>2 DEF ConnectionsNext

LEMMA AlwaysGatewayInv == ConnectionsSpec => []GatewayInv
<1>1. ASSUME GatewayInv, UNCHANGED connectionVars PROVE GatewayInv'
  BY <1>1 DEF connectionVars, sessionVars, GatewayInv, Watched, Alive
<1>2. SessionInv /\ GatewayInv /\ [ConnectionsNext]_connectionVars => GatewayInv'
  BY <1>1, StepKeepsGatewayInv
<1> QED
  BY <1>2, InitHasGatewayInv, AlwaysSessionInv, PTL DEF ConnectionsSpec

\* A message never starts between the heartbeat that asked about a session that
\* is gone and the end of the connection, whatever the sessions and the other
\* connections do between the question and the answer.
THEOREM NoCommandStartsOnceNoticed == ConnectionsSpec => NoCommandOnceNoticed
<1>1. SessionInv /\ GatewayInv /\ [ConnectionsNext]_connectionVars =>
        [\A b \in Online :
           (conn[b].cmd # "running" /\ conn'[b].cmd = "running") => ~conn[b].noticed
        ]_connectionVars
  BY StepKeepsGatewayInv DEF StartsNoCommand
<1> QED
  BY <1>1, AlwaysGatewayInv, AlwaysSessionInv, PTL
     DEF ConnectionsSpec, NoCommandOnceNoticed

-------------------------------------------------------------------------------
(* A browser whose requests never overlap *)

Fresh(s) == s # None => sessions[s].status # "ROTATED"

Answered == [logout : SUBSET Nat, reuse : SUBSET Nat]

\* A family a logout was answered for has rows, and none of them is ACTIVE.
LogoutsHold ==
  /\ \A f \in ended.logout : \E s \in 1..Len(sessions) : sessions[s].family = f
  /\ \A s \in 1..Len(sessions) :
       sessions[s].family \in ended.logout => sessions[s].status # "ACTIVE"

\* The request under way, if there is one, presents the cookie, and what the
\* cookie will name once it is over was not rotated.
Orderly ==
  /\ \A r, x \in UnderWay : r = x
  /\ UnderWay = {} => Fresh(jar)
  /\ \A r \in UnderWay :
       /\ call[r].token = jar /\ call[r].at # "revoking"
       /\ call[r].at # "answered" => Fresh(jar)
       /\ (call[r].at = "answered" /\ call[r].op # "LOGOUT") =>
            Fresh(IF call[r].answer = None THEN jar ELSE call[r].answer)
  /\ ended.reuse = {} /\ LogoutsHold

CalmInv == calm \in BOOLEAN /\ ended \in Answered /\ (calm => Orderly)

LEMMA LogoutsStayAnswered ==
  ASSUME SessionInv, RowsGrow, LogoutsHold, ended'.logout = ended.logout
  PROVE  LogoutsHold'
<1>1. Len(sessions) \in Nat /\ Len(sessions) <= Len(sessions')
  BY RowsAreNumbered DEF SessionInv, RowsGrow
<1>2. \A f \in ended'.logout : \E s \in 1..Len(sessions') : sessions'[s].family = f
  BY <1>1 DEF LogoutsHold, RowsGrow
<1>3. ASSUME NEW s \in 1..Len(sessions'), sessions'[s].family \in ended'.logout
      PROVE  sessions'[s].status # "ACTIVE"
  <2>1. CASE s \in 1..Len(sessions)
    BY <1>3, <2>1 DEF LogoutsHold, RowsGrow
  <2>2. CASE s \notin 1..Len(sessions)
    BY <1>1, <1>3, <2>2 DEF LogoutsHold, RowsGrow
  <2> QED
    BY <2>1, <2>2
<1> QED
  BY <1>2, <1>3 DEF LogoutsHold

\* A request leaves while no other one is under way.
LEMMA SendingIsOrderly ==
  ASSUME NEW r \in Calls, Orderly, UnderWay = {},
         UNCHANGED <<sessions, jar, ended>>,
         call'[r].token = jar, call'[r].at = "sent",
         \A x \in Calls : x # r => call'[x] = NoCall
  PROVE  Orderly'
<1>1. \A x \in UnderWay' : x = r
  BY DEF UnderWay
<1>2. Fresh(jar)'
  BY DEF Orderly, Fresh
<1> QED
  BY <1>1, <1>2 DEF Orderly, LogoutsHold

LEMMA SendKeepsCalm ==
  ASSUME SessionInv, CalmInv, NEW r \in Calls, NEW b \in Tabs,
         Reload(r, b) \/ SignIn(r, b) \/ SignOut(r, b)
  PROVE  CalmInv'
<1>1. /\ UNCHANGED <<sessions, jar, ended>> /\ calm' = (calm /\ UnderWay = {})
      /\ call \in [Calls -> {NoCall} \cup Requests]
  BY DEF Reload, SignIn, SignOut, Send, SessionInv, TokensHold
<1>2. ASSUME calm' PROVE Orderly'
  <2>1. calm /\ UnderWay = {} /\ Orderly /\ \A x \in Calls : call[x] = NoCall
    BY <1>1, <1>2 DEF CalmInv, UnderWay
  <2>2. \A x \in Calls : Forgotten(b)[x] = NoCall
    BY <2>1 DEF Forgotten
  <2>3. PICK op \in {"REFRESH", "LOGIN", "LOGOUT"}, from \in {call, Forgotten(b)} :
        call' = [from EXCEPT ![r] =
          [op |-> op, from |-> b, token |-> jar, at |-> "sent", seen |-> {}, answer |-> None]]
    BY DEF Reload, SignIn, SignOut, Send
  <2>4. DOMAIN from = Calls /\ \A x \in Calls : from[x] = NoCall
    BY <1>1, <2>1, <2>2 DEF Forgotten
  <2>5. call'[r].token = jar /\ call'[r].at = "sent"
        /\ \A x \in Calls : x # r => call'[x] = NoCall
    BY <2>3, <2>4
  <2> QED
    BY <1>1, <2>1, <2>5, SendingIsOrderly
<1> QED
  BY <1>1, <1>2 DEF CalmInv

LEMMA EndingKeepsCalm ==
  ASSUME SessionInv, CalmInv, NEW r \in Calls, Arrives(r) \/ GetsLost(r)
  PROVE  CalmInv'
<1>1. /\ UNCHANGED <<sessions, ended>> /\ call[r] # NoCall
      /\ call' = [call EXCEPT ![r] = NoCall]
      /\ call \in [Calls -> {NoCall} \cup Requests]
  BY DEF Arrives, GetsLost, SessionInv, TokensHold
<1>2. CASE GetsLost(r)
  BY <1>1, <1>2 DEF GetsLost, CalmInv
<1>3. CASE Arrives(r)
  <2>1. UNCHANGED calm /\ call[r].at = "answered"
        /\ jar' = IF call[r].op = "LOGOUT" THEN None
                  ELSE IF call[r].answer = None THEN jar ELSE call[r].answer
    BY <1>3 DEF Arrives
  <2>2. ASSUME calm PROVE Orderly'
    <3>1. Orderly /\ \A x \in UnderWay : x = r
      BY <1>1, <2>2 DEF CalmInv, Orderly, UnderWay
    <3>2. UnderWay' = {}
      BY <1>1, <3>1 DEF UnderWay
    <3>3. Fresh(jar)'
      BY <1>1, <2>1, <3>1 DEF Orderly, Fresh, UnderWay
    <3> QED
      BY <1>1, <3>1, <3>2, <3>3 DEF Orderly, LogoutsHold
  <2> QED
    BY <1>1, <2>1, <2>2 DEF CalmInv
<1> QED
  BY <1>2, <1>3

\* The request goes on, and leaves the cookie fresh for its next step.
LEMMA ServingKeepsCalm ==
  ASSUME SessionInv, RowsGrow, CalmInv, NEW r \in Calls, call[r] # NoCall,
         NEW at, at # "revoking", NEW answer \in Nat, GoesOn(r, at, answer),
         UNCHANGED <<jar, calm>>, ended' \in Answered,
         calm => LogoutsHold' /\ ended'.reuse = ended.reuse,
         (calm /\ at # "answered") => Fresh(jar)',
         (calm /\ at = "answered" /\ call[r].op # "LOGOUT") =>
           Fresh(IF answer = None THEN jar ELSE answer)'
  PROVE  CalmInv'
<1>1. ASSUME calm PROVE Orderly'
  <2>1. Orderly /\ UnderWay' = UnderWay /\ \A x \in UnderWay : x = r
    BY <1>1 DEF CalmInv, Orderly, UnderWay, GoesOn
  <2>2. r \in UnderWay /\ call[r].token = jar
    BY <2>1 DEF Orderly, UnderWay
  <2>3. call'[r].answer = answer /\ call'[r].at = at /\ call'[r].op = call[r].op
        /\ call'[r].token = jar'
    BY <2>2 DEF GoesOn
  <2> QED
    BY <1>1, <2>1, <2>2, <2>3 DEF Orderly, Fresh
<1> QED
  BY <1>1 DEF CalmInv

LEMMA LoginKeepsCalm ==
  ASSUME SessionInv, RowsGrow, CalmInv, NEW r \in Calls, Login(r)
  PROVE  CalmInv'
<1>1. /\ Len(sessions) \in Nat /\ sessions \in Seq(Rows)
      /\ call[r] # NoCall /\ UNCHANGED <<jar, ended, calm>>
  BY RowsAreNumbered DEF SessionInv, RowsHold, Login, Starts, NoCall
<1> PICK n : n = Len(sessions) + 1
  OBVIOUS
<1>2. sessions' = Append(sessions, NewSession(n)) /\ Answers(r, n)
  BY DEF Login
<1>3. sessions'[n].status = "ACTIVE"
  <2>1. NewSession(n) \in Rows /\ NewSession(n).status = "ACTIVE"
    BY <1>1 DEF NewSession, Rows, Statuses
  <2> QED
    BY <1>1, <1>2, <2>1, AppendProperties
<1>4. GoesOn(r, "answered", n) /\ n \in Nat
  BY <1>1, <1>2, AnswersGoOn
<1>5. calm => LogoutsHold'
  BY <1>1, LogoutsStayAnswered DEF CalmInv, Orderly
<1>6. n # None
  BY <1>1 DEF None
<1> QED
  BY <1>1, <1>3, <1>4, <1>5, <1>6, ServingKeepsCalm DEF Fresh, CalmInv

LEMMA LooksUpKeepsCalm ==
  ASSUME SessionInv, RowsGrow, CalmInv, NEW r \in Calls, LooksUp(r)
  PROVE  CalmInv'
<1> PICK s : s = call[r].token
  OBVIOUS
<1>1. /\ call[r] # NoCall /\ call[r].op = "REFRESH" /\ call[r].at = "sent"
      /\ call \in [Calls -> {NoCall} \cup Requests]
      /\ UNCHANGED <<jar, ended, calm>>
  BY DEF LooksUp, Starts, NoCall, SessionInv, TokensHold
<1>2. calm => LogoutsHold'
  BY <1>1, LogoutsStayAnswered DEF CalmInv, Orderly
<1>3. /\ Len(sessions) \in Nat /\ sessions \in Seq(Rows) /\ DOMAIN sessions = 1..Len(sessions)
      /\ s \in 1..Len(sessions) /\ call[r] \in Requests
  BY <1>1, RowsAreNumbered
     DEF SessionInv, RowsHold, TokensHold, UnderWay, Requests, None
<1>4. sessions' = IF sessions[s].status = "ACTIVE" /\ sessions[s].lapsed
                    THEN [sessions EXCEPT ![s].status = "EXPIRED"] ELSE sessions
  BY DEF LooksUp
<1>5. sessions[s] \in Rows
  BY <1>3, RowsAreNumbered DEF SessionInv
<1>6. ASSUME calm
      PROVE  s = jar /\ sessions[s].status # "ROTATED" /\ sessions'[s].status # "ROTATED"
  <2>1. s = jar /\ Fresh(jar)
    BY <1>1, <1>6 DEF CalmInv, Orderly, UnderWay
  <2>2. sessions[s].status # "ROTATED"
    BY <1>3, <2>1 DEF Fresh, None
  <2> QED
    BY <1>3, <1>4, <1>5, <2>1, <2>2 DEF Rows
<1>7. ASSUME calm, Alive(s) PROVE CalmInv'
  <2>1. call' = [call EXCEPT ![r].at = "rotating"]
    BY <1>6, <1>7 DEF LooksUp
  <2>2. GoesOn(r, "rotating", call[r].answer) /\ call[r].answer \in Nat
    BY <1>1, <1>3, <2>1 DEF GoesOn, Requests, NoCall
  <2>3. Fresh(jar)'
    BY <1>1, <1>6, <1>7 DEF Fresh
  <2> QED
    BY <1>1, <1>2, <1>7, <2>2, <2>3, ServingKeepsCalm DEF CalmInv
<1>8. ASSUME calm, ~Alive(s) PROVE CalmInv'
  <2>1. Answers(r, None)
    BY <1>6, <1>8 DEF LooksUp
  <2>2. GoesOn(r, "answered", None) /\ None \in Nat
    BY <1>1, <2>1, AnswersGoOn DEF None
  <2>3. Fresh(IF None = None THEN jar ELSE None)'
    BY <1>1, <1>6, <1>8 DEF Fresh
  <2> QED
    BY <1>1, <1>2, <1>8, <2>2, <2>3, ServingKeepsCalm DEF CalmInv
<1>9. ~calm => CalmInv'
  BY <1>1 DEF CalmInv
<1> QED
  BY <1>7, <1>8, <1>9

LEMMA RotatesKeepsCalm ==
  ASSUME SessionInv, SessionInv', RowsGrow, CalmInv, NEW r \in Calls, Rotates(r)
  PROVE  CalmInv'
<1> PICK n : n = Len(sessions) + 1
  OBVIOUS
<1> PICK s : s = call[r].token
  OBVIOUS
<1>1. /\ Len(sessions) \in Nat /\ DOMAIN sessions = 1..Len(sessions)
      /\ sessions \in Seq(Rows) /\ \A t \in 1..Len(sessions) : sessions[t] \in Rows
  BY RowsAreNumbered DEF SessionInv, RowsHold
<1>2. /\ Answers(r, n) /\ UNCHANGED <<jar, ended, calm>> /\ call[r] # NoCall
      /\ call[r].at = "rotating"
      /\ sessions' = Append([sessions EXCEPT ![s].status = "ROTATED"],
                            NewSession(sessions[s].family))
  BY DEF Rotates
<1>3. s \in 1..Len(sessions)
  BY <1>1, <1>2 DEF SessionInv, TokensHold, UnderWay, Requests, None
<1>4. sessions'[n].status = "ACTIVE"
  <2> DEFINE old == [sessions EXCEPT ![s].status = "ROTATED"]
             new == NewSession(sessions[s].family)
  <2>1. old \in [DOMAIN sessions -> Rows]
    BY <1>1, <1>3 DEF Rows, Statuses
  <2>2. old \in Seq(Rows) /\ Len(old) = Len(sessions)
    BY <1>1, <2>1, Rewritten
  <2>3. new \in Rows /\ new.status = "ACTIVE"
    BY <1>1, <1>3 DEF NewSession, Rows, Statuses
  <2>4. sessions' = Append(old, new)
    BY <1>2
  <2> HIDE DEF old, new
  <2> QED
    BY <1>1, <2>2, <2>3, <2>4, AppendProperties
<1>5. GoesOn(r, "answered", n) /\ n \in Nat /\ n # None
  BY <1>1, <1>2, AnswersGoOn DEF None
<1>6. calm => LogoutsHold'
  BY <1>2, LogoutsStayAnswered DEF CalmInv, Orderly
<1> QED
  BY <1>2, <1>4, <1>5, <1>6, ServingKeepsCalm DEF Fresh, CalmInv

\* In an orderly browser nobody ever waits to revoke a family.
LEMMA RevokesFamilyKeepsCalm ==
  ASSUME SessionInv, RowsGrow, CalmInv, NEW r \in Calls, RevokesFamily(r)
  PROVE  CalmInv'
<1>1. ~calm /\ UNCHANGED calm
  BY DEF RevokesFamily, CalmInv, Orderly, UnderWay
<1>2. call[r].token \in 1..Len(sessions) /\ sessions[call[r].token].family \in Nat
  <2>1. call[r] # NoCall /\ call[r].at = "revoking"
    BY DEF RevokesFamily
  <2>2. call[r].token \in 1..Len(sessions)
    BY <2>1, RowsAreNumbered DEF SessionInv, TokensHold, UnderWay, Requests, None
  <2> QED
    BY <2>2, RowsAreNumbered DEF SessionInv, Rows
<1>3. ended' = [ended EXCEPT !.reuse = @ \cup {sessions[call[r].token].family}]
  BY DEF RevokesFamily
<1> QED
  BY <1>1, <1>2, <1>3 DEF CalmInv, Answered

\* The session of the cookie is the last of its family, so that none is ACTIVE
\* once it was revoked.
LEMMA LogoutKeepsCalm ==
  ASSUME SessionInv, SessionInv', RowsGrow, CalmInv, NEW r \in Calls, Logout(r)
  PROVE  CalmInv'
<1> PICK s : s = call[r].token
  OBVIOUS
<1>1. /\ call[r] # NoCall /\ call[r].op = "LOGOUT" /\ call[r].at = "sent"
      /\ Answers(r, None) /\ UNCHANGED <<jar, calm>>
      /\ call \in [Calls -> {NoCall} \cup Requests]
  BY DEF Logout, Starts, NoCall, SessionInv, TokensHold
<1>2. /\ Len(sessions) \in Nat /\ sessions \in Seq(Rows) /\ DOMAIN sessions = 1..Len(sessions)
      /\ s \in 0..Len(sessions)
      /\ \A t \in 1..Len(sessions) : sessions[t] \in Rows
  BY <1>1, RowsAreNumbered DEF SessionInv, RowsHold, TokensHold, UnderWay, Requests
<1>3. GoesOn(r, "answered", None) /\ None \in Nat
  BY <1>1, AnswersGoOn DEF None
<1>4. CASE s = None
  <2>1. UNCHANGED <<sessions, ended>>
    BY <1>4 DEF Logout
  <2>2. calm => LogoutsHold'
    BY <2>1, LogoutsStayAnswered DEF CalmInv, Orderly
  <2> QED
    BY <1>1, <1>3, <2>1, <2>2, ServingKeepsCalm DEF CalmInv
<1>5. CASE s # None
  <2>1. s \in 1..Len(sessions)
    BY <1>2, <1>5 DEF None
  <2> PICK f : f = sessions[s].family
    OBVIOUS
  <2>2. /\ sessions' = IF sessions[s].status # "ACTIVE" THEN sessions
                       ELSE [sessions EXCEPT ![s].status = "REVOKED"]
        /\ ended' = [ended EXCEPT !.logout = @ \cup {f}]
    BY <1>5 DEF Logout
  <2>3. ended' \in Answered /\ ended'.reuse = ended.reuse
        /\ ended'.logout = ended.logout \cup {f}
    BY <1>2, <2>1, <2>2 DEF CalmInv, Answered, Rows
  <2>4. /\ Len(sessions') = Len(sessions)
        /\ \A t \in 1..Len(sessions) :
             /\ sessions'[t].family = sessions[t].family
             /\ sessions'[t].status = "ACTIVE" => t # s /\ sessions[t].status = "ACTIVE"
    <3>1. CASE sessions[s].status # "ACTIVE"
      BY <2>2, <3>1
    <3>2. CASE sessions[s].status = "ACTIVE"
      <4>1. sessions' \in [DOMAIN sessions -> Rows]
        BY <1>2, <2>2, <3>2 DEF Rows, Statuses
      <4>2. Len(sessions') = Len(sessions)
        BY <1>2, <4>1, Rewritten
      <4> QED
        BY <1>2, <2>1, <2>2, <3>2, <4>2 DEF Rows
    <3> QED
      BY <3>1, <3>2
  <2>5. ASSUME calm PROVE LogoutsHold'
    <3>1. s = jar /\ sessions[s].status # "ROTATED" /\ LogoutsHold
      BY <1>1, <1>5, <2>5 DEF CalmInv, Orderly, UnderWay, Fresh
    <3>2. ASSUME NEW t \in 1..Len(sessions), sessions[t].family = f
          PROVE  sessions'[t].status # "ACTIVE"
      <4>1. t > s => sessions[s].status = "ROTATED"
        BY <1>2, <2>1, <3>2 DEF SessionInv, OneLiveSessionPerFamily
      <4>2. t < s => sessions[t].status = "ROTATED"
        BY <1>2, <2>1, <3>2 DEF SessionInv, OneLiveSessionPerFamily
      <4> QED
        BY <1>2, <2>1, <2>4, <3>1, <4>1, <4>2
    <3> QED
      BY <2>1, <2>3, <2>4, <3>1, <3>2 DEF LogoutsHold
  <2> QED
    BY <1>1, <1>3, <2>3, <2>5, ServingKeepsCalm DEF CalmInv
<1> QED
  BY <1>4, <1>5

LEMMA LapsesKeepsCalm ==
  ASSUME SessionInv, RowsGrow, CalmInv, NEW s \in DOMAIN sessions, Lapses(s)
  PROVE  CalmInv'
<1>1. /\ sessions' = [sessions EXCEPT ![s].lapsed = TRUE]
      /\ UNCHANGED <<jar, call, ended, calm>>
  BY DEF Lapses
<1>2. /\ DOMAIN sessions = 1..Len(sessions) /\ Len(sessions) \in Nat
      /\ jar \in 0..Len(sessions) /\ \A t \in 1..Len(sessions) : sessions[t] \in Rows
      /\ \A r \in UnderWay : call[r].answer \in 0..Len(sessions)
  BY RowsAreNumbered DEF SessionInv, TokensHold, UnderWay, Requests
<1>3. \A t \in 0..Len(sessions) : Fresh(t) => (t # None => sessions'[t].status # "ROTATED")
  BY <1>1, <1>2 DEF Fresh, Rows, None
<1>4. calm => LogoutsHold'
  BY <1>1, LogoutsStayAnswered DEF CalmInv, Orderly
<1>5. calm => Orderly'
  BY <1>1, <1>2, <1>3, <1>4 DEF CalmInv, Orderly, UnderWay, Fresh
<1> QED
  BY <1>1, <1>5 DEF CalmInv

LEMMA StepKeepsCalm ==
  ASSUME SessionInv, SessionInv', RowsGrow, CalmInv, [ConnectionsNext]_connectionVars
  PROVE  CalmInv'
<1>1. CASE UNCHANGED sessionVars
  BY <1>1 DEF sessionVars, CalmInv, Orderly, LogoutsHold, UnderWay, Fresh
<1>2. CASE SessionStep
  <2>1. ASSUME NEW r \in Calls, NEW b \in Tabs, Reload(r, b) \/ SignIn(r, b) \/ SignOut(r, b)
        PROVE  CalmInv'
    BY <2>1, SendKeepsCalm
  <2>2. ASSUME NEW r \in Calls, \/ Arrives(r) \/ GetsLost(r) \/ Login(r) \/ LooksUp(r)
                                \/ Rotates(r) \/ RevokesFamily(r) \/ Logout(r)
        PROVE  CalmInv'
    BY <2>2, EndingKeepsCalm, LoginKeepsCalm, LooksUpKeepsCalm, RotatesKeepsCalm,
       RevokesFamilyKeepsCalm, LogoutKeepsCalm
  <2> QED
    BY <1>2, <2>1, <2>2, LapsesKeepsCalm DEF SessionStep
<1> QED
  BY <1>1, <1>2 DEF ConnectionsNext, BrowserStep, GatewayStep, connectionVars

LEMMA InitHasCalmInv == ConnectionsInit => CalmInv
<1> SUFFICES ASSUME ConnectionsInit PROVE CalmInv
  OBVIOUS
<1>1. /\ sessions = <<>> /\ jar = None /\ call = [r \in Calls |-> NoCall]
      /\ ended = [logout |-> {}, reuse |-> {}] /\ calm = TRUE
  BY DEF ConnectionsInit, SessionsInit
<1>2. ended \in Answered /\ ended.logout = {} /\ ended.reuse = {}
  BY <1>1 DEF Answered
<1> QED
  BY <1>1, <1>2 DEF CalmInv, Orderly, LogoutsHold, UnderWay, Fresh

LEMMA AlwaysCalmInv == ConnectionsSpec => []CalmInv
<1>1. SessionInv /\ SessionInv' /\ CalmInv /\ [ConnectionsNext]_connectionVars => CalmInv'
  BY StepKeepsInv, StutterKeepsInv, StepKeepsCalm
<1> QED
  BY <1>1, InitHasCalmInv, AlwaysSessionInv, PTL DEF ConnectionsSpec

\* While the requests of a browser never overlapped and none got lost, it replays
\* no token of its own: no family is revoked for reuse, the cookie never keeps a
\* rotated session, and a logout ends its whole family, because the one row it
\* revokes is the last of it.
THEOREM CalmBrowsers == ConnectionsSpec => []CalmBrowserNeverReplays
<1>1. SessionInv /\ CalmInv => CalmBrowserNeverReplays
  <2> SUFFICES ASSUME SessionInv, CalmInv, calm PROVE CalmBrowserNeverReplays
    BY DEF CalmBrowserNeverReplays
  <2>1. Orderly /\ DOMAIN sessions = 1..Len(sessions)
    BY RowsAreNumbered DEF SessionInv, CalmInv
  <2>2. \A f \in ended.logout : ActiveIn(f) = {}
    BY <2>1 DEF Orderly, LogoutsHold, ActiveIn, Family
  <2> QED
    BY <2>1, <2>2 DEF Orderly, Fresh, CalmBrowserNeverReplays
<1> QED
  BY <1>1, AlwaysSessionInv, AlwaysCalmInv, PTL

-------------------------------------------------------------------------------
(* Types *)

\* A token in the cookie, in a tab, in a request or in a connection always names
\* a row of refresh_sessions, and a family the row it began with.
THEOREM SessionTypes == ConnectionsSpec => []SessionTypeOK
<1>1. SessionInv /\ GatewayInv => SessionTypeOK
  <2> SUFFICES ASSUME SessionInv, GatewayInv PROVE SessionTypeOK
    OBVIOUS
  <2>1. /\ Len(sessions) \in Nat /\ DOMAIN sessions = 1..Len(sessions)
        /\ \A s \in 1..Len(sessions) : sessions[s] \in Rows
    BY RowsAreNumbered DEF SessionInv
  <2>2. \A s \in DOMAIN sessions :
          /\ sessions[s].status \in {"ACTIVE", "ROTATED", "REVOKED", "EXPIRED"}
          /\ sessions[s].family \in DOMAIN sessions
    BY <2>1 DEF SessionInv, RowsHold, Rows, Statuses
  <2>3. {jar} \cup {tab[b].token : b \in Tabs} \subseteq {None} \cup DOMAIN sessions
    BY <2>1 DEF SessionInv, TokensHold, TabsHold, None
  <2>4. \A r \in UnderWay : {call[r].token, call[r].answer} \subseteq {None} \cup DOMAIN sessions
    BY <2>1 DEF SessionInv, TokensHold, UnderWay, Requests, None
  <2>5. \A b \in Online : Authenticated(b) => conn[b].token \in DOMAIN sessions
    BY <2>1 DEF GatewayInv, Watched, Authenticated
  <2> QED
    BY <2>2, <2>3, <2>4, <2>5 DEF SessionTypeOK
<1> QED
  BY <1>1, AlwaysSessionInv, AlwaysGatewayInv, PTL

===============================================================================
