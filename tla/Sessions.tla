------------------------------- MODULE Sessions -------------------------------
(***************************************************************************)
(* Refresh sessions (identity.repository.ts, auth.service.ts) and the      *)
(* browser that holds them: its tabs share one cookie, each keeps an       *)
(* access token in memory, and a reload of a tab refreshes.  A refresh     *)
(* token and the access token issued with it both name a row of            *)
(* refresh_sessions, so a token is the number of its row here.             *)
(***************************************************************************)
EXTENDS Naturals, Sequences, FiniteSets

CONSTANTS
  Tabs,          \* tabs of one browser, all of one user
  Calls,         \* the requests under way at one time
  MaxSessions    \* bound of an instance: the rows of identity.refresh_sessions

VARIABLES
  sessions,      \* identity.refresh_sessions in the order of their commits
  jar,           \* the session whose refresh token the cookie holds
  tab,           \* the session of each tab's access token, and what it waits for
  call,          \* each request to /auth under way
  ended,         \* families a logout, and families a reuse, was answered for
  calm           \* no two requests overlapped and no answer was lost so far

sessionVars == <<sessions, jar, tab, call, ended, calm>>

None  == 0
NoCall == [op |-> "none"]
Nobody == "nobody"

SessionsInit ==
  /\ sessions = <<>> /\ jar = None
  /\ tab = [b \in Tabs |-> [token |-> None, busy |-> FALSE]]
  /\ call = [r \in Calls |-> NoCall]
  /\ ended = [logout |-> {}, reuse |-> {}] /\ calm = TRUE

Family(f) == {s \in DOMAIN sessions : sessions[s].family = f}
ActiveIn(f) == {s \in Family(f) : sessions[s].status = "ACTIVE"}

\* findSessionActor: the row an access token names is ACTIVE and not expired.
Alive(s) == sessions[s].status = "ACTIVE" /\ ~sessions[s].lapsed

UnderWay == {r \in Calls : call[r] # NoCall}

\* Mutant of Holders: FOR UPDATE is left out.
HoldersOfNone(s) == {r \in {} : call[r].token = s}

\* Requests whose transaction holds the row of session s.
Holders(s) == {r \in UnderWay : call[r].at \in {"rotating", "revoking"} /\ call[r].token = s}

-------------------------------------------------------------------------------
(* The browser *)

\* The browser attaches its cookie when a request leaves.
Send(r, b, op) ==
  /\ call[r] = NoCall
  /\ call' = [call EXCEPT ![r] =
       [op |-> op, from |-> b, token |-> jar, at |-> "sent", seen |-> {}, answer |-> None]]
  /\ calm' = (calm /\ UnderWay = {})

\* The tab forgets its access token and whatever it was waiting for.
Forgotten(b) ==
  [x \in Calls |->
     IF call[x] # NoCall /\ call[x].from = b THEN [call[x] EXCEPT !.from = Nobody]
     ELSE call[x]]

\* A tab is opened or loaded again: bootstrapAuthentication refreshes once.
Reload(r, b) ==
  /\ jar # None /\ call[r] = NoCall
  /\ tab' = [tab EXCEPT ![b] = [token |-> None, busy |-> TRUE]]
  /\ call' = [Forgotten(b) EXCEPT ![r] =
       [op |-> "REFRESH", from |-> b, token |-> jar, at |-> "sent", seen |-> {}, answer |-> None]]
  /\ calm' = (calm /\ UnderWay = {})
  /\ UNCHANGED <<sessions, jar, ended>>

SignIn(r, b) ==
  /\ tab[b].token = None /\ ~tab[b].busy
  /\ Send(r, b, "LOGIN") /\ tab' = [tab EXCEPT ![b].busy = TRUE]
  /\ UNCHANGED <<sessions, jar, ended>>

SignOut(r, b) ==
  /\ tab[b].token # None /\ ~tab[b].busy
  /\ Send(r, b, "LOGOUT") /\ tab' = [tab EXCEPT ![b].busy = TRUE]
  /\ UNCHANGED <<sessions, jar, ended>>

\* What the tab keeps once its request r was answered; signOut forgets the
\* access token whether or not it was.
Settled(r, token) ==
  [b \in Tabs |-> IF call[r].from = b THEN [token |-> token, busy |-> FALSE] ELSE tab[b]]

\* Mutant of Arrives: a refresh does not set the cookie.
ArrivesWithoutCookie(r) ==
  /\ call[r] # NoCall /\ call[r].at = "answered"
  /\ jar' = IF call[r].op = "LOGOUT" THEN None
            ELSE IF call[r].op = "REFRESH" \/ call[r].answer = None THEN jar ELSE call[r].answer
  /\ tab' = Settled(r, call[r].answer)
  /\ call' = [call EXCEPT ![r] = NoCall]
  /\ UNCHANGED <<sessions, ended, calm>>

\* The answer arrives.  A success sets the cookie, a 401 leaves it alone, a
\* logout clears it; the cookie is the browser's, whatever became of the tab.
Arrives(r) ==
  /\ call[r] # NoCall /\ call[r].at = "answered"
  /\ jar' = IF call[r].op = "LOGOUT" THEN None
            ELSE IF call[r].answer = None THEN jar ELSE call[r].answer
  /\ tab' = Settled(r, call[r].answer)
  /\ call' = [call EXCEPT ![r] = NoCall]
  /\ UNCHANGED <<sessions, ended, calm>>

\* The request or its answer is lost, a statement fails or the API process
\* stops: an open transaction is rolled back and the tab gets an error.
GetsLost(r) ==
  /\ call[r] # NoCall
  /\ tab' = Settled(r, None)
  /\ call' = [call EXCEPT ![r] = NoCall] /\ calm' = FALSE
  /\ UNCHANGED <<sessions, jar, ended>>

-------------------------------------------------------------------------------
(* The identity module *)

Answers(r, answer) == call' = [call EXCEPT ![r].at = "answered", ![r].answer = answer]

Starts(r, op) == call[r].op = op /\ call[r].at = "sent"

NewSession(family) == [family |-> family, status |-> "ACTIVE", lapsed |-> FALSE]

\* Mutant of Login: the answer is not the row that was inserted.
LoginOneOff(r) ==
  /\ Starts(r, "LOGIN") /\ Len(sessions) < MaxSessions
  /\ sessions' = Append(sessions, NewSession(Len(sessions) + 1))
  /\ Answers(r, Len(sessions) + 2)
  /\ UNCHANGED <<jar, tab, ended, calm>>

\* createSession: a login starts a family of its own.
Login(r) ==
  /\ Starts(r, "LOGIN") /\ Len(sessions) < MaxSessions
  /\ sessions' = Append(sessions, NewSession(Len(sessions) + 1))
  /\ Answers(r, Len(sessions) + 1)
  /\ UNCHANGED <<jar, tab, ended, calm>>

\* Mutant of LooksUp: a revoked session that has not expired will do.
LooksUpExpiryOnly(r) ==
  LET s == call[r].token
  IN  /\ Starts(r, "REFRESH") /\ Holders(s) = {}
      /\ CASE sessions[s].status = "ROTATED" ->
                call' = [call EXCEPT ![r].at = "revoking",
                                     ![r].seen = ActiveIn(sessions[s].family)]
           [] ~sessions[s].lapsed /\ sessions[s].status # "ROTATED" ->
                call' = [call EXCEPT ![r].at = "rotating"]
           [] OTHER -> Answers(r, None)
      /\ sessions' = IF sessions[s].status = "ACTIVE" /\ sessions[s].lapsed
                       THEN [sessions EXCEPT ![s].status = "EXPIRED"] ELSE sessions
      /\ UNCHANGED <<jar, tab, ended, calm>>

\* rotateSession locks the row of the token and looks at its status.  For a
\* ROTATED one the statement that revokes the family sees the ACTIVE rows
\* committed by now, and waits for those that other transactions hold.
LooksUp(r) ==
  LET s == call[r].token
  IN  /\ Starts(r, "REFRESH") /\ Holders(s) = {}
      /\ CASE sessions[s].status = "ROTATED" ->
                call' = [call EXCEPT ![r].at = "revoking",
                                     ![r].seen = ActiveIn(sessions[s].family)]
           [] Alive(s) -> call' = [call EXCEPT ![r].at = "rotating"]
           [] OTHER -> Answers(r, None)
      /\ sessions' = IF sessions[s].status = "ACTIVE" /\ sessions[s].lapsed
                       THEN [sessions EXCEPT ![s].status = "EXPIRED"] ELSE sessions
      /\ UNCHANGED <<jar, tab, ended, calm>>

\* The successor appears as the presented session becomes ROTATED.
Rotates(r) ==
  LET s == call[r].token
  IN  /\ call[r] # NoCall /\ call[r].at = "rotating" /\ Len(sessions) < MaxSessions
      /\ sessions' = Append([sessions EXCEPT ![s].status = "ROTATED"],
                            NewSession(sessions[s].family))
      /\ Answers(r, Len(sessions) + 1)
      /\ UNCHANGED <<jar, tab, ended, calm>>

\* revokeFamily: of the rows it saw, those that are still ACTIVE.
RevokesFamily(r) ==
  /\ call[r] # NoCall /\ call[r].at = "revoking"
  /\ \A s \in call[r].seen : Holders(s) = {}
  /\ sessions' = [s \in DOMAIN sessions |->
       IF s \in call[r].seen /\ sessions[s].status = "ACTIVE"
         THEN [sessions[s] EXCEPT !.status = "REVOKED"] ELSE sessions[s]]
  /\ ended' = [ended EXCEPT !.reuse = @ \cup {sessions[call[r].token].family}]
  /\ Answers(r, None)
  /\ UNCHANGED <<jar, tab, calm>>

\* revokeSession: the session of the cookie the logout came with, if it is ACTIVE.
Logout(r) ==
  LET s == call[r].token
  IN  /\ Starts(r, "LOGOUT") /\ Answers(r, None)
      /\ IF s = None THEN UNCHANGED <<sessions, ended>>
         ELSE /\ Holders(s) = {}
              /\ sessions' = IF sessions[s].status # "ACTIVE" THEN sessions
                             ELSE [sessions EXCEPT ![s].status = "REVOKED"]
              /\ ended' = [ended EXCEPT !.logout = @ \cup {sessions[s].family}]
      /\ UNCHANGED <<jar, tab, calm>>

\* expires_at passes.
Lapses(s) ==
  /\ sessions[s].status = "ACTIVE" /\ ~sessions[s].lapsed
  /\ sessions' = [sessions EXCEPT ![s].lapsed = TRUE]
  /\ UNCHANGED <<jar, tab, call, ended, calm>>

SessionStep ==
  \/ \E r \in Calls, b \in Tabs : Reload(r, b) \/ SignIn(r, b) \/ SignOut(r, b)
  \/ \E r \in Calls : \/ Arrives(r) \/ GetsLost(r) \/ Login(r) \/ LooksUp(r)
                      \/ Rotates(r) \/ RevokesFamily(r) \/ Logout(r)
  \/ \E s \in DOMAIN sessions : Lapses(s)

===============================================================================
