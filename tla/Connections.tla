----------------------------- MODULE Connections -----------------------------
(***************************************************************************)
(* Authentication of WebSocket connections (realtime.gateway.ts) on top of *)
(* the sessions it asks about: a client authenticates with its access      *)
(* token, a heartbeat revalidates the session of every connection, and a   *)
(* message waits for the revalidation under way.  Everything happens in    *)
(* turns of one event loop; the questions to the database lie between two  *)
(* turns, so that sessions and other connections change meanwhile.         *)
(***************************************************************************)
EXTENDS Sessions

CONSTANT Online      \* the tabs that hold a connection open

ASSUME OnlineAssumption == Online \subseteq Tabs

VARIABLE conn        \* the gateway's state of each tab's connection

connectionVars == <<sessionVars, conn>>

\* check is the revalidation under way and what it found; cmd is a message of
\* this connection, and noticed is TRUE from the heartbeat that first asked
\* about a session that is gone.
NoConnection ==
  [at |-> "closed", token |-> None, check |-> "none", cmd |-> "none", noticed |-> FALSE]

ConnectionsInit == SessionsInit /\ conn = [b \in Online |-> NoConnection]

Authenticated(b) == conn[b].at = "authenticated"

\* The socket closes: actor and accessToken are null, the client is deleted.  A
\* handler that got past its checks runs to its end all the same.
Closed(c) == IF c.cmd = "running" THEN [NoConnection EXCEPT !.cmd = "running"] ELSE NoConnection

\* The page connects whenever it has an access token and no connection; the
\* first thing it sends is that token.
Connects(b) ==
  /\ conn[b].at = "closed" /\ tab[b].token # None
  /\ conn' = [conn EXCEPT ![b].at = "open", ![b].token = tab[b].token]

\* authenticate asks authenticateAccessToken ...
AsksWho(b) ==
  /\ conn[b].at = "open"
  /\ conn' = [conn EXCEPT ![b].at = IF Alive(conn[b].token) THEN "welcome" ELSE "refused"]

\* ... and goes on in a later turn.
Authenticates(b) ==
  \/ conn[b].at = "welcome" /\ conn' = [conn EXCEPT ![b].at = "authenticated"]
  \/ conn[b].at = "refused" /\ conn' = [conn EXCEPT ![b] = Closed(@)]

\* Five seconds without an actor, or the network or a missed pong ends it.
Drops(b) ==
  /\ conn[b].at \in {"open", "welcome", "authenticated"}
  /\ conn' = [conn EXCEPT ![b] = Closed(@)]

\* runHeartbeat starts a revalidation unless one is under way.
Heartbeat(b) ==
  /\ Authenticated(b) /\ conn[b].check = "none"
  /\ conn' = [conn EXCEPT ![b].check = "asked",
                          ![b].noticed = ~Alive(conn[b].token)]

\* Mutant of Checks: only the token is looked at, not the session.
ChecksClaimsOnly(b) ==
  /\ conn[b].check = "asked"
  /\ \E verdict \in {"good", "bad"} : conn' = [conn EXCEPT ![b].check = verdict]

\* The database says what the session is now; the access token may have
\* expired, and an error counts as an invalid session.
Checks(b) ==
  /\ conn[b].check = "asked"
  /\ \E verdict \in IF Alive(conn[b].token) THEN {"good", "bad"} ELSE {"bad"} :
       conn' = [conn EXCEPT ![b].check = verdict]

\* performAuthenticationRevalidation: a message that waited may go on now.
Revalidates(b) ==
  \/ conn[b].check = "good" /\ conn' = [conn EXCEPT ![b].check = "none"]
  \/ conn[b].check = "bad"  /\ conn' = [conn EXCEPT ![b] = Closed(@)]

\* Mutant of MessageArrives: the message does not wait for a revalidation.
MessageNeverWaits(b) ==
  /\ Authenticated(b) /\ conn[b].cmd = "none"
  /\ conn' = [conn EXCEPT ![b].cmd = "running"]

\* handleMessage for a subscription or a location, past the quota.
MessageArrives(b) ==
  /\ Authenticated(b) /\ conn[b].cmd = "none"
  /\ conn' = [conn EXCEPT ![b].cmd = IF conn[b].check = "none" THEN "running" ELSE "waiting"]

Resumes(b) ==
  /\ conn[b].cmd = "waiting" /\ conn[b].check = "none"
  /\ conn' = [conn EXCEPT ![b].cmd = "running"]

MessageDone(b) ==
  /\ conn[b].cmd = "running" /\ conn' = [conn EXCEPT ![b].cmd = "none"]

GatewayStep ==
  /\ \E b \in Online :
       \/ Connects(b) \/ AsksWho(b) \/ Authenticates(b) \/ Drops(b)
       \/ Heartbeat(b) \/ Checks(b) \/ Revalidates(b)
       \/ MessageArrives(b) \/ Resumes(b) \/ MessageDone(b)
  /\ UNCHANGED sessionVars

\* A page whose access token changed closes the connection it had.
BrowserStep ==
  /\ SessionStep
  /\ conn' = [b \in Online |-> IF tab'[b].token = tab[b].token THEN conn[b] ELSE Closed(conn[b])]

ConnectionsNext == BrowserStep \/ GatewayStep

\* The heartbeat is a timer and the database answers in the end.
ConnectionsSpec ==
  /\ ConnectionsInit /\ [][ConnectionsNext]_connectionVars
  /\ \A b \in Online :
       /\ WF_connectionVars(Heartbeat(b) /\ UNCHANGED sessionVars)
       /\ WF_connectionVars(Checks(b) /\ UNCHANGED sessionVars)
       /\ WF_connectionVars(Revalidates(b) /\ UNCHANGED sessionVars)

-------------------------------------------------------------------------------
(* Properties *)

\* Every variable keeps its type, and a call under way names a row that exists.
SessionTypeOK ==
  /\ \A s \in DOMAIN sessions :
       /\ sessions[s].status \in {"ACTIVE", "ROTATED", "REVOKED", "EXPIRED"}
       /\ sessions[s].family \in DOMAIN sessions
  /\ {jar} \cup {tab[b].token : b \in Tabs} \subseteq {None} \cup DOMAIN sessions
  /\ \A r \in UnderWay : {call[r].token, call[r].answer} \subseteq {None} \cup DOMAIN sessions
  /\ \A b \in Online : Authenticated(b) => conn[b].token \in DOMAIN sessions

\* rotateSession under the row lock: however many tabs present the same token
\* at once, a family is one chain in which only the newest session is ACTIVE.
OneLiveSessionPerFamily ==
  \A s, t \in DOMAIN sessions :
    (sessions[s].family = sessions[t].family /\ s < t) => sessions[s].status = "ROTATED"

\* A family that was logged out, revoked or expired never comes to life again,
\* whatever token of it is presented, and no session is ever revived.
DeadFamiliesStayDead ==
  [][\A s \in DOMAIN sessions :
       /\ ActiveIn(sessions[s].family) = {} => ActiveIn(sessions[s].family)' = {}
       /\ sessions[s].status # "ACTIVE" => sessions'[s].status = sessions[s].status]_connectionVars

\* authentication.md: a tab does not replay its own refresh token.  While the
\* requests of the browser never overlapped and none got lost, no family was
\* revoked for reuse, the cookie never names a rotated session once a request
\* is over, and every logout ended its session.
CalmBrowserNeverReplays ==
  calm => /\ ended.reuse = {}
          /\ (UnderWay = {} /\ jar # None) => sessions[jar].status # "ROTATED"
          /\ \A f \in ended.logout : ActiveIn(f) = {}

\* The realtime review: a revoked session does not race a command.  No message
\* starts once a heartbeat has asked about a session that is gone.
NoCommandOnceNoticed ==
  [][\A b \in Online :
       (conn[b].cmd # "running" /\ conn'[b].cmd = "running") => ~conn[b].noticed]_connectionVars

\* A connection does not outlive its session for ever: the heartbeat finds it.
RevokedSessionsDisconnect ==
  \A b \in Online :
    (Authenticated(b) /\ ~Alive(conn[b].token)) ~> ~Authenticated(b)

\* What the decision record says of a replay, "if a non-active token in a family
\* is presented, revoke active sessions in that family": once it was answered.
ReuseRevokesTheFamily == \A f \in ended.reuse : ActiveIn(f) = {}

===============================================================================
