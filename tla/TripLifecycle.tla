---------------------------- MODULE TripLifecycle ----------------------------
(***************************************************************************)
(* The Trip state machine of apps/api/src/trip/domain/trip-lifecycle.ts:   *)
(* a table from a state and a command to the next state, every command     *)
(* adding one to the version.  The SQL handlers do not call it, they       *)
(* restate it; Dispatch checks that what they do stays inside it.          *)
(***************************************************************************)
EXTENDS Naturals

TripStates == {"REQUESTED", "MATCHING", "DRIVER_TO_PICKUP", "AT_PICKUP",
               "IN_PROGRESS", "COMPLETED", "CANCELLED", "NO_DRIVER_AVAILABLE"}

terminalTripStates == {"COMPLETED", "CANCELLED", "NO_DRIVER_AVAILABLE"}

\* The table, as <<state, command, next state>>.
transitions ==
  { <<"REQUESTED", "START_MATCHING", "MATCHING">>,
    <<"MATCHING", "ASSIGN_DRIVER", "DRIVER_TO_PICKUP">>,
    <<"MATCHING", "EXHAUST_MATCHING", "NO_DRIVER_AVAILABLE">>,
    <<"DRIVER_TO_PICKUP", "MARK_AT_PICKUP", "AT_PICKUP">>,
    <<"DRIVER_TO_PICKUP", "RETRY_MATCHING", "MATCHING">>,
    <<"AT_PICKUP", "START_TRIP", "IN_PROGRESS">>,
    <<"IN_PROGRESS", "COMPLETE_TRIP", "COMPLETED">> }
  \cup { <<s, "CANCEL", "CANCELLED">> : s \in
           {"REQUESTED", "MATCHING", "DRIVER_TO_PICKUP", "AT_PICKUP", "IN_PROGRESS"} }

\* One command of the table takes a Trip from state s to state u.
Applies(s, u) == \E c \in {tr[2] : tr \in transitions} : <<s, c, u>> \in transitions

\* One recorded transition.  Beyond the table, REJECT_OFFER and EXPIRE_OFFER
\* are recorded as MATCHING to MATCHING.
Recorded(s, u) == Applies(s, u) \/ (s = "MATCHING" /\ u = "MATCHING")

\* n recorded transitions in one transaction, for the n a handler writes: at
\* most two (the step itself, then exhaustion of matching).
RecordedSteps(s, u, n) ==
  \/ n = 1 /\ Recorded(s, u)
  \/ n = 2 /\ \E m \in TripStates : Recorded(s, m) /\ Recorded(m, u)

===============================================================================
