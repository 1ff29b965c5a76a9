------------------------------- MODULE OnceOnly -------------------------------
(***************************************************************************)
(* What an idempotent command promises, without keys, locks, transactions  *)
(* and receipts: a command has one effect or none, the outcome of its one  *)
(* performance never changes, and every request that is answered is told   *)
(* that outcome.  Requests come, get lost and are repeated at any time.    *)
(* Purchase and Onboarding implement this, each with its own tables.       *)
(***************************************************************************)
CONSTANTS
  Commands,     \* what is asked for: one caller's operation under one key
  Requests,     \* the requests under way, each for some command
  Nothing,      \* no outcome, and no answer
  Effect(_, _)  \* what a command with an outcome has brought about

VARIABLES
  effects,    \* everything the commands have brought about
  outcome,    \* of each command: what its one performance left behind
  heard       \* of each request: the command and the outcome it was told

vars == <<effects, outcome, heard>>

Init ==
  /\ effects = {}
  /\ outcome = [m \in Commands |-> Nothing]
  /\ heard = [r \in Requests |-> Nothing]

\* Whatever a request has heard is the outcome of a command as it now stands.
Hears(r) ==
  \/ heard'[r] = Nothing
  \/ \E m \in Commands : /\ outcome'[m] # Nothing
                         /\ heard'[r] = [command |-> m, outcome |-> outcome'[m]]

\* Requests are answered, get lost, and make room for others.
Answers == DOMAIN heard' = Requests /\ \A r \in Requests : Hears(r)

\* Command m is performed, for the first and only time, with an effect of its own.
Perform(m) ==
  /\ outcome[m] = Nothing /\ outcome'[m] # Nothing
  /\ outcome' = [outcome EXCEPT ![m] = outcome'[m]]
  /\ Effect(m, outcome'[m]) \notin effects
  /\ effects' = effects \cup {Effect(m, outcome'[m])}

Next ==
  /\ \/ UNCHANGED <<outcome, effects>>
     \/ \E m \in Commands : Perform(m)
  /\ Answers

Spec == Init /\ [][Next]_vars

===============================================================================
