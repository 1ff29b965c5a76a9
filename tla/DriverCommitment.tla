--------------------------- MODULE DriverCommitment ---------------------------
(***************************************************************************)
(* What dispatching promises, without offers, reservations, assignments or *)
(* versions: a job is open, held for one Driver, committed to that Driver, *)
(* or closed.  A Driver holds one job at a time, is never asked twice for  *)
(* the same job, and once committed keeps the job until it closes.         *)
(* Platform implements this for Trips and Deliveries together.             *)
(***************************************************************************)
CONSTANTS
  Drivers, Jobs,
  Nobody           \* the holder of a job nobody holds; no Driver

VARIABLES
  stage,    \* of each job: open, held, committed or closed
  holder,   \* the Driver a job is held for or committed to
  asked,    \* the Drivers a job was ever offered to
  onDuty    \* the Drivers who are free to be asked, or have a job

vars == <<stage, holder, asked, onDuty>>

Stages == {"open", "held", "committed", "closed"}

TypeOK ==
  /\ stage \in [Jobs -> Stages]
  /\ holder \in [Jobs -> Drivers \cup {Nobody}]
  /\ asked \in [Jobs -> SUBSET Drivers]
  /\ onDuty \subseteq Drivers

Init ==
  /\ stage = [j \in Jobs |-> "open"]
  /\ holder = [j \in Jobs |-> Nobody]
  /\ asked = [j \in Jobs |-> {}]
  /\ onDuty = {}

Free(d) == \A j \in Jobs : holder[j] # d

\* Drivers a job may be offered to next.
MayAsk(j) == {d \in onDuty \ asked[j] : Free(d)}

\* Hold job j for Driver d: the first offer, or the next one, in which case
\* the Driver who had the previous offer is released by the same step.
Hold(j, d) ==
  /\ stage[j] \in {"open", "held"}
  /\ d \in MayAsk(j)
  /\ stage' = [stage EXCEPT ![j] = "held"]
  /\ holder' = [holder EXCEPT ![j] = d]
  /\ asked' = [asked EXCEPT ![j] = @ \cup {d}]
  /\ UNCHANGED onDuty

Release(j) ==
  /\ stage[j] = "held"
  /\ stage' = [stage EXCEPT ![j] = "open"]
  /\ holder' = [holder EXCEPT ![j] = Nobody]
  /\ UNCHANGED <<asked, onDuty>>

Commit(j) ==
  /\ stage[j] = "held"
  /\ stage' = [stage EXCEPT ![j] = "committed"]
  /\ UNCHANGED <<holder, asked, onDuty>>

Close(j) ==
  /\ stage[j] # "closed"
  /\ stage' = [stage EXCEPT ![j] = "closed"]
  /\ holder' = [holder EXCEPT ![j] = Nobody]
  /\ UNCHANGED <<asked, onDuty>>

\* A Driver comes on duty or leaves, and may leave only when free.
ChangeDuty(d) ==
  /\ Free(d)
  /\ onDuty' \in {onDuty \cup {d}, onDuty \ {d}}
  /\ UNCHANGED <<stage, holder, asked>>

Next ==
  \/ \E j \in Jobs : Release(j) \/ Commit(j) \/ Close(j)
  \/ \E j \in Jobs, d \in Drivers : Hold(j, d)
  \/ \E d \in Drivers : ChangeDuty(d)

Spec == Init /\ [][Next]_vars

\* A Driver holds at most one job, and only while on duty.
Exclusive ==
  /\ \A j, k \in Jobs : holder[j] = holder[k] /\ holder[j] # Nobody => j = k
  /\ \A j \in Jobs : holder[j] # Nobody => holder[j] \in onDuty

===============================================================================
