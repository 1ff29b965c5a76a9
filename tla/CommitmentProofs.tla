--------------------------- MODULE CommitmentProofs ---------------------------
(***************************************************************************)
(* Exclusive commitment holds of the abstract specification, for any sets  *)
(* of Drivers and jobs; what implements it inherits it.                    *)
(***************************************************************************)
EXTENDS DriverCommitment, TLAPS

\* Exclusive is inductive once it is known when a job has a holder.
Inv ==
  /\ TypeOK
  /\ \A j \in Jobs : holder[j] # Nobody <=> stage[j] \in {"held", "committed"}
  /\ Exclusive

LEMMA InvInitially == Init => Inv
  BY DEF Init, Inv, TypeOK, Exclusive, Stages

LEMMA InvStep ==
  ASSUME Nobody \notin Drivers, Inv, [Next]_vars
  PROVE  Inv'
  <1> USE DEF Inv, TypeOK, Stages
  <1>1. ASSUME NEW j \in Jobs, Release(j)
        PROVE  Inv'
    BY <1>1 DEF Release, Exclusive
  <1>2. ASSUME NEW j \in Jobs, Commit(j)
        PROVE  Inv'
    BY <1>2 DEF Commit, Exclusive
  <1>3. ASSUME NEW j \in Jobs, Close(j)
        PROVE  Inv'
    BY <1>3 DEF Close, Exclusive
  <1>4. ASSUME NEW j \in Jobs, NEW d \in Drivers, Hold(j, d)
        PROVE  Inv'
    <2>1. d \in onDuty /\ \A k \in Jobs : holder[k] # d
      BY <1>4 DEF Hold, MayAsk, Free
    <2>2. /\ holder'[j] = d /\ stage'[j] = "held"
          /\ \A k \in Jobs \ {j} : holder'[k] = holder[k] /\ stage'[k] = stage[k]
      BY <1>4 DEF Hold
    <2>3. TypeOK'
      BY <1>4 DEF Hold
    <2>4. Exclusive'
      BY <1>4, <2>1, <2>2 DEF Exclusive, Hold
    <2> QED
      BY <2>2, <2>3, <2>4
  <1>5. ASSUME NEW d \in Drivers, ChangeDuty(d)
        PROVE  Inv'
    BY <1>5 DEF ChangeDuty, Free, Exclusive
  <1>6. ASSUME UNCHANGED vars
        PROVE  Inv'
    BY <1>6 DEF vars, Exclusive
  <1> QED
    BY <1>1, <1>2, <1>3, <1>4, <1>5, <1>6 DEF Next

\* A Driver holds at most one job, and only on duty, in every behaviour of the
\* abstract specification.
THEOREM AlwaysExclusive ==
  ASSUME Nobody \notin Drivers
  PROVE  Spec => []Exclusive
  <1>1. Inv /\ [Next]_vars => Inv'
    BY InvStep
  <1>2. Inv => Exclusive
    BY DEF Inv
  <1> QED
    BY InvInitially, <1>1, <1>2, PTL DEF Spec

===============================================================================
