--------------------------- MODULE OnboardingProofs ---------------------------
(***************************************************************************)
(* Proofs about onboarding, for any number of addresses, operators, keys,  *)
(* requests and vehicles: operators who review the same subject with any   *)
(* keys at the same time leave one decision, receipts name the audit rows  *)
(* one to one, and a Driver is eligible only by decisions made in order.   *)
(***************************************************************************)
EXTENDS Onboarding, TLAPS, SequenceTheorems

(* The inductive invariant *)

DriverReviews  == {"APPROVE_DRIVER", "REJECT_DRIVER"}
VehicleReviews == {"APPROVE_VEHICLE", "REJECT_VEHICLE"}

Subjects  == [driver : Emails, vehicle : Nat]
Bodies    == Roles \cup Subjects
LockNames == ({"email", "profile"} \X Emails) \cup ({"vehicle"} \X Nat) \cup Commands

Requests ==
  [at : {"open", "orphan", "done"}, op : Operations, who : Callers, key : Keys,
   body : Bodies, locks : SUBSET LockNames, plan : {0}, answer : Nat]

Receipts  == {NoReceipt} \cup [body : Bodies, id : Nat \ {0}]
Vehicles  == [driver : Emails, plate : Plates,
              status : {"PENDING", "APPROVED", "REJECTED", "RETIRED"}, selected : BOOLEAN]
AuditRows == [driver : Emails, vehicle : Nat, result : {"APPROVED", "REJECTED"}]

TablesTyped ==
  /\ receipt \in [Commands -> Receipts]
  /\ account \in [Emails -> {"NONE"} \cup Roles]
  /\ profile \in [Emails -> Profiles]
  /\ vehicles \in Seq(Vehicles) /\ decisions \in Seq(AuditRows)
  /\ \A e \in Emails : ~HasProfile(e) => profile[e] = [status |-> "PENDING", phone |-> FALSE]
  /\ \A v \in DOMAIN vehicles : HasProfile(vehicles[v].driver)

Told(m) == receipt[m] # NoReceipt

CallsHold ==
  /\ call \in [Calls -> {Idle} \cup Requests]
  /\ \A r \in Calls : call[r].at = "done" =>
       receipt[CommandOf(call[r])] = [body |-> call[r].body, id |-> call[r].answer]

\* Transactions that are open hold locks of their own.
LocksApart ==
  \A r, x \in Calls : (Open(r) /\ Open(x) /\ r # x) => call[r].locks \cap call[x].locks = {}

\* What an open transaction has read stays true until it commits.
RegistrationHolds(c) ==
  /\ c.op = "REGISTER" /\ c.who \in Emails /\ c.body \in Roles
  /\ c.locks = EmailLocks(c.who)
  /\ account[c.who] = "NONE"

DriverReviewHolds(c) ==
  /\ c.op \in DriverReviews /\ c.body \in Subjects /\ c.body.vehicle = 0
  /\ c.locks = DriverLocks(c.op, c.who, c.key, c.body.driver)
  /\ HasProfile(c.body.driver)
  /\ profile[c.body.driver].status = "PENDING"

VehicleReviewHolds(c) ==
  /\ c.op \in VehicleReviews /\ c.body \in Subjects /\ c.body.vehicle \in DOMAIN vehicles
  /\ c.locks = VehicleLocks(c.op, c.who, c.key, c.body.driver, c.body.vehicle)
  /\ HasProfile(c.body.driver)
  /\ Verdict(c.op) = "APPROVED" => profile[c.body.driver].status = "APPROVED"
  /\ vehicles[c.body.vehicle].driver = c.body.driver
  /\ vehicles[c.body.vehicle].status = "PENDING"

StillTrue(c) ==
  /\ ~Told(CommandOf(c))
  /\ RegistrationHolds(c) \/ DriverReviewHolds(c) \/ VehicleReviewHolds(c)

OpenHold == \A r \in Calls : Open(r) => StillTrue(call[r])

\* Registrations and accounts are one to one.
Registration(m) == m \in Commands /\ Told(m) /\ m[1] = "REGISTER"

AccountsHold ==
  /\ \A m : Registration(m) =>
       m[2] \in Emails /\ receipt[m].body = account[m[2]] /\ account[m[2]] # "NONE"
  /\ \A m, n : (Registration(m) /\ Registration(n) /\ m[2] = n[2]) => m = n
  /\ \A e \in Emails : account[e] # "NONE" => \E m : Registration(m) /\ m[2] = e

\* So are the receipts of reviews and the audit rows.
Review(m) == m \in Commands /\ Told(m) /\ m[1] # "REGISTER"

ReviewsHold ==
  /\ \A m : Review(m) => /\ receipt[m].id \in DOMAIN decisions
                         /\ decisions[receipt[m].id].result = Verdict(m[1])
  /\ \A m, n : (Review(m) /\ Review(n) /\ receipt[m].id = receipt[n].id) => m = n
  /\ \A n \in DOMAIN decisions : \E m : Review(m) /\ receipt[m].id = n

\* Every audit row is about a subject there is, and a vehicle is approved only
\* after its Driver.
About(n, d, v) == decisions[n].driver = d /\ decisions[n].vehicle = v

DriverDecided(d) ==
  /\ \A m, n \in DOMAIN decisions : (About(m, d, 0) /\ About(n, d, 0)) => m = n
  /\ (\A n \in DOMAIN decisions : ~About(n, d, 0)) => profile[d].status = "PENDING"
  /\ \A n \in DOMAIN decisions : About(n, d, 0) => profile[d].status = decisions[n].result

VehicleDecided(v) ==
  LET d == vehicles[v].driver
  IN  /\ \A m, n \in DOMAIN decisions : (About(m, d, v) /\ About(n, d, v)) => m = n
      /\ (\A n \in DOMAIN decisions : ~About(n, d, v)) =>
           vehicles[v].status \in {"PENDING", "RETIRED"}
      /\ \A n \in DOMAIN decisions : About(n, d, v) =>
           vehicles[v].status \in {decisions[n].result, "RETIRED"}

DecidedOnce ==
  /\ \A d \in Emails : DriverDecided(d)
  /\ \A v \in DOMAIN vehicles : VehicleDecided(v)

AuditHolds ==
  /\ \A n \in DOMAIN decisions : decisions[n].vehicle # 0 =>
       /\ decisions[n].vehicle \in DOMAIN vehicles
       /\ vehicles[decisions[n].vehicle].driver = decisions[n].driver
       /\ decisions[n].result = "APPROVED" =>
            \E m \in DOMAIN decisions :
              m < n /\ About(m, decisions[n].driver, 0) /\ decisions[m].result = "APPROVED"

\* One selected vehicle for each Driver: the one approved last of those in use.
SelectionHolds ==
  /\ \A v \in DOMAIN vehicles :
       vehicles[v].selected = TRUE => vehicles[v].status = "APPROVED"
  /\ \A v, w \in DOMAIN vehicles :
       (vehicles[v].selected = TRUE /\ vehicles[w].selected = TRUE
          /\ vehicles[v].driver = vehicles[w].driver) => v = w
  /\ \A v \in DOMAIN vehicles, n, x \in DOMAIN decisions :
       (/\ vehicles[v].selected = TRUE /\ About(n, vehicles[v].driver, v) /\ n < x
        /\ decisions[x].driver = vehicles[v].driver /\ decisions[x].vehicle # 0)
         => decisions[x].result = "REJECTED"
              \/ vehicles[decisions[x].vehicle].status = "RETIRED"

OnboardingInv ==
  /\ TablesTyped /\ CallsHold /\ LocksApart /\ OpenHold
  /\ AccountsHold /\ ReviewsHold /\ DecidedOnce /\ AuditHolds /\ SelectionHolds

-------------------------------------------------------------------------------
(* Requests *)

LEMMA IdleIsNoRequest == Idle.at = "idle" /\ Idle \notin Requests
  BY DEF Idle, Requests

\* The request of a command, and what becomes of it.
NewRequests ==
  [at : {"queued"}, op : Operations, who : Callers, key : Keys,
   body : Bodies, locks : SUBSET LockNames, plan : {0}, answer : Nat]

LEMMA RequestIsNew ==
  ASSUME NEW op \in Operations, NEW who \in Callers, NEW key \in Keys, NEW body \in Bodies
  PROVE  /\ Request(op, who, key, body, "queued") \in NewRequests
         /\ Request(op, who, key, body, "queued").op = op
         /\ Request(op, who, key, body, "queued").who = who
         /\ Request(op, who, key, body, "queued").key = key
         /\ Request(op, who, key, body, "queued").body = body
  BY DEF Request, NewRequests, Failed

Becomes(d, c) ==
  d \in Requests /\ d.op = c.op /\ d.who = c.who /\ d.key = c.key /\ d.body = c.body

LEMMA RequestReplays ==
  ASSUME NEW c \in NewRequests, NEW answer \in Nat,
         NEW d, d = [c EXCEPT !.at = "done", !.answer = answer]
  PROVE  Becomes(d, c) /\ d.at = "done" /\ d.answer = answer
  BY DEF Requests, NewRequests, Becomes

\* A transaction ends: its request is dropped or answered.
Ends(d, c, answer) ==
  \/ d = Idle
  \/ /\ d \in Requests /\ d.at = "done" /\ d.op = c.op /\ d.who = c.who /\ d.key = c.key
     /\ d.body = c.body /\ d.answer = answer /\ answer # Failed

LEMMA RequestEnds ==
  ASSUME NEW c \in Requests, NEW answer \in Nat \ {0},
         NEW d, d = [c EXCEPT !.at = "done", !.locks = {}, !.plan = 0, !.answer = answer]
  PROVE  Ends(d, c, answer)
<1>1. d \in Requests
  BY DEF Requests
<1>2. /\ d.at = "done" /\ d.op = c.op /\ d.who = c.who /\ d.key = c.key
      /\ d.body = c.body /\ d.answer = answer
  BY DEF Requests
<1> QED
  BY <1>1, <1>2 DEF Ends, Failed

LEMMA RequestIsOrphaned ==
  ASSUME NEW c \in Requests, NEW d, d = [c EXCEPT !.at = "orphan"]
  PROVE  /\ d \in Requests /\ d.at = "orphan" /\ d.op = c.op /\ d.who = c.who /\ d.key = c.key
         /\ d.body = c.body /\ d.locks = c.locks
  BY DEF Requests

\* The command of a request.
LEMMA CommandFacts ==
  ASSUME NEW c \in Requests
  PROVE  /\ CommandOf(c) \in Commands
         /\ CommandOf(c)[1] = c.op /\ CommandOf(c)[2] = c.who /\ CommandOf(c)[3] = c.key
  BY DEF CommandOf, Commands, Requests

\* Nobody joins the call of another here: only r is answered.
LEMMA AnswersOne ==
  ASSUME CallsHold, NEW r \in Calls, call[r] \in Requests, NEW answer \in Nat,
         call' = Answered(r, answer)
  PROVE  /\ call' = [x \in Calls |-> call'[x]]
         /\ \A x \in Calls : x # r => call'[x] = call[x]
         /\ Ends(call'[r], call[r], answer)
<1>1. Followers(r) = {}
  BY DEF Followers, CallsHold, Requests, Idle
<1>2. /\ call' = [x \in Calls |-> call'[x]]
      /\ \A x \in Calls : x # r => call'[x] = call[x]
      /\ call'[r] = IF answer = Failed \/ call[r].at = "orphan" THEN Idle
                    ELSE [call[r] EXCEPT !.at = "done", !.locks = {}, !.plan = 0,
                                         !.answer = answer]
  BY <1>1 DEF Answered
<1>3. CASE answer = Failed \/ call[r].at = "orphan"
  BY <1>2, <1>3 DEF Ends
<1>4. CASE ~(answer = Failed \/ call[r].at = "orphan")
  BY <1>2, <1>4, RequestEnds DEF Failed
<1> QED
  BY <1>2, <1>3, <1>4

\* A command taken up is answered by its receipt, refused, or opens.
OpensCall(r, op, who, key, body, locks) ==
  /\ ~Told(<<op, who, key>>) /\ Free(locks)
  /\ call'[r] \in Requests /\ call'[r].at = "open" /\ call'[r].op = op /\ call'[r].who = who
  /\ call'[r].key = key /\ call'[r].body = body /\ call'[r].locks = locks

LEMMA TakenCalls ==
  ASSUME CallsHold, TablesTyped, NEW r \in Calls,
         NEW op \in Operations, NEW who \in Callers, NEW key \in Keys, NEW body \in Bodies,
         NEW locks \in SUBSET LockNames, NEW verdict,
         Taken(r, Request(op, who, key, body, "queued"), locks, verdict, 0)
  PROVE  /\ call' = [x \in Calls |-> call'[x]] /\ ~Open(r)
         /\ \A x \in Calls : x # r => call'[x] = call[x]
         /\ receipt' = receipt
         /\ \/ call'[r] = Idle
            \/ /\ call'[r] \in Requests /\ call'[r].at = "done"
               /\ receipt[CommandOf(call'[r])]
                    = [body |-> call'[r].body, id |-> call'[r].answer]
            \/ verdict = "NONE" /\ OpensCall(r, op, who, key, body, locks)
<1> PICK c : c = Request(op, who, key, body, "queued")
  OBVIOUS
<1>1. /\ CommandOf(c) = <<op, who, key>>
      /\ c \in NewRequests /\ c.op = op /\ c.who = who /\ c.key = key /\ c.body = body
  BY RequestIsNew DEF CommandOf
<1>2. /\ Vacant(r) /\ Free(locks) /\ receipt' = receipt
      /\ call' = [call EXCEPT ![r] =
           IF receipt[CommandOf(c)] # NoReceipt THEN Replayed(c)
           ELSE IF verdict # "NONE" THEN Idle
           ELSE [c EXCEPT !.at = "open", !.locks = locks, !.plan = 0]]
  BY DEF Taken
<1>3. /\ call' = [x \in Calls |-> call'[x]] /\ \A x \in Calls : x # r => call'[x] = call[x]
      /\ call'[r] = IF receipt[CommandOf(c)] # NoReceipt THEN Replayed(c)
                    ELSE IF verdict # "NONE" THEN Idle
                    ELSE [c EXCEPT !.at = "open", !.locks = locks, !.plan = 0]
  BY <1>2 DEF CallsHold
<1>4. ~Open(r)
  BY <1>2 DEF Vacant, Open
<1>5. CASE receipt[CommandOf(c)] # NoReceipt
  <2>1. <<op, who, key>> \in Commands
    BY DEF Commands
  <2> PICK known : known = receipt[<<op, who, key>>]
    OBVIOUS
  <2>2. known \in [body : Bodies, id : Nat \ {0}]
    BY <1>1, <1>5, <2>1 DEF TablesTyped, Receipts
  <2>3. CASE known.body = body
    <3>1. Replay(c) = known.id /\ known.id \in Nat /\ known.id # 0
      BY <1>1, <2>2, <2>3 DEF Replay
    <3>2. call'[r] = [c EXCEPT !.at = "done", !.answer = known.id]
      BY <1>3, <1>5, <3>1 DEF Replayed, Failed
    <3>3. /\ call'[r] \in Requests /\ call'[r].at = "done" /\ call'[r].op = op
          /\ call'[r].who = who /\ call'[r].key = key
          /\ call'[r].body = body /\ call'[r].answer = known.id
      <4> PICK d : d = [c EXCEPT !.at = "done", !.answer = known.id]
        OBVIOUS
      <4>1. Becomes(d, c) /\ d.at = "done" /\ d.answer = known.id
        BY <1>1, <3>1, RequestReplays
      <4> QED
        BY <1>1, <3>2, <4>1 DEF Becomes
    <3>4. known = [body |-> known.body, id |-> known.id]
      BY <2>2
    <3> QED
      BY <1>2, <1>3, <1>4, <2>3, <3>3, <3>4 DEF CommandOf
  <2>4. CASE known.body # body
    <3>1. Replay(c) = Failed
      BY <1>1, <2>4 DEF Replay
    <3> QED
      BY <1>2, <1>3, <1>4, <1>5, <3>1 DEF Replayed
  <2> QED
    BY <2>3, <2>4
<1>6. CASE receipt[CommandOf(c)] = NoReceipt /\ verdict # "NONE"
  BY <1>2, <1>3, <1>4, <1>6
<1>7. CASE receipt[CommandOf(c)] = NoReceipt /\ verdict = "NONE"
  <2>1. call'[r] = [c EXCEPT !.at = "open", !.locks = locks, !.plan = 0]
    BY <1>3, <1>7
  <2>2. OpensCall(r, op, who, key, body, locks)
    <3> PICK d : d = [c EXCEPT !.at = "open", !.locks = locks, !.plan = 0]
      OBVIOUS
    <3>1. Becomes(d, c) /\ d.at = "open" /\ d.locks = locks
      BY <1>1 DEF Requests, NewRequests, Becomes
    <3>2. d = call'[r]
      BY <2>1
    <3> QED
      BY <1>1, <1>2, <1>7, <3>1, <3>2 DEF OpensCall, Told, Becomes
  <2> QED
    BY <1>2, <1>3, <1>4, <1>7, <2>2
<1> QED
  BY <1>5, <1>6, <1>7

\* What one step does to a request: it is over, stays in its transaction, or
\* opens one under locks nobody holds.
IsOver(x) ==
  \/ call'[x] = Idle
  \/ /\ call'[x] \in Requests /\ call'[x].at = "done"
     /\ receipt'[CommandOf(call'[x])] = [body |-> call'[x].body, id |-> call'[x].answer]

GoesOn(x) ==
  /\ Open(x) /\ call'[x].at \in {"open", "orphan"}
  /\ Becomes(call'[x], call[x]) /\ call'[x].locks = call[x].locks

Opens(x) ==
  /\ ~Open(x) /\ Free(call'[x].locks)
  /\ call'[x] \in Requests /\ call'[x].at = "open"

LEMMA CallsKeep ==
  ASSUME CallsHold, LocksApart, call' = [x \in Calls |-> call'[x]],
         NEW r \in Calls, IsOver(r) \/ GoesOn(r) \/ Opens(r),
         \A x \in Calls : x # r => IsOver(x) \/ GoesOn(x)
  PROVE  CallsHold' /\ LocksApart'
<1>1. \A x \in Calls : call'[x] \in {Idle} \cup Requests
  BY DEF IsOver, GoesOn, Opens, Becomes
<1>2. \A x \in Calls : call'[x].at = "done" =>
        receipt'[CommandOf(call'[x])] = [body |-> call'[x].body, id |-> call'[x].answer]
  BY IdleIsNoRequest DEF IsOver, GoesOn, Opens
<1>3. CallsHold'
  BY <1>1, <1>2 DEF CallsHold
<1>4. \A x \in Calls : Open(x)' => GoesOn(x) \/ (x = r /\ Opens(r))
  BY IdleIsNoRequest DEF IsOver, Open
<1>5. LocksApart'
  <2> SUFFICES ASSUME NEW x \in Calls, NEW y \in Calls, Open(x)', Open(y)', x # y
               PROVE  call'[x].locks \cap call'[y].locks = {}
    BY DEF LocksApart
  <2>1. CASE GoesOn(x) /\ GoesOn(y)
    BY <2>1 DEF LocksApart, GoesOn
  <2>2. CASE x = r /\ Opens(r) /\ GoesOn(y)
    BY <2>2 DEF GoesOn, Opens, Free
  <2>3. CASE y = r /\ Opens(r) /\ GoesOn(x)
    BY <2>3 DEF GoesOn, Opens, Free
  <2> QED
    BY <1>4, <2>1, <2>2, <2>3
<1> QED
  BY <1>3, <1>5

\* A step leaves what an open transaction has read.
UntouchedRows(c) ==
  /\ c.op = "REGISTER" => account'[c.who] = account[c.who]
  /\ c.op # "REGISTER" =>
       /\ HasProfile(c.body.driver)' = HasProfile(c.body.driver)
       /\ profile'[c.body.driver] = profile[c.body.driver]
  /\ c.op \in VehicleReviews =>
       /\ c.body.vehicle \in DOMAIN vehicles'
       /\ vehicles'[c.body.vehicle] = vehicles[c.body.vehicle]

Untouched(c) ==
  receipt'[CommandOf(c)] = receipt[CommandOf(c)] /\ UntouchedRows(c)

LEMMA StillTrueStays ==
  ASSUME NEW c \in Requests, NEW d, Becomes(d, c), d.locks = c.locks,
         StillTrue(c), Untouched(c)
  PROVE  StillTrue(d)'
<1>1. CommandOf(d) = CommandOf(c)
  BY DEF Becomes, CommandOf
<1>2. ~Told(CommandOf(d))'
  BY <1>1 DEF StillTrue, Untouched, Told
<1>3. CASE RegistrationHolds(c)
  <2>1. RegistrationHolds(d)'
    BY <1>3 DEF RegistrationHolds, Becomes, Untouched, UntouchedRows
  <2> QED
    BY <1>2, <2>1 DEF StillTrue
<1>4. CASE DriverReviewHolds(c)
  <2>1. c.op # "REGISTER"
    BY <1>4 DEF DriverReviewHolds, DriverReviews
  <2>2. HasProfile(c.body.driver)' /\ profile'[c.body.driver] = profile[c.body.driver]
    BY <1>4, <2>1 DEF DriverReviewHolds, Untouched, UntouchedRows, HasProfile
  <2>3. DriverReviewHolds(d)'
    BY <1>4, <2>2 DEF DriverReviewHolds, Becomes, HasProfile
  <2> QED
    BY <1>2, <2>3 DEF StillTrue
<1>5. CASE VehicleReviewHolds(c)
  <2>1. c.op # "REGISTER" /\ c.op \in VehicleReviews
    BY <1>5 DEF VehicleReviewHolds, VehicleReviews
  <2>2. /\ HasProfile(c.body.driver)' /\ profile'[c.body.driver] = profile[c.body.driver]
        /\ c.body.vehicle \in DOMAIN vehicles'
        /\ vehicles'[c.body.vehicle] = vehicles[c.body.vehicle]
    BY <1>5, <2>1 DEF VehicleReviewHolds, Untouched, UntouchedRows, HasProfile
  <2>3. VehicleReviewHolds(d)'
    BY <1>5, <2>2 DEF VehicleReviewHolds, Becomes, HasProfile
  <2> QED
    BY <1>2, <2>3 DEF StillTrue
<1> QED
  BY <1>3, <1>4, <1>5 DEF StillTrue

LEMMA OpenKeep ==
  ASSUME CallsHold, OpenHold, NEW r \in Calls,
         IsOver(r) \/ GoesOn(r) \/ (Opens(r) /\ StillTrue(call[r])'),
         \A x \in Calls : x # r => IsOver(x) \/ GoesOn(x),
         \A x \in Calls : GoesOn(x) => Untouched(call[x])
  PROVE  OpenHold'
<1> SUFFICES ASSUME NEW x \in Calls, Open(x)' PROVE StillTrue(call[x])'
  BY DEF OpenHold
<1>1. GoesOn(x) \/ (x = r /\ StillTrue(call[r])')
  BY IdleIsNoRequest DEF IsOver, Open
<1>2. CASE GoesOn(x)
  <2> PICK c : c = call[x]
    OBVIOUS
  <2> PICK d : d = call'[x]
    OBVIOUS
  <2>1. c \in Requests /\ StillTrue(c) /\ Untouched(c) /\ Becomes(d, c) /\ d.locks = c.locks
    BY <1>2, IdleIsNoRequest DEF GoesOn, CallsHold, OpenHold, Open
  <2>2. StillTrue(d)'
    BY <2>1, StillTrueStays
  <2> QED
    BY <2>2
<1> QED
  BY <1>1, <1>2

-------------------------------------------------------------------------------
(* Transactions that open, fail or are cut off *)

RowsHold ==
  /\ TablesTyped /\ AccountsHold /\ ReviewsHold
  /\ DecidedOnce /\ AuditHolds /\ SelectionHolds

UnchangedRows == UNCHANGED <<receipt, account, profile, vehicles, decisions>>

LEMMA RowsStay ==
  ASSUME RowsHold, UnchangedRows
  PROVE  RowsHold'
<1> USE DEF UnchangedRows
<1>1. TablesTyped'
  BY DEF RowsHold, TablesTyped, HasProfile
<1>2. AccountsHold'
  BY DEF RowsHold, AccountsHold, Registration, Told
<1>3. ReviewsHold'
  BY DEF RowsHold, ReviewsHold, Review, Told
<1>4. DecidedOnce'
  BY DEF RowsHold, DecidedOnce, DriverDecided, VehicleDecided, About
<1>5. AuditHolds'
  BY DEF RowsHold, AuditHolds, About
<1>6. SelectionHolds'
  BY DEF RowsHold, SelectionHolds, About
<1> QED
  BY <1>1, <1>2, <1>3, <1>4, <1>5, <1>6 DEF RowsHold

\* What is open rests on the rows, and they do not move.
LEMMA UnchangedLeavesOpen ==
  ASSUME OpenHold, UnchangedRows
  PROVE  \A x \in Calls : Open(x) => Untouched(call[x])
<1> SUFFICES ASSUME NEW x \in Calls, Open(x) PROVE Untouched(call[x])
  OBVIOUS
<1> PICK c : c = call[x]
  OBVIOUS
<1>1. StillTrue(c)
  BY DEF OpenHold
<1>2. c.op \in VehicleReviews => c.body.vehicle \in DOMAIN vehicles
  BY <1>1 DEF StillTrue, VehicleReviewHolds, RegistrationHolds, DriverReviewHolds,
     VehicleReviews, DriverReviews
<1>3. /\ receipt' = receipt /\ account' = account /\ profile' = profile /\ vehicles' = vehicles
  BY DEF UnchangedRows
<1>4. Untouched(c)
  BY <1>2, <1>3 DEF Untouched, UntouchedRows, HasProfile
<1> QED
  BY <1>4

LEMMA OthersGoOn ==
  ASSUME CallsHold, NEW x \in Calls, call'[x] = call[x], receipt' = receipt
  PROVE  IsOver(x) \/ GoesOn(x)
  BY DEF CallsHold, IsOver, GoesOn, Open, Becomes, Requests

LEMMA OpenStep ==
  ASSUME OnboardingInv, NEW r \in Calls,
         NEW op \in Operations, NEW who \in Callers, NEW key \in Keys, NEW body \in Bodies,
         NEW locks \in SUBSET LockNames, NEW verdict,
         Taken(r, Request(op, who, key, body, "queued"), locks, verdict, 0),
         UNCHANGED <<account, driverVars, decisions>>,
         (verdict = "NONE" /\ OpensCall(r, op, who, key, body, locks)) => StillTrue(call'[r])
  PROVE  OnboardingInv'
<1>1. /\ call' = [x \in Calls |-> call'[x]] /\ ~Open(r)
      /\ \A x \in Calls : x # r => call'[x] = call[x]
      /\ receipt' = receipt
      /\ \/ call'[r] = Idle
         \/ /\ call'[r] \in Requests /\ call'[r].at = "done"
            /\ receipt[CommandOf(call'[r])] = [body |-> call'[r].body, id |-> call'[r].answer]
         \/ verdict = "NONE" /\ OpensCall(r, op, who, key, body, locks)
  BY TakenCalls DEF OnboardingInv
<1>2. UnchangedRows
  BY <1>1 DEF UnchangedRows, driverVars
<1>3. RowsHold'
  BY <1>2, RowsStay DEF OnboardingInv, RowsHold
<1>4. \A x \in Calls : x # r => IsOver(x) \/ GoesOn(x)
  BY <1>1, OthersGoOn DEF OnboardingInv
<1>5. IsOver(r) \/ (Opens(r) /\ StillTrue(call[r])')
  <2>1. CASE verdict = "NONE" /\ OpensCall(r, op, who, key, body, locks)
    <3>1. Opens(r)
      BY <1>1, <2>1 DEF OpensCall, Opens
    <3> PICK d : d = call'[r]
      OBVIOUS
    <3>2. StillTrue(d)
      BY <2>1
    <3>3. StillTrue(d)'
      BY <1>2, <3>2 DEF StillTrue, Told, RegistrationHolds, DriverReviewHolds,
         VehicleReviewHolds, HasProfile, UnchangedRows
    <3> QED
      BY <3>1, <3>3
  <2> QED
    BY <1>1, <2>1 DEF IsOver
<1>6. CallsHold' /\ LocksApart'
  BY <1>1, <1>4, <1>5, CallsKeep DEF OnboardingInv
<1>7. OpenHold'
  BY <1>2, <1>4, <1>5, UnchangedLeavesOpen, OpenKeep DEF OnboardingInv, GoesOn
<1> QED
  BY <1>3, <1>6, <1>7 DEF OnboardingInv, RowsHold

LEMMA OpenRegisterStep ==
  ASSUME OnboardingInv, NEW r \in Calls, NEW e \in Emails, NEW k \in Keys, NEW role \in Roles,
         OpenRegister(r, e, k, role)
  PROVE  OnboardingInv'
<1> PICK verdict : verdict = IF account[e] = "NONE" THEN "NONE" ELSE "EMAIL_ALREADY_REGISTERED"
  OBVIOUS
<1>1. /\ "REGISTER" \in Operations /\ e \in Callers /\ role \in Bodies
      /\ EmailLocks(e) \in SUBSET LockNames
  BY OnboardingAssumption DEF Bodies, EmailLocks, LockNames
<1>2. /\ Taken(r, Request("REGISTER", e, k, role, "queued"), EmailLocks(e), verdict, 0)
      /\ UNCHANGED <<account, driverVars, decisions>>
  BY DEF OpenRegister
<1>3. (verdict = "NONE" /\ OpensCall(r, "REGISTER", e, k, role, EmailLocks(e)))
        => StillTrue(call'[r])
  BY DEF OpensCall, StillTrue, RegistrationHolds, CommandOf
<1> QED
  BY <1>1, <1>2, <1>3, OpenStep

LEMMA OpenDriverReviewStep ==
  ASSUME OnboardingInv, NEW r \in Calls, NEW o \in Operators, NEW k \in Keys,
         NEW op \in DriverReviews \cap Operations, NEW d \in Emails,
         OpenDriverReview(r, op, o, k, d)
  PROVE  OnboardingInv'
<1> PICK body : body = [driver |-> d, vehicle |-> 0]
  OBVIOUS
<1> PICK locks : locks = DriverLocks(op, o, k, d)
  OBVIOUS
<1> PICK verdict : verdict = DriverVerdict(op, d)
  OBVIOUS
<1>1. body \in Subjects /\ body.driver = d /\ body.vehicle = 0 /\ body \in Bodies
  BY DEF Subjects, Bodies
<1>2. op \in Operations /\ o \in Callers /\ <<op, o, k>> \in Commands
  BY OnboardingAssumption DEF Commands
<1>3. locks \in SUBSET LockNames
  BY <1>2 DEF DriverLocks, LockNames, ProfileRow
<1>4. /\ Taken(r, Request(op, o, k, body, "queued"), locks, verdict, 0)
      /\ UNCHANGED <<account, driverVars, decisions>>
  BY DEF OpenDriverReview
<1>5. verdict = "NONE" => HasProfile(d) /\ profile[d].status = "PENDING"
  BY DEF DriverVerdict
<1>6. (verdict = "NONE" /\ OpensCall(r, op, o, k, body, locks)) => StillTrue(call'[r])
  BY <1>1, <1>5 DEF OpensCall, StillTrue, DriverReviewHolds, CommandOf
<1> QED
  BY <1>1, <1>2, <1>3, <1>4, <1>6, OpenStep

LEMMA OpenVehicleReviewStep ==
  ASSUME OnboardingInv, NEW r \in Calls, NEW o \in Operators, NEW k \in Keys,
         NEW op \in VehicleReviews \cap Operations, NEW d \in Emails, NEW v \in 1..MaxVehicles,
         OpenVehicleReview(r, op, o, k, d, v)
  PROVE  OnboardingInv'
<1> PICK body : body = [driver |-> d, vehicle |-> v]
  OBVIOUS
<1> PICK locks : locks = VehicleLocks(op, o, k, d, v)
  OBVIOUS
<1> PICK verdict : verdict = VehicleVerdict(op, d, v)
  OBVIOUS
<1>1. /\ body \in Subjects /\ body.driver = d /\ body.vehicle = v /\ body \in Bodies
      /\ v \in Nat
  BY OnboardingAssumption DEF Subjects, Bodies
<1>2. op \in Operations /\ o \in Callers /\ <<op, o, k>> \in Commands
  BY OnboardingAssumption DEF Commands
<1>3. locks \in SUBSET LockNames
  BY <1>1, <1>2 DEF VehicleLocks, LockNames, ProfileRow, VehicleRow
<1>4. /\ Taken(r, Request(op, o, k, body, "queued"), locks, verdict, 0)
      /\ UNCHANGED <<account, driverVars, decisions>>
  BY DEF OpenVehicleReview
<1>5. verdict = "NONE" =>
        /\ HasProfile(d) /\ v \in DOMAIN vehicles /\ vehicles[v].driver = d
        /\ Verdict(op) = "APPROVED" => profile[d].status = "APPROVED"
        /\ vehicles[v].status = "PENDING"
  BY DEF VehicleVerdict
<1>6. (verdict = "NONE" /\ OpensCall(r, op, o, k, body, locks)) => StillTrue(call'[r])
  BY <1>1, <1>5 DEF OpensCall, StillTrue, VehicleReviewHolds, CommandOf
<1> QED
  BY <1>1, <1>2, <1>3, <1>4, <1>6, OpenStep

LEMMA FailsStep ==
  ASSUME OnboardingInv, NEW r \in Calls, Fails(r), UNCHANGED <<account, driverVars, decisions>>
  PROVE  OnboardingInv'
<1>1. call[r] \in Requests
  BY IdleIsNoRequest DEF OnboardingInv, CallsHold, Fails
<1>2. /\ call' = [x \in Calls |-> call'[x]]
      /\ \A x \in Calls : x # r => call'[x] = call[x]
      /\ Ends(call'[r], call[r], Failed)
  BY <1>1, AnswersOne DEF Fails, OnboardingInv, Failed
<1>3. UnchangedRows
  BY DEF UnchangedRows, driverVars, Fails
<1>4. IsOver(r)
  BY <1>2 DEF Ends, IsOver
<1>5. \A x \in Calls : x # r => IsOver(x) \/ GoesOn(x)
  BY <1>2, <1>3, OthersGoOn DEF OnboardingInv, UnchangedRows
<1>6. CallsHold' /\ LocksApart'
  BY <1>2, <1>4, <1>5, CallsKeep DEF OnboardingInv
<1>7. OpenHold'
  BY <1>3, <1>4, <1>5, UnchangedLeavesOpen, OpenKeep DEF OnboardingInv, GoesOn
<1> QED
  BY <1>3, <1>6, <1>7, RowsStay DEF OnboardingInv, RowsHold

LEMMA ProcessStopsStep ==
  ASSUME OnboardingInv, NEW sent \in SUBSET Calls, ProcessStops(sent),
         UNCHANGED <<account, driverVars, decisions>>
  PROVE  OnboardingInv'
<1>1. /\ call' = [x \in Calls |-> call'[x]] /\ sent \subseteq {r \in Calls : Open(r)}
      /\ \A x \in Calls : call'[x] = IF x \in sent THEN [call[x] EXCEPT !.at = "orphan"] ELSE Idle
  BY DEF ProcessStops
<1>2. UnchangedRows
  BY DEF UnchangedRows, driverVars, ProcessStops
<1>3. ASSUME NEW x \in Calls PROVE IsOver(x) \/ GoesOn(x)
  <2>1. CASE x \in sent
    <3> PICK c : c = call[x]
      OBVIOUS
    <3>1. Open(x) /\ c \in Requests
      BY <1>1, <2>1, IdleIsNoRequest DEF OnboardingInv, CallsHold, Open
    <3>2. call'[x] = [c EXCEPT !.at = "orphan"]
      BY <1>1, <2>1
    <3>3. /\ call'[x] \in Requests /\ call'[x].at = "orphan" /\ call'[x].op = c.op
          /\ call'[x].who = c.who /\ call'[x].key = c.key
          /\ call'[x].body = c.body /\ call'[x].locks = c.locks
      BY <3>1, <3>2 DEF Requests
    <3> QED
      BY <3>1, <3>3 DEF GoesOn, Becomes
  <2>2. CASE x \notin sent
    BY <1>1, <2>2 DEF IsOver
  <2> QED
    BY <2>1, <2>2
<1>4. CASE Calls = {}
  BY <1>1, <1>2, <1>4, RowsStay DEF OnboardingInv, RowsHold, CallsHold, LocksApart, OpenHold
<1>5. ASSUME NEW r \in Calls PROVE OnboardingInv'
  <2>1. CallsHold' /\ LocksApart'
    BY <1>1, <1>3, <1>5, CallsKeep DEF OnboardingInv
  <2>2. OpenHold'
    BY <1>2, <1>3, <1>5, UnchangedLeavesOpen, OpenKeep DEF OnboardingInv, GoesOn
  <2> QED
    BY <1>2, <2>1, <2>2, RowsStay DEF OnboardingInv, RowsHold
<1> QED
  BY <1>4, <1>5

-------------------------------------------------------------------------------
(* The Driver's own commands *)

\* A row that is added leaves the others where they are.
LEMMA AppendFacts ==
  ASSUME NEW S, NEW s \in Seq(S), NEW e \in S, NEW t, t = Append(s, e)
  PROVE  /\ t \in Seq(S) /\ Len(s) \in Nat
         /\ DOMAIN t = DOMAIN s \cup {Len(s) + 1} /\ Len(s) + 1 \notin DOMAIN s
         /\ t[Len(s) + 1] = e
         /\ \A i \in DOMAIN s : t[i] = s[i] /\ i \in Nat \ {0} /\ i < Len(s) + 1
<1>1. /\ t \in Seq(S) /\ Len(t) = Len(s) + 1
      /\ \A i \in 1..Len(s) : t[i] = s[i]
      /\ t[Len(s) + 1] = e
  BY AppendProperties
<1>2. /\ Len(s) \in Nat /\ DOMAIN s = 1..Len(s) /\ DOMAIN t = 1..(Len(s) + 1)
  BY <1>1, LenProperties
<1> QED
  BY <1>1, <1>2

\* Every row of a table has a row's type.
LEMMA RowTypes ==
  ASSUME TablesTyped
  PROVE  /\ \A v \in DOMAIN vehicles : vehicles[v] \in Vehicles /\ v \in Nat \ {0}
         /\ \A n \in DOMAIN decisions : decisions[n] \in AuditRows /\ n \in Nat \ {0}
  BY ElementOfSeq, LenProperties DEF TablesTyped

LEMMA DriverKeeps ==
  ASSUME OnboardingInv, RowsHold', UNCHANGED callVars,
         \A x \in Calls : Open(x) => Untouched(call[x])
  PROVE  OnboardingInv'
<1>1. call' = call /\ receipt' = receipt
  BY DEF callVars
<1>2. CallsHold' /\ LocksApart'
  BY <1>1 DEF OnboardingInv, CallsHold, LocksApart, Open
<1>3. \A x \in Calls : IsOver(x) \/ GoesOn(x)
  BY <1>1, OthersGoOn DEF OnboardingInv
<1>4. OpenHold'
  <2> SUFFICES ASSUME NEW r \in Calls PROVE OpenHold'
    BY DEF OpenHold
  <2> QED
    BY <1>3, OpenKeep DEF OnboardingInv, GoesOn
<1> QED
  BY <1>2, <1>4 DEF OnboardingInv, RowsHold

\* A review that is open holds the rows it has read.
LEMMA ReviewsLock ==
  ASSUME OpenHold, NEW x \in Calls, Open(x), NEW c, c = call[x]
  PROVE  /\ StillTrue(c)
         /\ c.op \in VehicleReviews => VehicleReviewHolds(c)
         /\ c.op \in DriverReviews => DriverReviewHolds(c)
         /\ c.op = "REGISTER" => RegistrationHolds(c)
         /\ c.op # "REGISTER" => /\ HasProfile(c.body.driver)
                                 /\ ProfileRow(c.body.driver) \in c.locks
         /\ c.op \in VehicleReviews => VehicleRow(c.body.vehicle) \in c.locks
<1>1. StillTrue(c)
  BY DEF OpenHold
<1>2. /\ RegistrationHolds(c) => c.op = "REGISTER"
      /\ DriverReviewHolds(c) => c.op \in DriverReviews
      /\ VehicleReviewHolds(c) => c.op \in VehicleReviews
  BY DEF RegistrationHolds, DriverReviewHolds, VehicleReviewHolds
<1>3. /\ c.op \in VehicleReviews => c.op \notin DriverReviews /\ c.op # "REGISTER"
      /\ c.op \in DriverReviews => c.op # "REGISTER"
  BY DEF VehicleReviews, DriverReviews
<1>4. /\ c.op \in VehicleReviews => VehicleReviewHolds(c)
      /\ c.op \in DriverReviews => DriverReviewHolds(c)
      /\ c.op = "REGISTER" => RegistrationHolds(c)
      /\ c.op # "REGISTER" => VehicleReviewHolds(c) \/ DriverReviewHolds(c)
  BY <1>1, <1>2, <1>3 DEF StillTrue
<1>5. /\ DriverReviewHolds(c) =>
           HasProfile(c.body.driver) /\ ProfileRow(c.body.driver) \in c.locks
      /\ VehicleReviewHolds(c) =>
           /\ HasProfile(c.body.driver) /\ ProfileRow(c.body.driver) \in c.locks
           /\ VehicleRow(c.body.vehicle) \in c.locks
  BY DEF DriverReviewHolds, VehicleReviewHolds, DriverLocks, VehicleLocks
<1> QED
  BY <1>1, <1>4, <1>5

LEMMA UpdateProfileStep ==
  ASSUME OnboardingInv, NEW d \in Emails, NEW phone \in BOOLEAN, UpdateProfile(d, phone)
  PROVE  OnboardingInv'
<1>1. /\ HasProfile(d) /\ Free({ProfileRow(d)})
      /\ profile' = [profile EXCEPT ![d].phone = phone]
      /\ UNCHANGED <<call, receipt, account, vehicles, decisions>>
  BY DEF UpdateProfile, callVars
<1>2. /\ profile' \in [Emails -> Profiles]
      /\ \A e \in Emails : profile'[e].status = profile[e].status
      /\ \A e \in Emails : e # d => profile'[e] = profile[e]
  BY <1>1 DEF OnboardingInv, TablesTyped, Profiles
<1>3. TablesTyped'
  BY <1>1, <1>2 DEF OnboardingInv, TablesTyped, HasProfile
<1>4. DecidedOnce'
  BY <1>1, <1>2 DEF OnboardingInv, DecidedOnce, DriverDecided, VehicleDecided, About
<1>5. AccountsHold' /\ ReviewsHold'
  BY <1>1 DEF OnboardingInv, AccountsHold, Registration, Told, ReviewsHold, Review
<1>6. AuditHolds' /\ SelectionHolds'
  BY <1>1 DEF OnboardingInv, AuditHolds, SelectionHolds, About
<1>7. ASSUME NEW x \in Calls, Open(x) PROVE Untouched(call[x])
  <2> PICK c : c = call[x]
    OBVIOUS
  <2>1. /\ StillTrue(c)
        /\ c.op \in VehicleReviews => VehicleReviewHolds(c)
        /\ c.op # "REGISTER" => HasProfile(c.body.driver) /\ ProfileRow(c.body.driver) \in c.locks
    BY <1>7, ReviewsLock DEF OnboardingInv
  <2>2. c.op # "REGISTER" => c.body.driver # d
    BY <1>1, <1>7, <2>1 DEF Free
  <2>3. c.op # "REGISTER" => c.body.driver \in Emails
    BY <2>1 DEF StillTrue, RegistrationHolds, DriverReviewHolds, VehicleReviewHolds, Subjects
  <2>4. c.op \in VehicleReviews => c.body.vehicle \in DOMAIN vehicles
    BY <2>1 DEF VehicleReviewHolds
  <2>5. Untouched(c)
    BY <1>1, <1>2, <2>2, <2>3, <2>4 DEF Untouched, UntouchedRows, HasProfile
  <2> QED
    BY <2>5
<1> QED
  BY <1>1, <1>3, <1>4, <1>5, <1>6, <1>7, DriverKeeps DEF RowsHold, callVars

LEMMA CreateVehicleStep ==
  ASSUME OnboardingInv, NEW d \in Emails, NEW plate \in Plates, CreateVehicle(d, plate)
  PROVE  OnboardingInv'
<1> PICK v : v = Len(vehicles) + 1
  OBVIOUS
<1> PICK row : row = [driver |-> d, plate |-> plate, status |-> "PENDING", selected |-> FALSE]
  OBVIOUS
<1>1. /\ HasProfile(d) /\ vehicles' = Append(vehicles, row)
      /\ UNCHANGED <<call, receipt, account, profile, decisions>>
  BY DEF CreateVehicle, callVars
<1>2. row \in Vehicles /\ row.driver = d /\ row.status = "PENDING" /\ row.selected = FALSE
  BY DEF Vehicles
<1>3. /\ vehicles' \in Seq(Vehicles) /\ DOMAIN vehicles' = DOMAIN vehicles \cup {v}
      /\ v \notin DOMAIN vehicles /\ vehicles'[v] = row
      /\ \A x \in DOMAIN vehicles : vehicles'[x] = vehicles[x]
      /\ v # 0
  <2> PICK old : old = vehicles
    OBVIOUS
  <2> PICK new : new = vehicles'
    OBVIOUS
  <2>1. old \in Seq(Vehicles) /\ new = Append(old, row)
    BY <1>1 DEF OnboardingInv, TablesTyped
  <2> QED
    BY <1>2, <2>1, AppendFacts
<1>4. TablesTyped'
  BY <1>1, <1>2, <1>3 DEF OnboardingInv, TablesTyped, HasProfile
<1>5. \A n \in DOMAIN decisions : decisions[n].vehicle # v
  BY <1>3 DEF OnboardingInv, AuditHolds
<1>6. DecidedOnce'
  <2>1. \A e \in Emails : DriverDecided(e)'
    BY <1>1 DEF OnboardingInv, DecidedOnce, DriverDecided, About
  <2>2. VehicleDecided(v)'
    BY <1>1, <1>2, <1>3, <1>5 DEF VehicleDecided, About
  <2>3. ASSUME NEW x \in DOMAIN vehicles PROVE VehicleDecided(x)'
    <3>1. VehicleDecided(x) /\ vehicles'[x] = vehicles[x] /\ decisions' = decisions
      BY <1>1, <1>3 DEF OnboardingInv, DecidedOnce
    <3> QED
      BY <3>1 DEF VehicleDecided, About
  <2> QED
    BY <1>3, <2>1, <2>2, <2>3 DEF DecidedOnce
<1>7. AccountsHold' /\ ReviewsHold'
  BY <1>1 DEF OnboardingInv, AccountsHold, Registration, Told, ReviewsHold, Review
<1>8. AuditHolds'
  BY <1>1, <1>3 DEF OnboardingInv, AuditHolds, About
<1>9. SelectionHolds'
  <2>1. \A x \in DOMAIN vehicles' : vehicles'[x].selected = TRUE =>
          x \in DOMAIN vehicles /\ vehicles'[x] = vehicles[x]
    BY <1>2, <1>3
  <2>2. \A n \in DOMAIN decisions : decisions[n].vehicle # 0 =>
          vehicles'[decisions[n].vehicle] = vehicles[decisions[n].vehicle]
    BY <1>3 DEF OnboardingInv, AuditHolds
  <2>3. SelectionHolds /\ decisions' = decisions
    BY <1>1 DEF OnboardingInv
  <2>4. \A x \in DOMAIN vehicles' :
          vehicles'[x].selected = TRUE => vehicles'[x].status = "APPROVED"
    BY <2>1, <2>3 DEF SelectionHolds
  <2>5. \A x, y \in DOMAIN vehicles' :
          (vehicles'[x].selected = TRUE /\ vehicles'[y].selected = TRUE
             /\ vehicles'[x].driver = vehicles'[y].driver) => x = y
    BY <2>1, <2>3 DEF SelectionHolds
  <2>6. ASSUME NEW x \in DOMAIN vehicles', NEW n \in DOMAIN decisions, NEW m \in DOMAIN decisions,
               vehicles'[x].selected = TRUE, About(n, vehicles'[x].driver, x), n < m,
               decisions[m].driver = vehicles'[x].driver, decisions[m].vehicle # 0
        PROVE  decisions[m].result = "REJECTED"
                 \/ vehicles'[decisions[m].vehicle].status = "RETIRED"
    BY <2>1, <2>2, <2>3, <2>6 DEF SelectionHolds
  <2> QED
    BY <2>3, <2>4, <2>5, <2>6 DEF SelectionHolds, About
<1>10. ASSUME NEW x \in Calls, Open(x) PROVE Untouched(call[x])
  <2> PICK c : c = call[x]
    OBVIOUS
  <2>1. c.op \in VehicleReviews => VehicleReviewHolds(c)
    BY <1>10, ReviewsLock DEF OnboardingInv
  <2>2. Untouched(c)
    BY <1>1, <1>3, <2>1 DEF Untouched, UntouchedRows, HasProfile, VehicleReviewHolds
  <2> QED
    BY <2>2
<1> QED
  BY <1>1, <1>4, <1>6, <1>7, <1>8, <1>9, <1>10, DriverKeeps DEF RowsHold, callVars

LEMMA RetireVehicleStep ==
  ASSUME OnboardingInv, NEW v \in DOMAIN vehicles, RetireVehicle(v)
  PROVE  OnboardingInv'
<1>1. /\ Free({VehicleRow(v)})
      /\ vehicles' = [vehicles EXCEPT ![v].status = "RETIRED", ![v].selected = FALSE]
      /\ UNCHANGED <<call, receipt, account, profile, decisions>>
  BY DEF RetireVehicle, callVars
<1>2. /\ \A x \in DOMAIN vehicles : vehicles[x] \in Vehicles
      /\ DOMAIN vehicles = 1..Len(vehicles) /\ Len(vehicles) \in Nat
  BY RowTypes, LenProperties DEF OnboardingInv, TablesTyped
<1>3. /\ DOMAIN vehicles' = DOMAIN vehicles
      /\ \A x \in DOMAIN vehicles : x # v => vehicles'[x] = vehicles[x]
      /\ vehicles'[v] = [vehicles[v] EXCEPT !.status = "RETIRED", !.selected = FALSE]
  BY <1>1
<1>4. /\ vehicles'[v] \in Vehicles /\ vehicles'[v].driver = vehicles[v].driver
      /\ vehicles'[v].status = "RETIRED" /\ vehicles'[v].selected = FALSE
  BY <1>2, <1>3 DEF Vehicles
<1>5. vehicles' \in Seq(Vehicles)
  <2>1. vehicles' = [x \in 1..Len(vehicles) |-> vehicles'[x]]
    BY <1>1, <1>2
  <2>2. \A x \in 1..Len(vehicles) : vehicles'[x] \in Vehicles
    BY <1>2, <1>3, <1>4
  <2>3. vehicles' \in [1..Len(vehicles) -> Vehicles]
    BY <2>1, <2>2
  <2> QED
    BY <1>2, <2>3, SeqDef
<1>6. \A x \in DOMAIN vehicles : vehicles'[x].driver = vehicles[x].driver
  BY <1>3, <1>4
<1>7. TablesTyped'
  BY <1>1, <1>3, <1>5, <1>6 DEF OnboardingInv, TablesTyped, HasProfile
<1>8. DecidedOnce'
  <2>1. \A e \in Emails : DriverDecided(e)'
    BY <1>1 DEF OnboardingInv, DecidedOnce, DriverDecided, About
  <2>2. ASSUME NEW x \in DOMAIN vehicles PROVE VehicleDecided(x)'
    <3>1. /\ VehicleDecided(x) /\ decisions' = decisions
          /\ vehicles'[x].driver = vehicles[x].driver
          /\ vehicles'[x].status \in {vehicles[x].status, "RETIRED"}
      BY <1>1, <1>3, <1>4 DEF OnboardingInv, DecidedOnce
    <3> QED
      BY <3>1 DEF VehicleDecided, About
  <2> QED
    BY <1>3, <2>1, <2>2 DEF DecidedOnce
<1>9. AccountsHold' /\ ReviewsHold'
  BY <1>1 DEF OnboardingInv, AccountsHold, Registration, Told, ReviewsHold, Review
<1>10. AuditHolds'
  BY <1>1, <1>3, <1>6 DEF OnboardingInv, AuditHolds, About
<1>11. SelectionHolds'
  <2>1. \A x \in DOMAIN vehicles' : vehicles'[x].selected = TRUE =>
          x \in DOMAIN vehicles /\ vehicles'[x] = vehicles[x]
    BY <1>3, <1>4
  <2>2. \A x \in DOMAIN vehicles : vehicles[x].status = "RETIRED" =>
          vehicles'[x].status = "RETIRED"
    BY <1>3, <1>4
  <2>3. \A n \in DOMAIN decisions : decisions[n].vehicle # 0 =>
          decisions[n].vehicle \in DOMAIN vehicles
    BY DEF OnboardingInv, AuditHolds
  <2> QED
    BY <1>1, <2>1, <2>2, <2>3 DEF OnboardingInv, SelectionHolds, About
<1>12. ASSUME NEW x \in Calls, Open(x) PROVE Untouched(call[x])
  <2> PICK c : c = call[x]
    OBVIOUS
  <2>1. c.op \in VehicleReviews => VehicleReviewHolds(c) /\ VehicleRow(c.body.vehicle) \in c.locks
    BY <1>12, ReviewsLock DEF OnboardingInv
  <2>2. c.op \in VehicleReviews => c.body.vehicle # v
    BY <1>1, <1>12, <2>1 DEF Free
  <2>3. Untouched(c)
    BY <1>1, <1>3, <2>1, <2>2 DEF Untouched, UntouchedRows, HasProfile, VehicleReviewHolds
  <2> QED
    BY <2>3
<1> QED
  BY <1>1, <1>7, <1>8, <1>9, <1>10, <1>11, <1>12, DriverKeeps DEF RowsHold, callVars

-------------------------------------------------------------------------------
(* Transactions that commit *)

\* Two open transactions are of different commands: they would share a lock.
LEMMA CommandsApart ==
  ASSUME OpenHold, LocksApart, NEW r \in Calls, NEW x \in Calls, r # x, Open(r), Open(x)
  PROVE  CommandOf(call[x]) # CommandOf(call[r])
<1> PICK c : c = call[r]
  OBVIOUS
<1> PICK d : d = call[x]
  OBVIOUS
<1> SUFFICES ASSUME CommandOf(c) = CommandOf(d) PROVE FALSE
  OBVIOUS
<1>1. c.op = d.op /\ c.who = d.who /\ c.key = d.key /\ c.locks \cap d.locks = {}
  BY DEF CommandOf, LocksApart
<1>2. StillTrue(c) /\ StillTrue(d)
  BY DEF OpenHold
<1>3. CASE c.op = "REGISTER"
  <2>1. RegistrationHolds(c) /\ RegistrationHolds(d)
    BY <1>1, <1>3, ReviewsLock
  <2> QED
    BY <1>1, <2>1 DEF RegistrationHolds, EmailLocks
<1>4. CASE c.op # "REGISTER"
  <2>1. DriverReviewHolds(c) \/ VehicleReviewHolds(c)
    BY <1>2, <1>4 DEF StillTrue, RegistrationHolds
  <2>2. DriverReviewHolds(d) \/ VehicleReviewHolds(d)
    BY <1>1, <1>2, <1>4 DEF StillTrue, RegistrationHolds
  <2>3. <<c.op, c.who, c.key>> \in c.locks /\ <<d.op, d.who, d.key>> \in d.locks
    BY <2>1, <2>2 DEF DriverReviewHolds, VehicleReviewHolds, DriverLocks, VehicleLocks
  <2> QED
    BY <1>1, <2>3
<1> QED
  BY <1>3, <1>4

LEMMA CommitCalls ==
  ASSUME OnboardingInv, NEW r \in Calls, Open(r), NEW id \in Nat \ {0}, Committed(r, id),
         \A x \in Calls : (x # r /\ Open(x)) => UntouchedRows(call[x])
  PROVE  CallsHold' /\ LocksApart' /\ OpenHold'
<1> PICK c : c = call[r]
  OBVIOUS
<1> PICK m : m = CommandOf(c)
  OBVIOUS
<1>1. c \in Requests /\ StillTrue(c) /\ m \in Commands /\ receipt[m] = NoReceipt
  <2>1. c \in Requests /\ StillTrue(c)
    BY IdleIsNoRequest DEF OnboardingInv, CallsHold, OpenHold, Open
  <2> QED
    BY <2>1, CommandFacts DEF StillTrue, Told
<1>2. /\ receipt' = [receipt EXCEPT ![m] = [body |-> c.body, id |-> id]]
      /\ call' = Answered(r, id)
  BY DEF Committed
<1>3. /\ receipt'[m] = [body |-> c.body, id |-> id]
      /\ \A n \in Commands : n # m => receipt'[n] = receipt[n]
  BY <1>1, <1>2 DEF OnboardingInv, TablesTyped
<1>4. /\ call' = [x \in Calls |-> call'[x]]
      /\ \A x \in Calls : x # r => call'[x] = call[x]
      /\ Ends(call'[r], c, id)
  BY <1>1, <1>2, AnswersOne DEF OnboardingInv
<1>5. IsOver(r)
  BY <1>3, <1>4 DEF Ends, IsOver, CommandOf
<1>6. ASSUME NEW x \in Calls, x # r PROVE IsOver(x) \/ GoesOn(x)
  <2> PICK d : d = call[x]
    OBVIOUS
  <2>1. call'[x] = d
    BY <1>4, <1>6
  <2>2. CASE d = Idle
    BY <2>1, <2>2 DEF IsOver
  <2>3. CASE d \in Requests /\ d.at = "done"
    <3>1. receipt[CommandOf(d)] = [body |-> d.body, id |-> d.answer] /\ CommandOf(d) \in Commands
      BY <2>3, CommandFacts DEF OnboardingInv, CallsHold
    <3>2. "body" \in DOMAIN receipt[CommandOf(d)] /\ DOMAIN receipt[m] = {"id"}
      BY <1>1, <3>1 DEF NoReceipt
    <3>3. CommandOf(d) # m
      BY <3>2
    <3> QED
      BY <1>3, <2>1, <2>3, <3>1, <3>3 DEF IsOver
  <2>4. CASE d \in Requests /\ d.at # "done"
    BY <2>1, <2>4 DEF GoesOn, Open, Becomes, Requests
  <2> QED
    BY <2>2, <2>3, <2>4 DEF OnboardingInv, CallsHold
<1>7. ASSUME NEW x \in Calls, GoesOn(x) PROVE Untouched(call[x])
  <2>1. x # r /\ Open(x)
    BY <1>5, <1>7, IdleIsNoRequest DEF IsOver, GoesOn
  <2>2. CommandOf(call[x]) # m
    BY <2>1, CommandsApart DEF OnboardingInv
  <2>3. call[x] \in Requests
    BY <2>1, IdleIsNoRequest DEF OnboardingInv, CallsHold, Open
  <2>4. CommandOf(call[x]) \in Commands
    BY <2>3, CommandFacts
  <2> QED
    BY <1>3, <2>1, <2>2, <2>4 DEF Untouched
<1>8. CallsHold' /\ LocksApart'
  BY <1>4, <1>5, <1>6, CallsKeep DEF OnboardingInv
<1>9. OpenHold'
  BY <1>5, <1>6, <1>7, OpenKeep DEF OnboardingInv
<1> QED
  BY <1>8, <1>9

\* What a commit does to the receipts.
LEMMA CommitReceipts ==
  ASSUME OnboardingInv, NEW r \in Calls, Open(r), NEW id \in Nat \ {0}, Committed(r, id),
         NEW c, c = call[r], NEW m, m = CommandOf(c)
  PROVE  /\ c \in Requests /\ StillTrue(c) /\ m \in Commands /\ ~Told(m)
         /\ m[1] = c.op /\ m[2] = c.who
         /\ receipt' \in [Commands -> Receipts]
         /\ Told(m)' /\ receipt'[m].id = id /\ receipt'[m].body = c.body
         /\ \A n \in Commands : n # m => receipt'[n] = receipt[n]
<1>1. c \in Requests /\ StillTrue(c)
  BY IdleIsNoRequest DEF OnboardingInv, CallsHold, OpenHold, Open
<1>2. m \in Commands /\ m[1] = c.op /\ m[2] = c.who /\ ~Told(m)
  BY <1>1, CommandFacts DEF StillTrue
<1> PICK new : new = [body |-> c.body, id |-> id]
  OBVIOUS
<1>3. new \in Receipts /\ new.id = id /\ new.body = c.body
  BY <1>1 DEF Receipts, Requests
<1>4. new # NoReceipt
  <2>1. DOMAIN new = {"body", "id"} /\ DOMAIN NoReceipt = {"id"}
    BY DEF NoReceipt
  <2> QED
    BY <2>1
<1>5. receipt' = [receipt EXCEPT ![m] = new]
  BY DEF Committed
<1>6. receipt'[m] = new /\ \A n \in Commands : n # m => receipt'[n] = receipt[n]
  BY <1>2, <1>5 DEF OnboardingInv, TablesTyped
<1>7. receipt' \in [Commands -> Receipts]
  BY <1>3, <1>5 DEF OnboardingInv, TablesTyped
<1> QED
  BY <1>1, <1>2, <1>3, <1>4, <1>6, <1>7 DEF Told

LEMMA CommitRegisterStep ==
  ASSUME OnboardingInv, NEW r \in Calls, CommitRegister(r)
  PROVE  OnboardingInv'
<1> PICK c : c = call[r]
  OBVIOUS
<1> PICK m : m = CommandOf(c)
  OBVIOUS
<1>1. /\ Open(r) /\ c.op = "REGISTER" /\ Committed(r, 1)
      /\ account' = [account EXCEPT ![c.who] = c.body]
      /\ UNCHANGED <<profile, vehicles, decisions>>
  BY DEF CommitRegister, Running, driverVars
<1>2. /\ c \in Requests /\ m \in Commands /\ ~Told(m) /\ m[1] = "REGISTER" /\ m[2] = c.who
      /\ receipt' \in [Commands -> Receipts] /\ Told(m)' /\ receipt'[m].body = c.body
      /\ \A n \in Commands : n # m => receipt'[n] = receipt[n]
  BY <1>1, CommitReceipts
<1>3. /\ RegistrationHolds(c)
      /\ c.who \in Emails /\ c.body \in Roles /\ account[c.who] = "NONE"
      /\ c.locks = EmailLocks(c.who)
  BY <1>1, ReviewsLock DEF OnboardingInv, RegistrationHolds
<1>4. /\ account' \in [Emails -> {"NONE"} \cup Roles] /\ account'[c.who] = c.body
      /\ \A e \in Emails : e # c.who => account'[e] = account[e]
      /\ c.body # "NONE"
  BY <1>1, <1>3 DEF OnboardingInv, TablesTyped, Roles
<1>5. \A e \in Emails : HasProfile(e) => HasProfile(e)' /\ e # c.who
  BY <1>3, <1>4 DEF HasProfile
<1>6. TablesTyped'
  <2>1. \A e \in Emails : ~HasProfile(e)' =>
          profile[e] = [status |-> "PENDING", phone |-> FALSE]
    BY <1>5 DEF OnboardingInv, TablesTyped
  <2>2. \A v \in DOMAIN vehicles : vehicles[v].driver \in Emails /\ HasProfile(vehicles[v].driver)
    BY RowTypes DEF OnboardingInv, TablesTyped, Vehicles
  <2> QED
    BY <1>1, <1>2, <1>4, <1>5, <2>1, <2>2 DEF OnboardingInv, TablesTyped
<1>7. AccountsHold'
  <2>1. \A n \in Commands : n # m => (Told(n)' <=> Told(n))
    BY <1>2 DEF Told
  <2>2. \A n : Registration(n)' <=> Registration(n) \/ n = m
    BY <1>2, <2>1 DEF Registration
  <2>3. \A n : Registration(n) => n # m /\ n[2] \in Emails /\ n[2] # c.who
                                  /\ receipt'[n] = receipt[n] /\ account'[n[2]] = account[n[2]]
    BY <1>2, <1>3, <1>4 DEF OnboardingInv, AccountsHold, Registration
  <2>4. \A n : Registration(n)' =>
          n[2] \in Emails /\ receipt'[n].body = account'[n[2]] /\ account'[n[2]] # "NONE"
    BY <1>2, <1>3, <1>4, <2>2, <2>3 DEF OnboardingInv, AccountsHold
  <2>5. \A n, o : (Registration(n)' /\ Registration(o)' /\ n[2] = o[2]) => n = o
    BY <1>2, <2>2, <2>3 DEF OnboardingInv, AccountsHold
  <2>6. \A e \in Emails : account'[e] # "NONE" => \E n : Registration(n)' /\ n[2] = e
    BY <1>2, <1>4, <2>2 DEF OnboardingInv, AccountsHold
  <2> QED
    BY <2>4, <2>5, <2>6 DEF AccountsHold
<1>8. ReviewsHold'
  <2>1. \A n : Review(n)' <=> Review(n)
    BY <1>2 DEF Review, Told
  <2>2. \A n : Review(n) => receipt'[n] = receipt[n]
    BY <1>2 DEF Review
  <2> QED
    BY <1>1, <2>1, <2>2 DEF OnboardingInv, ReviewsHold
<1>9. DecidedOnce' /\ AuditHolds' /\ SelectionHolds'
  <2>1. profile' = profile /\ vehicles' = vehicles /\ decisions' = decisions
    BY <1>1
  <2>2. DecidedOnce'
    BY <2>1 DEF OnboardingInv, DecidedOnce, DriverDecided, VehicleDecided, About
  <2>3. AuditHolds' /\ SelectionHolds'
    BY <2>1 DEF OnboardingInv, AuditHolds, SelectionHolds, About
  <2> QED
    BY <2>2, <2>3
<1>10. ASSUME NEW x \in Calls, x # r, Open(x) PROVE UntouchedRows(call[x])
  <2> PICK d : d = call[x]
    OBVIOUS
  <2>1. /\ d.op = "REGISTER" => RegistrationHolds(d)
        /\ d.op # "REGISTER" => HasProfile(d.body.driver)
        /\ d.op \in VehicleReviews => VehicleReviewHolds(d)
        /\ d.locks \cap c.locks = {} /\ StillTrue(d)
    BY <1>1, <1>10, ReviewsLock DEF OnboardingInv, LocksApart
  <2>2. d.op = "REGISTER" => d.who # c.who /\ d.who \in Emails
    BY <1>3, <2>1 DEF RegistrationHolds, EmailLocks
  <2>3. d.op # "REGISTER" => d.body.driver \in Emails
    BY <2>1 DEF StillTrue, RegistrationHolds, DriverReviewHolds, VehicleReviewHolds, Subjects
  <2>4. d.op # "REGISTER" => HasProfile(d.body.driver)' /\ HasProfile(d.body.driver)
    BY <1>5, <2>1, <2>3
  <2>5. d.op \in VehicleReviews => d.body.vehicle \in DOMAIN vehicles
    BY <2>1 DEF VehicleReviewHolds
  <2>6. d.op = "REGISTER" => account'[d.who] = account[d.who]
    BY <1>4, <2>2
  <2>7. profile' = profile /\ vehicles' = vehicles
    BY <1>1
  <2>8. UntouchedRows(d)
    BY <2>4, <2>5, <2>6, <2>7 DEF UntouchedRows
  <2> QED
    BY <2>8
<1>11. CallsHold' /\ LocksApart' /\ OpenHold'
  BY <1>1, <1>10, CommitCalls
<1> QED
  BY <1>6, <1>7, <1>8, <1>9, <1>11 DEF OnboardingInv

\* The audit row of a review and the receipt that names it.
DecidesRow(r, op, c, n) ==
  /\ decisions' \in Seq(AuditRows) /\ DOMAIN decisions' = DOMAIN decisions \cup {n}
  /\ n \notin DOMAIN decisions /\ n \in Nat
  /\ decisions'[n].driver = c.body.driver /\ decisions'[n].vehicle = c.body.vehicle
  /\ decisions'[n].result = Verdict(op)
  /\ \A x \in DOMAIN decisions : decisions'[x] = decisions[x] /\ x < n /\ x \in Nat
  /\ receipt' \in [Commands -> Receipts]
  /\ ReviewsHold' /\ (account' = account => AccountsHold')
  /\ Open(r) /\ c.op = op /\ StillTrue(c) /\ Committed(r, n)

LEMMA DecidedRows ==
  ASSUME OnboardingInv, NEW r \in Calls, NEW op, op \in DriverReviews \cup VehicleReviews,
         Running(r, op), Decided(r, op)
  PROVE  DecidesRow(r, op, call[r], Len(decisions) + 1)
<1> PICK c : c = call[r]
  OBVIOUS
<1> PICK n : n = Len(decisions) + 1
  OBVIOUS
<1> PICK m : m = CommandOf(c)
  OBVIOUS
<1> PICK row : row = [driver |-> c.body.driver, vehicle |-> c.body.vehicle,
                      result |-> Verdict(op)]
  OBVIOUS
<1>1. /\ Open(r) /\ c.op = op /\ Committed(r, n) /\ decisions' = Append(decisions, row)
      /\ op # "REGISTER"
  BY DEF Running, Decided, DriverReviews, VehicleReviews
<1>2. StillTrue(c) /\ c.body \in Subjects
  BY <1>1, ReviewsLock DEF OnboardingInv, StillTrue, RegistrationHolds, DriverReviewHolds,
     VehicleReviewHolds
<1>3. row \in AuditRows
  BY <1>2 DEF AuditRows, Subjects, Verdict
<1>4. /\ decisions' \in Seq(AuditRows) /\ Len(decisions) \in Nat
      /\ DOMAIN decisions' = DOMAIN decisions \cup {n} /\ n \notin DOMAIN decisions
      /\ decisions'[n] = row
      /\ \A x \in DOMAIN decisions : decisions'[x] = decisions[x] /\ x < n /\ x \in Nat
  <2> PICK old : old = decisions
    OBVIOUS
  <2> PICK new : new = decisions'
    OBVIOUS
  <2>1. old \in Seq(AuditRows) /\ new = Append(old, row)
    BY <1>1 DEF OnboardingInv, TablesTyped
  <2> QED
    BY <1>3, <2>1, AppendFacts
<1>5. n \in Nat \ {0}
  BY <1>4
<1>6. /\ m \in Commands /\ ~Told(m) /\ m[1] = op
      /\ receipt' \in [Commands -> Receipts] /\ Told(m)' /\ receipt'[m].id = n
      /\ \A x \in Commands : x # m => receipt'[x] = receipt[x]
  BY <1>1, <1>5, CommitReceipts
<1>7. ReviewsHold'
  <2>1. \A x : Review(x)' <=> Review(x) \/ x = m
    BY <1>1, <1>6 DEF Review, Told
  <2>2. \A x : Review(x) => /\ x # m /\ receipt'[x] = receipt[x]
                            /\ receipt[x].id \in DOMAIN decisions
                            /\ decisions[receipt[x].id].result = Verdict(x[1])
    BY <1>6 DEF Review, OnboardingInv, ReviewsHold
  <2>3. \A x : Review(x)' => /\ receipt'[x].id \in DOMAIN decisions'
                             /\ decisions'[receipt'[x].id].result = Verdict(x[1])
    BY <1>4, <1>6, <2>1, <2>2
  <2>4. \A x, y : (Review(x)' /\ Review(y)' /\ receipt'[x].id = receipt'[y].id) => x = y
    BY <1>4, <1>6, <2>1, <2>2 DEF OnboardingInv, ReviewsHold
  <2>5. \A x \in DOMAIN decisions' : \E y : Review(y)' /\ receipt'[y].id = x
    BY <1>4, <1>6, <2>1, <2>2 DEF OnboardingInv, ReviewsHold
  <2> QED
    BY <2>3, <2>4, <2>5 DEF ReviewsHold
<1>8. ASSUME account' = account PROVE AccountsHold'
  <2>1. \A x : Registration(x)' <=> Registration(x)
    BY <1>1, <1>6 DEF Registration, Told
  <2>2. \A x : Registration(x) => receipt'[x] = receipt[x]
    BY <1>1, <1>6 DEF Registration
  <2> QED
    BY <1>8, <2>1, <2>2 DEF OnboardingInv, AccountsHold
<1> QED
  BY <1>1, <1>2, <1>3, <1>4, <1>6, <1>7, <1>8 DEF DecidesRow

LEMMA CommitDriverReviewStep ==
  ASSUME OnboardingInv, NEW r \in Calls, NEW op \in DriverReviews, CommitDriverReview(r, op)
  PROVE  OnboardingInv'
<1> PICK c : c = call[r]
  OBVIOUS
<1> PICK n : n = Len(decisions) + 1
  OBVIOUS
<1> PICK d : d = c.body.driver
  OBVIOUS
<1>1. /\ Running(r, op) /\ Decided(r, op)
      /\ profile' = [profile EXCEPT ![d].status = Verdict(op)]
      /\ account' = account /\ vehicles' = vehicles
  BY DEF CommitDriverReview
<1>2. /\ decisions' \in Seq(AuditRows) /\ DOMAIN decisions' = DOMAIN decisions \cup {n}
      /\ n \notin DOMAIN decisions /\ n \in Nat
      /\ decisions'[n].driver = d /\ decisions'[n].vehicle = c.body.vehicle
      /\ decisions'[n].result = Verdict(op)
      /\ \A x \in DOMAIN decisions : decisions'[x] = decisions[x] /\ x < n /\ x \in Nat
      /\ receipt' \in [Commands -> Receipts]
      /\ ReviewsHold' /\ AccountsHold'
      /\ Open(r) /\ c.op = op /\ StillTrue(c) /\ Committed(r, n)
  <2>1. DecidesRow(r, op, c, n)
    BY <1>1, DecidedRows
  <2> QED
    BY <1>1, <2>1 DEF DecidesRow
<1>3. DriverReviewHolds(c)
  BY <1>2, ReviewsLock DEF OnboardingInv
<1>4. /\ d \in Emails /\ c.body.vehicle = 0 /\ HasProfile(d)
      /\ profile[d].status = "PENDING" /\ ProfileRow(d) \in c.locks
  BY <1>3 DEF DriverReviewHolds, Subjects, DriverLocks
<1>5. Verdict(op) \in {"APPROVED", "REJECTED"}
  BY DEF Verdict
<1>6. /\ profile' \in [Emails -> Profiles] /\ profile'[d].status = Verdict(op)
      /\ \A e \in Emails : e # d => profile'[e] = profile[e]
  BY <1>1, <1>4, <1>5 DEF OnboardingInv, TablesTyped, Profiles
<1>7. TablesTyped'
  BY <1>1, <1>2, <1>4, <1>6 DEF OnboardingInv, TablesTyped, HasProfile
<1>8. \A x \in DOMAIN decisions' : \A e, v :
        About(x, e, v)' <=> (x # n /\ About(x, e, v)) \/ (x = n /\ e = d /\ v = 0)
  BY <1>2, <1>4 DEF About
<1>9. \A x \in DOMAIN decisions : ~About(x, d, 0)
  <2>1. \A x \in DOMAIN decisions : decisions[x].result # "PENDING"
    BY RowTypes DEF OnboardingInv, AuditRows
  <2>2. DriverDecided(d)
    BY <1>4 DEF OnboardingInv, DecidedOnce
  <2> QED
    BY <1>4, <2>1, <2>2 DEF DriverDecided
<1>10. DecidedOnce'
  <2>1. ASSUME NEW e \in Emails PROVE DriverDecided(e)'
    <3>1. CASE e = d
      BY <1>2, <1>6, <1>8, <1>9, <3>1 DEF DriverDecided
    <3>2. CASE e # d
      <4>1. DriverDecided(e)
        BY <2>1 DEF OnboardingInv, DecidedOnce
      <4>2. \A x \in DOMAIN decisions' : About(x, e, 0)' <=> x \in DOMAIN decisions /\ About(x, e, 0)
        BY <1>2, <1>8, <3>2
      <4>3. profile'[e] = profile[e] /\ \A x \in DOMAIN decisions : decisions'[x] = decisions[x]
        BY <1>2, <1>6, <2>1, <3>2
      <4> QED
        BY <1>2, <4>1, <4>2, <4>3 DEF DriverDecided
    <3> QED
      BY <3>1, <3>2
  <2>2. ASSUME NEW v \in DOMAIN vehicles PROVE VehicleDecided(v)'
    <3>1. v # 0 /\ VehicleDecided(v)
      BY RowTypes DEF OnboardingInv, DecidedOnce
    <3> PICK e : e = vehicles[v].driver
      OBVIOUS
    <3>2. \A x \in DOMAIN decisions' : About(x, e, v)' <=> x \in DOMAIN decisions /\ About(x, e, v)
      BY <1>2, <1>8, <3>1
    <3>3. \A x \in DOMAIN decisions : decisions'[x] = decisions[x]
      BY <1>2
    <3> QED
      BY <1>1, <1>2, <3>1, <3>2, <3>3 DEF VehicleDecided
  <2> QED
    BY <1>1, <2>1, <2>2 DEF DecidedOnce
<1>11. AuditHolds'
  <2> SUFFICES ASSUME NEW x \in DOMAIN decisions', decisions'[x].vehicle # 0
      PROVE /\ decisions'[x].vehicle \in DOMAIN vehicles'
            /\ vehicles'[decisions'[x].vehicle].driver = decisions'[x].driver
            /\ decisions'[x].result = "APPROVED" =>
                 \E m \in DOMAIN decisions' :
                   /\ m < x /\ decisions'[m].driver = decisions'[x].driver
                   /\ decisions'[m].vehicle = 0 /\ decisions'[m].result = "APPROVED"
    BY DEF AuditHolds, About
  <2>1. x \in DOMAIN decisions /\ decisions'[x] = decisions[x]
    BY <1>2, <1>4
  <2>2. /\ decisions[x].vehicle \in DOMAIN vehicles
        /\ vehicles[decisions[x].vehicle].driver = decisions[x].driver
        /\ decisions[x].result = "APPROVED" =>
             \E m \in DOMAIN decisions :
               /\ m < x /\ decisions[m].driver = decisions[x].driver
               /\ decisions[m].vehicle = 0 /\ decisions[m].result = "APPROVED"
    BY <2>1 DEF OnboardingInv, AuditHolds, About
  <2> QED
    BY <1>1, <1>2, <2>1, <2>2
<1>12. SelectionHolds'
  <2>1. ASSUME NEW v \in DOMAIN vehicles, NEW x \in DOMAIN decisions', NEW y \in DOMAIN decisions',
               NEW e, e = vehicles[v].driver,
               vehicles[v].selected = TRUE, About(x, e, v)', x < y,
               decisions'[y].driver = e, decisions'[y].vehicle # 0
        PROVE  decisions'[y].result = "REJECTED"
                 \/ vehicles[decisions'[y].vehicle].status = "RETIRED"
    <3>1. y # n /\ v # 0
      BY <1>2, <1>4, <2>1, RowTypes DEF OnboardingInv
    <3>2. x # n
      BY <1>8, <2>1, <3>1
    <3>3. /\ x \in DOMAIN decisions /\ y \in DOMAIN decisions
          /\ decisions'[y] = decisions[y] /\ About(x, e, v)
      BY <1>2, <1>8, <2>1, <3>1, <3>2
    <3> QED
      BY <2>1, <3>3 DEF OnboardingInv, SelectionHolds
  <2>2. SelectionHolds /\ vehicles' = vehicles
    BY <1>1 DEF OnboardingInv
  <2>3. ASSUME NEW v \in DOMAIN vehicles', NEW x \in DOMAIN decisions', NEW y \in DOMAIN decisions',
               vehicles'[v].selected = TRUE,
               decisions'[x].driver = vehicles'[v].driver, decisions'[x].vehicle = v, x < y,
               decisions'[y].driver = vehicles'[v].driver, decisions'[y].vehicle # 0
        PROVE  decisions'[y].result = "REJECTED"
                 \/ vehicles'[decisions'[y].vehicle].status = "RETIRED"
    BY <2>1, <2>2, <2>3 DEF About
  <2>4. /\ \A v \in DOMAIN vehicles' :
             vehicles'[v].selected = TRUE => vehicles'[v].status = "APPROVED"
        /\ \A v, w \in DOMAIN vehicles' :
             (vehicles'[v].selected = TRUE /\ vehicles'[w].selected = TRUE
                /\ vehicles'[v].driver = vehicles'[w].driver) => v = w
    BY <2>2 DEF SelectionHolds
  <2> QED
    BY <2>3, <2>4 DEF SelectionHolds, About
<1>13. ASSUME NEW x \in Calls, x # r, Open(x) PROVE UntouchedRows(call[x])
  <2> PICK b : b = call[x]
    OBVIOUS
  <2>1. /\ b.op # "REGISTER" => HasProfile(b.body.driver) /\ ProfileRow(b.body.driver) \in b.locks
        /\ b.op \in VehicleReviews => VehicleReviewHolds(b)
        /\ b.locks \cap c.locks = {} /\ StillTrue(b)
    BY <1>2, <1>13, ReviewsLock DEF OnboardingInv, LocksApart
  <2>2. b.op # "REGISTER" => b.body.driver \in Emails /\ b.body.driver # d
    BY <1>4, <2>1 DEF StillTrue, RegistrationHolds, DriverReviewHolds, VehicleReviewHolds, Subjects
  <2>3. b.op \in VehicleReviews => b.body.vehicle \in DOMAIN vehicles
    BY <2>1 DEF VehicleReviewHolds
  <2>4. UntouchedRows(b)
    BY <1>1, <1>6, <2>2, <2>3 DEF UntouchedRows, HasProfile
  <2> QED
    BY <2>4
<1>14. CallsHold' /\ LocksApart' /\ OpenHold'
  BY <1>2, <1>13, CommitCalls
<1> QED
  BY <1>2, <1>7, <1>10, <1>11, <1>12, <1>14 DEF OnboardingInv

\* A vehicle that is reviewed leaves the rows of other Drivers, and of its own
\* Driver it may deselect one.
RowsReviewed(d, v, result) ==
  /\ vehicles' \in Seq(Vehicles) /\ DOMAIN vehicles' = DOMAIN vehicles
  /\ vehicles'[v].driver = d /\ vehicles'[v].status = result
  /\ vehicles'[v].selected = TRUE => result = "APPROVED"
  /\ \A x \in DOMAIN vehicles : x # v =>
       /\ vehicles'[x].driver = vehicles[x].driver
       /\ vehicles'[x].status = vehicles[x].status
       /\ vehicles'[x].selected = TRUE =>
            /\ vehicles[x].selected = TRUE
            /\ vehicles[x].driver = d => result = "REJECTED"
  /\ \A x \in DOMAIN vehicles : vehicles[x].driver # d => vehicles'[x] = vehicles[x]

LEMMA ReviewedRows ==
  ASSUME TablesTyped, NEW d, NEW v, v \in DOMAIN vehicles, vehicles[v].driver = d,
         NEW result, result \in {"APPROVED", "REJECTED"}, vehicles' = Reviewed(d, v, result)
  PROVE  RowsReviewed(d, v, result)
<1>1. /\ DOMAIN vehicles' = DOMAIN vehicles /\ vehicles' = [x \in DOMAIN vehicles |-> vehicles'[x]]
      /\ \A x \in DOMAIN vehicles : vehicles'[x] =
           IF x = v THEN [vehicles[x] EXCEPT !.status = result, !.selected = (result = "APPROVED")]
           ELSE IF vehicles[x].driver = d /\ result = "APPROVED"
             THEN [vehicles[x] EXCEPT !.selected = FALSE] ELSE vehicles[x]
  BY DEF Reviewed
<1>2. \A x \in DOMAIN vehicles : vehicles[x] \in Vehicles
  BY RowTypes
<1>3. vehicles[v] \in Vehicles
  BY <1>2
<1>4. /\ vehicles'[v] \in Vehicles /\ vehicles'[v].driver = d /\ vehicles'[v].status = result
      /\ vehicles'[v].selected = TRUE => result = "APPROVED"
  <2>1. CASE result = "APPROVED"
    <3>1. vehicles'[v] = [vehicles[v] EXCEPT !.status = result, !.selected = TRUE]
      BY <1>1, <2>1
    <3> QED
      BY <1>3, <2>1, <3>1 DEF Vehicles
  <2>2. CASE result = "REJECTED"
    <3>1. vehicles'[v] = [vehicles[v] EXCEPT !.status = result, !.selected = FALSE]
      BY <1>1, <2>2
    <3> QED
      BY <1>3, <2>2, <3>1 DEF Vehicles
  <2> QED
    BY <2>1, <2>2
<1>5. ASSUME NEW x \in DOMAIN vehicles, x # v
      PROVE  /\ vehicles'[x] \in Vehicles
             /\ vehicles'[x].driver = vehicles[x].driver
             /\ vehicles'[x].status = vehicles[x].status
             /\ vehicles'[x].selected = TRUE =>
                  /\ vehicles[x].selected = TRUE
                  /\ vehicles[x].driver = d => result = "REJECTED"
  <2>1. vehicles[x] \in Vehicles
    BY <1>2
  <2>2. CASE vehicles[x].driver = d /\ result = "APPROVED"
    <3>1. vehicles'[x] = [vehicles[x] EXCEPT !.selected = FALSE]
      BY <1>1, <1>5, <2>2
    <3> QED
      BY <2>1, <3>1 DEF Vehicles
  <2>3. CASE ~(vehicles[x].driver = d /\ result = "APPROVED")
    <3>1. vehicles'[x] = vehicles[x]
      BY <1>1, <1>5, <2>3
    <3> QED
      BY <2>1, <2>3, <3>1
  <2> QED
    BY <2>2, <2>3
<1>6. vehicles' \in Seq(Vehicles)
  <2>1. DOMAIN vehicles = 1..Len(vehicles) /\ Len(vehicles) \in Nat
    BY LenProperties DEF TablesTyped
  <2>2. \A x \in DOMAIN vehicles : vehicles'[x] \in Vehicles
    BY <1>4, <1>5
  <2>3. vehicles' \in [1..Len(vehicles) -> Vehicles]
    BY <1>1, <2>1, <2>2
  <2> QED
    BY <2>1, <2>3, SeqDef
<1>7. \A x \in DOMAIN vehicles : vehicles[x].driver # d => vehicles'[x] = vehicles[x]
  BY <1>1
<1> QED
  BY <1>1, <1>4, <1>5, <1>6, <1>7 DEF RowsReviewed

LEMMA CommitVehicleReviewStep ==
  ASSUME OnboardingInv, NEW r \in Calls, NEW op \in VehicleReviews, CommitVehicleReview(r, op)
  PROVE  OnboardingInv'
<1> PICK c : c = call[r]
  OBVIOUS
<1> PICK n : n = Len(decisions) + 1
  OBVIOUS
<1> PICK d : d = c.body.driver
  OBVIOUS
<1> PICK v : v = c.body.vehicle
  OBVIOUS
<1> PICK result : result = Verdict(op)
  OBVIOUS
<1>1. /\ Running(r, op) /\ Decided(r, op) /\ vehicles' = Reviewed(d, v, result)
      /\ account' = account /\ profile' = profile
  BY DEF CommitVehicleReview
<1>2. /\ decisions' \in Seq(AuditRows) /\ DOMAIN decisions' = DOMAIN decisions \cup {n}
      /\ n \notin DOMAIN decisions /\ n \in Nat
      /\ decisions'[n].driver = d /\ decisions'[n].vehicle = v
      /\ decisions'[n].result = result
      /\ \A x \in DOMAIN decisions : decisions'[x] = decisions[x] /\ x < n /\ x \in Nat
      /\ receipt' \in [Commands -> Receipts]
      /\ ReviewsHold' /\ AccountsHold'
      /\ Open(r) /\ c.op = op /\ StillTrue(c) /\ Committed(r, n)
  <2>1. DecidesRow(r, op, c, n)
    BY <1>1, DecidedRows
  <2> QED
    BY <1>1, <2>1 DEF DecidesRow
<1>3. VehicleReviewHolds(c)
  BY <1>2, ReviewsLock DEF OnboardingInv
<1>4. /\ d \in Emails /\ HasProfile(d) /\ v \in DOMAIN vehicles /\ vehicles[v].driver = d
      /\ vehicles[v].status = "PENDING" /\ ProfileRow(d) \in c.locks
      /\ result = "APPROVED" => profile[d].status = "APPROVED"
  BY <1>2, <1>3 DEF VehicleReviewHolds, Subjects, VehicleLocks
<1>5. result \in {"APPROVED", "REJECTED"}
  BY DEF Verdict
<1>6. /\ vehicles' \in Seq(Vehicles) /\ DOMAIN vehicles' = DOMAIN vehicles
      /\ vehicles'[v].driver = d /\ vehicles'[v].status = result
      /\ vehicles'[v].selected = TRUE => result = "APPROVED"
      /\ \A x \in DOMAIN vehicles : x # v =>
           /\ vehicles'[x].driver = vehicles[x].driver
           /\ vehicles'[x].status = vehicles[x].status
           /\ vehicles'[x].selected = TRUE =>
                /\ vehicles[x].selected = TRUE
                /\ vehicles[x].driver = d => result = "REJECTED"
      /\ \A x \in DOMAIN vehicles : vehicles[x].driver # d => vehicles'[x] = vehicles[x]
  <2>1. RowsReviewed(d, v, result)
    BY <1>1, <1>4, <1>5, ReviewedRows DEF OnboardingInv
  <2> QED
    BY <2>1 DEF RowsReviewed
<1>7. \A x \in DOMAIN vehicles : vehicles'[x].driver = vehicles[x].driver
  BY <1>4, <1>6
<1>8. TablesTyped'
  <2>1. \A x \in DOMAIN vehicles' : HasProfile(vehicles[x].driver)'
    <3>1. \A x \in DOMAIN vehicles : HasProfile(vehicles[x].driver)
      BY DEF OnboardingInv, TablesTyped
    <3> QED
      BY <1>1, <1>6, <1>7, <3>1 DEF HasProfile
  <2> QED
    BY <1>1, <1>2, <1>6, <2>1 DEF OnboardingInv, TablesTyped, HasProfile
<1>9. v # 0 /\ \A x \in DOMAIN decisions' : \A e, w :
        About(x, e, w)' <=> (x # n /\ About(x, e, w)) \/ (x = n /\ e = d /\ w = v)
  BY <1>2, <1>4, RowTypes DEF About, OnboardingInv
<1>10. \A x \in DOMAIN decisions : ~About(x, d, v)
  <2>1. \A x \in DOMAIN decisions : decisions[x].result # "PENDING"
    BY RowTypes DEF OnboardingInv, AuditRows
  <2>2. VehicleDecided(v)
    BY <1>4 DEF OnboardingInv, DecidedOnce
  <2> QED
    BY <1>4, <2>1, <2>2 DEF VehicleDecided
<1>11. DecidedOnce'
  <2>1. ASSUME NEW e \in Emails PROVE DriverDecided(e)'
    <3>1. DriverDecided(e)
      BY <2>1 DEF OnboardingInv, DecidedOnce
    <3>2. \A x \in DOMAIN decisions' : About(x, e, 0)' <=> x \in DOMAIN decisions /\ About(x, e, 0)
      BY <1>2, <1>9
    <3>3. profile'[e] = profile[e] /\ \A x \in DOMAIN decisions : decisions'[x] = decisions[x]
      BY <1>1, <1>2
    <3> QED
      BY <1>2, <3>1, <3>2, <3>3 DEF DriverDecided
  <2>2. ASSUME NEW w \in DOMAIN vehicles, w # v PROVE VehicleDecided(w)'
    <3> PICK e : e = vehicles[w].driver
      OBVIOUS
    <3>1. VehicleDecided(w) /\ vehicles'[w].driver = e /\ vehicles'[w].status = vehicles[w].status
      BY <1>6, <2>2 DEF OnboardingInv, DecidedOnce
    <3>2. \A x \in DOMAIN decisions' : About(x, e, w)' <=> x \in DOMAIN decisions /\ About(x, e, w)
      BY <1>2, <1>9, <2>2
    <3>3. \A x \in DOMAIN decisions : decisions'[x] = decisions[x]
      BY <1>2
    <3>4. \A x \in DOMAIN decisions' : \A f : (f = e) =>
            (About(x, f, w)' <=> decisions'[x].driver = e /\ decisions'[x].vehicle = w)
      BY DEF About
    <3> QED
      BY <1>2, <3>1, <3>2, <3>3, <3>4 DEF VehicleDecided, About
  <2>3. VehicleDecided(v)'
    <3>1. \A x \in DOMAIN decisions' : About(x, d, v)' <=> x = n
      BY <1>2, <1>9, <1>10
    <3>2. \A x \in DOMAIN decisions' :
            (decisions'[x].driver = d /\ decisions'[x].vehicle = v) <=> x = n
      BY <3>1 DEF About
    <3> QED
      BY <1>2, <1>6, <3>2 DEF VehicleDecided, About
  <2> QED
    BY <1>6, <2>1, <2>2, <2>3 DEF DecidedOnce
<1>12. AuditHolds'
  <2> SUFFICES ASSUME NEW x \in DOMAIN decisions', decisions'[x].vehicle # 0
      PROVE /\ decisions'[x].vehicle \in DOMAIN vehicles'
            /\ vehicles'[decisions'[x].vehicle].driver = decisions'[x].driver
            /\ decisions'[x].result = "APPROVED" =>
                 \E m \in DOMAIN decisions' :
                   /\ m < x /\ decisions'[m].driver = decisions'[x].driver
                   /\ decisions'[m].vehicle = 0 /\ decisions'[m].result = "APPROVED"
    BY DEF AuditHolds, About
  <2>1. CASE x # n
    <3>1. x \in DOMAIN decisions /\ decisions'[x] = decisions[x]
      BY <1>2, <2>1
    <3>2. /\ decisions[x].vehicle \in DOMAIN vehicles
          /\ vehicles[decisions[x].vehicle].driver = decisions[x].driver
          /\ decisions[x].result = "APPROVED" =>
               \E m \in DOMAIN decisions :
                 /\ m < x /\ decisions[m].driver = decisions[x].driver
                 /\ decisions[m].vehicle = 0 /\ decisions[m].result = "APPROVED"
      BY <3>1 DEF OnboardingInv, AuditHolds, About
    <3> QED
      BY <1>2, <1>6, <1>7, <3>1, <3>2
  <2>2. CASE x = n
    <3>1. ASSUME result = "APPROVED"
          PROVE  \E m \in DOMAIN decisions :
                   /\ decisions[m].driver = d /\ decisions[m].vehicle = 0
                   /\ decisions[m].result = "APPROVED"
      BY <1>4, <3>1 DEF OnboardingInv, DecidedOnce, DriverDecided, About
    <3> QED
      BY <1>2, <1>4, <1>6, <2>2, <3>1
  <2> QED
    BY <2>1, <2>2
<1>13. SelectionHolds'
  <2>1. SelectionHolds
    BY DEF OnboardingInv
  <2>2. \A w \in DOMAIN vehicles' :
          vehicles'[w].selected = TRUE => vehicles'[w].status = "APPROVED"
    BY <1>6, <2>1 DEF SelectionHolds
  <2>3. \A w, x \in DOMAIN vehicles' :
          (vehicles'[w].selected = TRUE /\ vehicles'[x].selected = TRUE
             /\ vehicles'[w].driver = vehicles'[x].driver) => w = x
    BY <1>6, <2>1 DEF SelectionHolds
  <2>4. ASSUME NEW w \in DOMAIN vehicles', NEW x \in DOMAIN decisions', NEW y \in DOMAIN decisions',
               vehicles'[w].selected = TRUE,
               decisions'[x].driver = vehicles'[w].driver, decisions'[x].vehicle = w, x < y,
               decisions'[y].driver = vehicles'[w].driver, decisions'[y].vehicle # 0
        PROVE  decisions'[y].result = "REJECTED"
                 \/ vehicles'[decisions'[y].vehicle].status = "RETIRED"
    <3>1. x # n /\ x \in DOMAIN decisions /\ decisions'[x] = decisions[x]
      BY <1>2, <2>4
    <3>2. w # v
      BY <1>6, <1>10, <2>4, <3>1 DEF About
    <3>3. /\ vehicles[w].selected = TRUE /\ vehicles'[w].driver = vehicles[w].driver
          /\ vehicles[w].driver = d => result = "REJECTED"
      BY <1>6, <2>4, <3>2
    <3>4. CASE y = n
      BY <1>2, <2>4, <3>3, <3>4
    <3>5. CASE y # n
      <4>1. y \in DOMAIN decisions /\ decisions'[y] = decisions[y]
        BY <1>2, <3>5
      <4>2. \/ decisions[y].result = "REJECTED"
            \/ vehicles[decisions[y].vehicle].status = "RETIRED"
        BY <1>6, <2>1, <2>4, <3>1, <3>3, <4>1 DEF SelectionHolds, About
      <4>3. decisions[y].vehicle \in DOMAIN vehicles
        BY <2>4, <4>1 DEF OnboardingInv, AuditHolds
      <4> QED
        BY <1>4, <1>6, <4>1, <4>2, <4>3
    <3> QED
      BY <3>4, <3>5
  <2> QED
    BY <2>2, <2>3, <2>4 DEF SelectionHolds, About
<1>14. ASSUME NEW x \in Calls, x # r, Open(x) PROVE UntouchedRows(call[x])
  <2> PICK b : b = call[x]
    OBVIOUS
  <2>1. /\ b.op # "REGISTER" => HasProfile(b.body.driver) /\ ProfileRow(b.body.driver) \in b.locks
        /\ b.op \in VehicleReviews => VehicleReviewHolds(b)
        /\ b.locks \cap c.locks = {} /\ StillTrue(b)
    BY <1>2, <1>14, ReviewsLock DEF OnboardingInv, LocksApart
  <2>2. b.op # "REGISTER" => b.body.driver # d
    BY <1>4, <2>1
  <2>3. b.op \in VehicleReviews =>
          /\ b.body.vehicle \in DOMAIN vehicles /\ b.op # "REGISTER"
          /\ vehicles[b.body.vehicle].driver = b.body.driver
    BY <2>1 DEF VehicleReviewHolds, VehicleReviews
  <2>4. UntouchedRows(b)
    BY <1>1, <1>6, <2>2, <2>3 DEF UntouchedRows, HasProfile
  <2> QED
    BY <2>4
<1>15. CallsHold' /\ LocksApart' /\ OpenHold'
  BY <1>2, <1>14, CommitCalls
<1> QED
  BY <1>2, <1>8, <1>11, <1>12, <1>13, <1>15 DEF OnboardingInv

-------------------------------------------------------------------------------

LEMMA OnboardingInvInitially == OnboardingInit => OnboardingInv
<1> SUFFICES ASSUME OnboardingInit PROVE OnboardingInv
  OBVIOUS
<1>1. /\ call = [r \in Calls |-> Idle] /\ receipt = [m \in Commands |-> NoReceipt]
      /\ account = [e \in Emails |-> "NONE"]
      /\ profile = [e \in Emails |-> [status |-> "PENDING", phone |-> FALSE]]
      /\ vehicles = <<>> /\ decisions = <<>>
  BY DEF OnboardingInit, CallsInit
<1>2. /\ vehicles \in Seq(Vehicles) /\ decisions \in Seq(AuditRows)
      /\ DOMAIN vehicles = {} /\ DOMAIN decisions = {}
  BY <1>1
<1>3. TablesTyped
  BY <1>1, <1>2 DEF TablesTyped, Receipts, Profiles, HasProfile
<1>4. CallsHold /\ LocksApart /\ OpenHold
  BY <1>1, IdleIsNoRequest DEF CallsHold, LocksApart, OpenHold, Open
<1>5. AccountsHold
  BY <1>1 DEF AccountsHold, Registration, Told
<1>6. ReviewsHold
  BY <1>1, <1>2 DEF ReviewsHold, Review, Told
<1>7. DecidedOnce /\ AuditHolds /\ SelectionHolds
  BY <1>1, <1>2 DEF DecidedOnce, DriverDecided, AuditHolds, SelectionHolds
<1> QED
  BY <1>3, <1>4, <1>5, <1>6, <1>7 DEF OnboardingInv

LEMMA OnboardingInvStep ==
  ASSUME OnboardingInv, [OnboardingNext]_onboardingVars
  PROVE  OnboardingInv'
<1>1. ASSUME NEW r \in Calls, NEW k \in Keys, NEW e \in Emails, NEW role \in Roles,
             OpenRegister(r, e, k, role)
      PROVE  OnboardingInv'
  BY <1>1, OpenRegisterStep
<1>2. ASSUME NEW r \in Calls, NEW k \in Keys, NEW o \in Operators, ReviewStep(r, o, k)
      PROVE  OnboardingInv'
  <2>1. CASE \E d \in Emails, op \in DriverReviews \cap Operations :
               OpenDriverReview(r, op, o, k, d)
    BY <1>2, <2>1, OpenDriverReviewStep
  <2>2. CASE \E d \in Emails, op \in VehicleReviews \cap Operations, v \in 1..MaxVehicles :
               OpenVehicleReview(r, op, o, k, d, v)
    BY <1>2, <2>2, OpenVehicleReviewStep
  <2> QED
    BY <1>2, <2>1, <2>2 DEF ReviewStep, DriverReviews, VehicleReviews
<1>3. ASSUME NEW r \in Calls, CommitStep(r) PROVE OnboardingInv'
  BY <1>3, CommitRegisterStep, CommitDriverReviewStep, CommitVehicleReviewStep, FailsStep
     DEF CommitStep, DriverReviews, VehicleReviews
<1>4. ASSUME DriverStep PROVE OnboardingInv'
  BY <1>4, UpdateProfileStep, CreateVehicleStep, RetireVehicleStep DEF DriverStep
<1>5. ASSUME NEW sent \in SUBSET Calls, ProcessStops(sent),
             UNCHANGED <<account, driverVars, decisions>>
      PROVE  OnboardingInv'
  BY <1>5, ProcessStopsStep
<1>6. CASE UNCHANGED onboardingVars
  <2>1. call' = call /\ UnchangedRows
    BY <1>6 DEF onboardingVars, callVars, driverVars, UnchangedRows
  <2>2. CallsHold' /\ LocksApart'
    BY <2>1 DEF OnboardingInv, CallsHold, LocksApart, Open, UnchangedRows
  <2>3. UNCHANGED callVars
    BY <2>1 DEF callVars, UnchangedRows
  <2> QED
    BY <2>1, <2>3, RowsStay, UnchangedLeavesOpen, DriverKeeps DEF OnboardingInv, RowsHold
<1> QED
  BY <1>1, <1>2, <1>3, <1>4, <1>5, <1>6 DEF OnboardingNext

\* The invariant the theorems about onboarding rest on: transactions that are
\* open hold locks of their own, and what they have read is still true.
THEOREM OnboardingInvAlways == OnboardingSpec => []OnboardingInv
  BY OnboardingInvInitially, OnboardingInvStep, PTL DEF OnboardingSpec

\* The tables keep their types, and only an account registered as a Driver has
\* a profile that says something, or a vehicle.
THEOREM OnboardingTypes == OnboardingSpec => []OnboardingTypeOK
<1>1. OnboardingInv => OnboardingTypeOK
  BY RowTypes DEF OnboardingInv, TablesTyped, Vehicles, OnboardingTypeOK
<1> QED
  BY <1>1, OnboardingInvAlways, PTL

\* Of the operators who approve and reject a Driver or a vehicle at the same
\* time, with keys of their own, one decides, and the status is the audit row's.
THEOREM ReviewedOnce == OnboardingSpec => []OneDecisionPerSubject
<1>1. ASSUME OnboardingInv PROVE OneDecisionPerSubject
  <2>1. ASSUME NEW d \in Emails
        PROVE  /\ \A m, n \in Decisions(d, 0) : m = n
               /\ IF Decisions(d, 0) = {} THEN profile[d].status = "PENDING"
                  ELSE \A n \in Decisions(d, 0) : profile[d].status = decisions[n].result
    <3>1. DriverDecided(d)
      BY <1>1, <2>1 DEF OnboardingInv, DecidedOnce
    <3>2. \A n : n \in Decisions(d, 0) <=> n \in DOMAIN decisions /\ About(n, d, 0)
      BY DEF Decisions, About
    <3> QED
      BY <3>1, <3>2 DEF DriverDecided
  <2>2. ASSUME NEW v \in DOMAIN vehicles, NEW d, d = vehicles[v].driver
        PROVE  /\ \A m, n \in Decisions(d, v) : m = n
               /\ Decisions(d, v) = {} => vehicles[v].status \in {"PENDING", "RETIRED"}
               /\ \A n \in Decisions(d, v) :
                    vehicles[v].status \in {decisions[n].result, "RETIRED"}
    <3>1. VehicleDecided(v)
      BY <1>1, <2>2 DEF OnboardingInv, DecidedOnce
    <3>2. \A n : n \in Decisions(d, v) <=> n \in DOMAIN decisions /\ About(n, d, v)
      BY DEF Decisions, About
    <3> QED
      BY <2>2, <3>1, <3>2 DEF VehicleDecided
  <2> QED
    BY <2>1, <2>2 DEF OneDecisionPerSubject
<1> QED
  BY <1>1, OnboardingInvAlways, PTL

\* Every audit row is named by the receipt of one command, every account by
\* that of its one registration, and a retry is answered from there.
THEOREM ReceiptsAreTrue == OnboardingSpec => []ReceiptsNameTheirRows
<1>1. ASSUME OnboardingInv PROVE ReceiptsNameTheirRows
  <2> PICK told : told = {m \in Commands : receipt[m] # NoReceipt}
    OBVIOUS
  <2> PICK reviews : reviews = {m \in told : m[1] # "REGISTER"}
    OBVIOUS
  <2>1. \A m : m \in reviews <=> Review(m)
    BY DEF Review, Told
  <2>2. ReviewsHold
    BY <1>1 DEF OnboardingInv
  <2>5. \A m, n \in reviews : receipt[m].id = receipt[n].id => m = n
    BY <2>1, <2>2 DEF ReviewsHold
  <2>6. /\ \A m \in reviews : receipt[m].id \in DOMAIN decisions
        /\ \A m \in reviews : decisions[receipt[m].id].result = Verdict(m[1])
    BY <2>1, <2>2 DEF ReviewsHold
  <2>7. \A n \in DOMAIN decisions : \E m \in reviews : receipt[m].id = n
    BY <2>1, <2>2 DEF ReviewsHold
  <2>8. {receipt[m].id : m \in reviews} = DOMAIN decisions
    <3>1. {receipt[m].id : m \in reviews} \subseteq DOMAIN decisions
      BY <2>6
    <3>2. ASSUME NEW n \in DOMAIN decisions PROVE n \in {receipt[m].id : m \in reviews}
      <4>1. PICK m \in reviews : receipt[m].id = n
        BY <2>7
      <4> QED
        BY <4>1
    <3> QED
      BY <3>1, <3>2
  <2>3. ASSUME NEW e \in Emails,
               NEW found, found = {m \in told : m[1] = "REGISTER" /\ m[2] = e}
        PROVE  IF found = {} THEN account[e] = "NONE"
               ELSE \A m \in found : found = {m} /\ receipt[m].body = account[e]
    <3>1. \A m : m \in found <=> Registration(m) /\ m[2] = e
      BY <2>3 DEF Registration, Told
    <3> QED
      BY <1>1, <2>3, <3>1 DEF OnboardingInv, AccountsHold
  <2>4. \A r \in Calls : call[r].at = "done" =>
          receipt[CommandOf(call[r])] = [body |-> call[r].body, id |-> call[r].answer]
    BY <1>1 DEF OnboardingInv, CallsHold
  <2> QED
    BY <2>3, <2>4, <2>5, <2>6, <2>8 DEF ReceiptsNameTheirRows
<1> QED
  BY <1>1, OnboardingInvAlways, PTL

\* A Driver who may work was approved first, then the vehicle, the one approved
\* last of those in use, and no other is selected.
THEOREM EligibleInOrder == OnboardingSpec => []EligibleByReview
<1>1. ASSUME OnboardingInv PROVE EligibleByReview
  <2> SUFFICES ASSUME NEW d \in Emails, Eligible(d)
      PROVE \E v \in Selected(d), m, n \in DOMAIN decisions :
              /\ Selected(d) = {v} /\ m < n
              /\ decisions[m] = [driver |-> d, vehicle |-> 0, result |-> "APPROVED"]
              /\ decisions[n] = [driver |-> d, vehicle |-> v, result |-> "APPROVED"]
              /\ \A x \in DOMAIN decisions :
                   (x > n /\ decisions[x].driver = d) => decisions[x].result = "REJECTED"
                     \/ vehicles[decisions[x].vehicle].status = "RETIRED"
    BY DEF EligibleByReview
  <2>1. PICK v \in Selected(d) : TRUE
    BY DEF Eligible
  <2>2. /\ \A x \in DOMAIN vehicles : vehicles[x] \in Vehicles /\ x \in Nat \ {0}
        /\ \A x \in DOMAIN decisions : decisions[x] \in AuditRows /\ x \in Nat \ {0}
    BY <1>1, RowTypes DEF OnboardingInv
  <2>3. \A x : x \in Selected(d) <=> /\ x \in DOMAIN vehicles /\ vehicles[x].driver = d
                                     /\ vehicles[x].selected = TRUE
                                     /\ vehicles[x].status = "APPROVED"
    BY <2>2 DEF Selected, Vehicles
  <2>4. Selected(d) = {v}
    BY <1>1, <2>3 DEF OnboardingInv, SelectionHolds
  <2>5. PICK n \in DOMAIN decisions : About(n, d, v) /\ decisions[n].result = "APPROVED"
    <3>1. VehicleDecided(v) /\ vehicles[v].driver = d /\ vehicles[v].status = "APPROVED"
      BY <1>1, <2>3 DEF OnboardingInv, DecidedOnce
    <3> QED
      BY <3>1 DEF VehicleDecided
  <2>6. PICK m \in DOMAIN decisions :
          m < n /\ About(m, d, 0) /\ decisions[m].result = "APPROVED"
    BY <1>1, <2>2, <2>3, <2>5 DEF OnboardingInv, AuditHolds, About
  <2>7. /\ decisions[m] = [driver |-> d, vehicle |-> 0, result |-> "APPROVED"]
        /\ decisions[n] = [driver |-> d, vehicle |-> v, result |-> "APPROVED"]
    BY <2>2, <2>5, <2>6 DEF AuditRows, About
  <2>8. ASSUME NEW x \in DOMAIN decisions, x > n, decisions[x].driver = d
        PROVE  decisions[x].result = "REJECTED"
                 \/ vehicles[decisions[x].vehicle].status = "RETIRED"
    <3>1. decisions[x].vehicle # 0
      <4>1. decisions[x].vehicle = 0 => x = m
        BY <1>1, <2>6, <2>8 DEF OnboardingInv, DecidedOnce, DriverDecided, About
      <4> QED
        BY <2>2, <2>6, <2>8, <4>1
    <3>2. n < x
      BY <2>2, <2>8
    <3> QED
      BY <1>1, <2>3, <2>5, <2>8, <3>1, <3>2 DEF OnboardingInv, SelectionHolds
  <2> QED
    BY <2>4, <2>6, <2>7, <2>8
<1> QED
  BY <1>1, OnboardingInvAlways, PTL

-------------------------------------------------------------------------------
(* Refinement: every command takes effect once *)

\* What a request was told is the receipt of its command.
LEMMA ToldTheReceipt ==
  ASSUME OnboardingInv, NEW r \in Calls
  PROVE  \/ receiptTold[r] = NoReceipt
         \/ \E m \in Commands : /\ receipt[m] # NoReceipt
                                /\ receiptTold[r] = [command |-> m, outcome |-> receipt[m]]
<1>1. CASE call[r].at = "done"
  <2>1. PICK m : m = CommandOf(call[r])
    OBVIOUS
  <2>2. m \in Commands /\ receipt[m] = [body |-> call[r].body, id |-> call[r].answer]
    BY <1>1, <2>1, IdleIsNoRequest, CommandFacts DEF OnboardingInv, CallsHold
  <2>3. DOMAIN receipt[m] = {"body", "id"} /\ DOMAIN NoReceipt = {"id"}
    BY <2>2 DEF NoReceipt
  <2>4. receiptTold[r] = [command |-> m, outcome |-> receipt[m]]
    BY <1>1, <2>1, <2>2 DEF receiptTold
  <2> QED
    BY <2>2, <2>3, <2>4
<1>2. CASE call[r].at # "done"
  BY <1>2 DEF receiptTold
<1> QED
  BY <1>1, <1>2

LEMMA ToldTheReceiptNext == OnboardingInv' => \A r \in Calls : Reviewing!Hears(r)
<1>1. OnboardingInv =>
        \A r \in Calls :
          \/ receiptTold[r] = NoReceipt
          \/ \E m \in Commands : /\ receipt[m] # NoReceipt
                                 /\ receiptTold[r] = [command |-> m, outcome |-> receipt[m]]
  BY ToldTheReceipt
<1>2. (OnboardingInv =>
        \A r \in Calls :
          \/ receiptTold[r] = NoReceipt
          \/ \E m \in Commands : /\ receipt[m] # NoReceipt
                                 /\ receiptTold[r] = [command |-> m, outcome |-> receipt[m]])'
  BY <1>1, PTL
<1> QED
  BY <1>2 DEF Reviewing!Hears

LEMMA CommitWrites ==
  ASSUME OnboardingInv, NEW r \in Calls, Open(r), NEW id \in Nat \ {0}, Committed(r, id),
         NEW m, m = CommandOf(call[r])
  PROVE  /\ m \in Commands /\ receipt[m] = NoReceipt /\ receipt'[m] # NoReceipt
         /\ receipt' = [receipt EXCEPT ![m] = receipt'[m]]
         /\ receipt'[m].id = id /\ m[1] = call[r].op /\ m[2] = call[r].who
<1>1. /\ m \in Commands /\ ~Told(m) /\ Told(m)' /\ receipt'[m].id = id
      /\ m[1] = call[r].op /\ m[2] = call[r].who
  BY CommitReceipts
<1> PICK new : new = [body |-> call[r].body, id |-> id]
  OBVIOUS
<1>2. receipt' = [receipt EXCEPT ![m] = new]
  BY DEF Committed
<1>3. receipt'[m] = new
  BY <1>1, <1>2 DEF OnboardingInv, TablesTyped
<1> QED
  BY <1>1, <1>2, <1>3 DEF Told

\* A registration makes an account that nobody had, under the address's lock.
LEMMA RegistrationTakesEffect ==
  ASSUME OnboardingInv, NEW r \in Calls, CommitRegister(r)
  PROVE  \E m \in Commands : Reviewing!Perform(m)
<1> PICK c : c = call[r]
  OBVIOUS
<1> PICK m : m = CommandOf(c)
  OBVIOUS
<1>1. /\ Open(r) /\ c.op = "REGISTER" /\ Committed(r, 1)
      /\ account' = [account EXCEPT ![c.who] = c.body] /\ decisions' = decisions
  BY DEF CommitRegister, Running
<1>2. /\ m \in Commands /\ receipt[m] = NoReceipt /\ receipt'[m] # NoReceipt
      /\ receipt' = [receipt EXCEPT ![m] = receipt'[m]]
      /\ m[1] = "REGISTER" /\ m[2] = c.who
  BY <1>1, CommitWrites
<1>3. /\ RegistrationHolds(c)
      /\ c.who \in Emails /\ c.body # "NONE" /\ account[c.who] = "NONE"
  BY <1>1, ReviewsLock DEF OnboardingInv, RegistrationHolds, Roles
<1> PICK row : row = <<"account", c.who>>
  OBVIOUS
<1>4. EffectOf(m, receipt'[m]) = row
  BY <1>2 DEF EffectOf
<1>5. row \notin accountsAndDecisions
  BY <1>3 DEF accountsAndDecisions
<1>6. \A e \in Emails : account'[e] # "NONE" <=> account[e] # "NONE" \/ e = c.who
  BY <1>1, <1>3 DEF OnboardingInv, TablesTyped
<1>7. {<<"account", e>> : e \in {x \in Emails : account'[x] # "NONE"}}
        = {<<"account", e>> : e \in {x \in Emails : account[x] # "NONE"}} \cup {row}
  BY <1>3, <1>6
<1>8. accountsAndDecisions' = accountsAndDecisions \cup {row}
  BY <1>1, <1>7 DEF accountsAndDecisions
<1> QED
  BY <1>2, <1>4, <1>5, <1>8 DEF Reviewing!Perform

\* A review makes the next audit row.
LEMMA DecisionTakesEffect ==
  ASSUME OnboardingInv, NEW r \in Calls, NEW op \in DriverReviews \cup VehicleReviews,
         Running(r, op), Decided(r, op), account' = account
  PROVE  \E m \in Commands : Reviewing!Perform(m)
<1> PICK c : c = call[r]
  OBVIOUS
<1> PICK n : n = Len(decisions) + 1
  OBVIOUS
<1> PICK m : m = CommandOf(c)
  OBVIOUS
<1>1. Open(r) /\ c.op = op /\ op # "REGISTER" /\ Committed(r, n)
  BY DEF Running, Decided, DriverReviews, VehicleReviews
<1>2. /\ DOMAIN decisions' = DOMAIN decisions \cup {n} /\ n \notin DOMAIN decisions
      /\ n \in Nat \ {0}
  <2>1. DecidesRow(r, op, c, n)
    BY DecidedRows
  <2>2. Len(decisions) \in Nat
    BY DEF OnboardingInv, TablesTyped
  <2> QED
    BY <2>1, <2>2 DEF DecidesRow
<1>3. /\ m \in Commands /\ receipt[m] = NoReceipt /\ receipt'[m] # NoReceipt
      /\ receipt' = [receipt EXCEPT ![m] = receipt'[m]]
      /\ receipt'[m].id = n /\ m[1] # "REGISTER"
  BY <1>1, <1>2, CommitWrites
<1> PICK row : row = <<"decision", n>>
  OBVIOUS
<1>4. EffectOf(m, receipt'[m]) = row
  BY <1>3 DEF EffectOf
<1>5. row \notin accountsAndDecisions
  BY <1>2 DEF accountsAndDecisions
<1>6. {<<"decision", x>> : x \in DOMAIN decisions'}
        = {<<"decision", x>> : x \in DOMAIN decisions} \cup {row}
  BY <1>2
<1>7. accountsAndDecisions' = accountsAndDecisions \cup {row}
  BY <1>6 DEF accountsAndDecisions
<1> QED
  BY <1>3, <1>4, <1>5, <1>7 DEF Reviewing!Perform

\* A step takes effect for one command, or leaves receipts, accounts and
\* decisions alone.
LEMMA StepTakesEffect ==
  ASSUME OnboardingInv, [OnboardingNext]_onboardingVars
  PROVE  \/ UNCHANGED <<receipt, account, decisions>>
         \/ \E m \in Commands : Reviewing!Perform(m)
<1>1. ASSUME NEW r \in Calls, NEW k \in Keys, NEW e \in Emails, NEW role \in Roles,
             OpenRegister(r, e, k, role)
      PROVE  UNCHANGED <<receipt, account, decisions>>
  BY <1>1 DEF OpenRegister, Taken
<1>2. ASSUME NEW r \in Calls, NEW k \in Keys, NEW o \in Operators, ReviewStep(r, o, k)
      PROVE  UNCHANGED <<receipt, account, decisions>>
  BY <1>2 DEF ReviewStep, OpenDriverReview, OpenVehicleReview, Taken
<1>3. ASSUME NEW r \in Calls, CommitStep(r)
      PROVE  \/ UNCHANGED <<receipt, account, decisions>>
             \/ \E m \in Commands : Reviewing!Perform(m)
  <2>1. CASE CommitRegister(r)
    BY <2>1, RegistrationTakesEffect
  <2>2. ASSUME NEW op \in DriverReviews, CommitDriverReview(r, op)
        PROVE  \E m \in Commands : Reviewing!Perform(m)
    BY <2>2, DecisionTakesEffect DEF CommitDriverReview
  <2>3. ASSUME NEW op \in VehicleReviews, CommitVehicleReview(r, op)
        PROVE  \E m \in Commands : Reviewing!Perform(m)
    BY <2>3, DecisionTakesEffect DEF CommitVehicleReview
  <2>4. CASE Fails(r) /\ UNCHANGED <<account, driverVars, decisions>>
    BY <2>4 DEF Fails
  <2> QED
    BY <1>3, <2>1, <2>2, <2>3, <2>4 DEF CommitStep, DriverReviews, VehicleReviews
<1>4. ASSUME DriverStep PROVE UNCHANGED <<receipt, account, decisions>>
  BY <1>4 DEF DriverStep, UpdateProfile, CreateVehicle, RetireVehicle, callVars
<1>5. ASSUME NEW sent \in SUBSET Calls, ProcessStops(sent),
             UNCHANGED <<account, driverVars, decisions>>
      PROVE  UNCHANGED <<receipt, account, decisions>>
  BY <1>5 DEF ProcessStops
<1>6. CASE UNCHANGED onboardingVars
  BY <1>6 DEF onboardingVars, callVars
<1> QED
  BY <1>1, <1>2, <1>3, <1>4, <1>5, <1>6 DEF OnboardingNext

LEMMA OnboardingStepRefines ==
  ASSUME OnboardingInv, OnboardingInv', [OnboardingNext]_onboardingVars
  PROVE  [Reviewing!Next]_(Reviewing!vars)
<1>1. Reviewing!Answers
  <2>1. DOMAIN receiptTold' = Calls
    BY DEF receiptTold
  <2> QED
    BY <2>1, ToldTheReceiptNext DEF Reviewing!Answers
<1>2. CASE UNCHANGED <<receipt, account, decisions>>
  <2>1. accountsAndDecisions' = accountsAndDecisions
    BY <1>2 DEF accountsAndDecisions
  <2> QED
    BY <1>1, <1>2, <2>1 DEF Reviewing!Next
<1>3. CASE \E m \in Commands : Reviewing!Perform(m)
  BY <1>1, <1>3 DEF Reviewing!Next
<1> QED
  BY <1>2, <1>3, StepTakesEffect

LEMMA OnboardingInitRefines == OnboardingInit => Reviewing!Init
<1> SUFFICES ASSUME OnboardingInit PROVE Reviewing!Init
  OBVIOUS
<1>1. /\ call = [r \in Calls |-> Idle] /\ receipt = [m \in Commands |-> NoReceipt]
      /\ account = [e \in Emails |-> "NONE"] /\ DOMAIN decisions = {}
  BY DEF OnboardingInit, CallsInit
<1>2. accountsAndDecisions = {}
  BY <1>1 DEF accountsAndDecisions
<1>3. receiptTold = [r \in Calls |-> NoReceipt]
  BY <1>1, IdleIsNoRequest DEF receiptTold
<1> QED
  BY <1>1, <1>2, <1>3 DEF Reviewing!Init

\* Registrations and reviews implement commands that take effect once: however
\* operators and registrants race, repeat or lose their requests, and wherever
\* the process stops, for any number of them.
THEOREM OnboardingImplementsOnceOnly == OnboardingSpec => OnboardsOnceOnly
<1>1. OnboardingInv /\ OnboardingInv' /\ [OnboardingNext]_onboardingVars
        => [Reviewing!Next]_(Reviewing!vars)
  BY OnboardingStepRefines
<1> QED
  BY <1>1, OnboardingInitRefines, OnboardingInvAlways, PTL
     DEF OnboardingSpec, OnboardsOnceOnly, Reviewing!Spec

===============================================================================
