------------------------------ MODULE Onboarding ------------------------------
(***************************************************************************)
(* How an account becomes a Driver who may work: registration              *)
(* (identity.repository.ts, register), the Driver's own profile and        *)
(* vehicles (driver.repository.ts), and the operator's reviews             *)
(* (operator.repository.ts).  Registration and reviews are idempotent      *)
(* commands; the Driver's commands are single statements.                  *)
(***************************************************************************)
EXTENDS CommandCalls, Sequences, FiniteSets

CONSTANTS
  Emails,        \* who registers, an address being one account
  Operators,     \* who reviews
  Plates,        \* normalised number plates
  MaxVehicles    \* bound of an instance: the rows of driver.vehicles

ASSUME OnboardingAssumption ==
  /\ Emails \cup Operators \subseteq Callers
  /\ "REGISTER" \in Operations
  /\ MaxVehicles \in Nat

VARIABLES
  account,     \* each address: no user, or the user's role
  profile,     \* driver.driver_profiles: review status, and whether a phone is set
  vehicles,    \* driver.vehicles in the order of their creation
  decisions    \* driver.onboarding_approval_actions in the order of their commits

driverVars     == <<profile, vehicles>>
onboardingVars == <<callVars, account, driverVars, decisions>>

Roles    == {"CUSTOMER", "DRIVER"}
Profiles == [status : {"PENDING", "APPROVED", "REJECTED"}, phone : BOOLEAN]

OnboardingInit ==
  /\ CallsInit
  /\ account = [e \in Emails |-> "NONE"]
  /\ profile = [e \in Emails |-> [status |-> "PENDING", phone |-> FALSE]]
  /\ vehicles = <<>> /\ decisions = <<>>

\* A row of driver_profiles appears with the registration of a Driver.
HasProfile(d) == account[d] = "DRIVER"

ProfileRow(d) == <<"profile", d>>
VehicleRow(v) == <<"vehicle", v>>

-------------------------------------------------------------------------------
(* Registration *)

\* Mutant of EmailLocks: nothing keeps two registrations apart.
EmailLocksNone(e) == {}

EmailLocks(e) == {<<"email", e>>}

OpenRegister(r, e, k, role) ==
  /\ Taken(r, Request("REGISTER", e, k, role, "queued"), EmailLocks(e),
           IF account[e] = "NONE" THEN "NONE" ELSE "EMAIL_ALREADY_REGISTERED", 0)
  /\ UNCHANGED <<account, driverVars, decisions>>

\* The user, the role, a Driver's profile and the receipt.
CommitRegister(r) ==
  /\ Running(r, "REGISTER")
  /\ account' = [account EXCEPT ![call[r].who] = call[r].body]
  /\ Committed(r, 1)
  /\ UNCHANGED <<driverVars, decisions>>

-------------------------------------------------------------------------------
(* The Driver's own commands: each waits for the rows a review has locked *)

\* Mutant of UpdateProfile: an account without a profile gets one.
UpsertProfile(d, phone) ==
  /\ account[d] # "NONE" /\ Free({ProfileRow(d)})
  /\ profile' = [profile EXCEPT ![d].phone = phone]
  /\ UNCHANGED <<callVars, account, vehicles, decisions>>

\* PUT without a phone clears it, at any review status.
UpdateProfile(d, phone) ==
  /\ HasProfile(d) /\ Free({ProfileRow(d)})
  /\ profile' = [profile EXCEPT ![d].phone = phone]
  /\ UNCHANGED <<callVars, account, vehicles, decisions>>

\* The foreign key locks the profile's row; the partial unique index refuses a
\* plate that a vehicle not yet retired has.
CreateVehicle(d, plate) ==
  /\ HasProfile(d) /\ Free({ProfileRow(d)}) /\ Len(vehicles) < MaxVehicles
  /\ \A v \in DOMAIN vehicles : vehicles[v].plate = plate => vehicles[v].status = "RETIRED"
  /\ vehicles' = Append(vehicles,
       [driver |-> d, plate |-> plate, status |-> "PENDING", selected |-> FALSE])
  /\ UNCHANGED <<callVars, account, profile, decisions>>

RetireVehicle(v) ==
  /\ vehicles[v].status # "RETIRED" /\ Free({VehicleRow(v)})
  /\ vehicles' = [vehicles EXCEPT ![v].status = "RETIRED", ![v].selected = FALSE]
  /\ UNCHANGED <<callVars, account, profile, decisions>>

-------------------------------------------------------------------------------
(* The operator's reviews *)

\* What an operation decides.
Verdict(op) == IF op \in {"APPROVE_DRIVER", "APPROVE_VEHICLE"} THEN "APPROVED" ELSE "REJECTED"

\* Mutant of DriverLocks: the profile's row is not locked.
DriverLocksOfKey(op, o, k, d) == {<<op, o, k>>}

DriverLocks(op, o, k, d) == {<<op, o, k>>, ProfileRow(d)}

DriverVerdict(op, d) ==
  IF ~HasProfile(d) THEN "NOT_FOUND"
  ELSE IF Verdict(op) = "APPROVED" /\ ~profile[d].phone THEN "PROFILE_INCOMPLETE"
  ELSE IF profile[d].status # "PENDING" THEN "NOT_PENDING" ELSE "NONE"

OpenDriverReview(r, op, o, k, d) ==
  /\ Taken(r, Request(op, o, k, [driver |-> d, vehicle |-> 0], "queued"),
           DriverLocks(op, o, k, d), DriverVerdict(op, d), 0)
  /\ UNCHANGED <<account, driverVars, decisions>>

\* createOnboardingApprovalAction and the receipt that names its row.
Decided(r, op) ==
  /\ decisions' = Append(decisions,
       [driver |-> call[r].body.driver, vehicle |-> call[r].body.vehicle,
        result |-> Verdict(op)])
  /\ Committed(r, Len(decisions) + 1)

CommitDriverReview(r, op) ==
  /\ Running(r, op) /\ Decided(r, op)
  /\ profile' = [profile EXCEPT ![call[r].body.driver].status = Verdict(op)]
  /\ UNCHANGED <<account, vehicles>>

VehicleLocks(op, o, k, d, v) == {<<op, o, k>>, ProfileRow(d), VehicleRow(v)}

\* Mutant of VehicleVerdict: the profile's status is not looked at.
VehicleVerdictAnyProfile(op, d, v) ==
  IF ~HasProfile(d) THEN "DRIVER_NOT_FOUND"
  ELSE IF v \notin DOMAIN vehicles THEN "VEHICLE_NOT_FOUND"
  ELSE IF vehicles[v].driver # d THEN "VEHICLE_NOT_FOUND"
  ELSE IF vehicles[v].status # "PENDING" THEN "NOT_PENDING" ELSE "NONE"

VehicleVerdict(op, d, v) ==
  IF ~HasProfile(d) THEN "DRIVER_NOT_FOUND"
  ELSE IF v \notin DOMAIN vehicles THEN "VEHICLE_NOT_FOUND"
  ELSE IF vehicles[v].driver # d THEN "VEHICLE_NOT_FOUND"
  ELSE IF Verdict(op) = "APPROVED" /\ profile[d].status # "APPROVED" THEN "DRIVER_NOT_APPROVED"
  ELSE IF vehicles[v].status # "PENDING" THEN "NOT_PENDING" ELSE "NONE"

OpenVehicleReview(r, op, o, k, d, v) ==
  /\ Taken(r, Request(op, o, k, [driver |-> d, vehicle |-> v], "queued"),
           VehicleLocks(op, o, k, d, v), VehicleVerdict(op, d, v), 0)
  /\ UNCHANGED <<account, driverVars, decisions>>

\* An approval first deselects what was selected; the partial unique index
\* would abort it otherwise.
Reviewed(d, v, result) ==
  [x \in DOMAIN vehicles |->
     IF x = v THEN [vehicles[x] EXCEPT !.status = result, !.selected = (result = "APPROVED")]
     ELSE IF vehicles[x].driver = d /\ result = "APPROVED"
       THEN [vehicles[x] EXCEPT !.selected = FALSE] ELSE vehicles[x]]

CommitVehicleReview(r, op) ==
  /\ Running(r, op) /\ Decided(r, op)
  /\ vehicles' = Reviewed(call[r].body.driver, call[r].body.vehicle, Verdict(op))
  /\ UNCHANGED <<account, profile>>

-------------------------------------------------------------------------------

\* isEligible, and the same question in setWorkState and the candidate queries.
Selected(d) == {v \in DOMAIN vehicles :
                  vehicles[v].driver = d /\ vehicles[v].selected /\ vehicles[v].status = "APPROVED"}

Eligible(d) == HasProfile(d) /\ profile[d].status = "APPROVED" /\ Selected(d) # {}

ReviewStep(r, o, k) ==
  \E d \in Emails :
    \/ \E op \in {"APPROVE_DRIVER", "REJECT_DRIVER"} \cap Operations :
         OpenDriverReview(r, op, o, k, d)
    \/ \E op \in {"APPROVE_VEHICLE", "REJECT_VEHICLE"} \cap Operations, v \in 1..MaxVehicles :
         OpenVehicleReview(r, op, o, k, d, v)

CommitStep(r) ==
  \/ CommitRegister(r)
  \/ \E op \in {"APPROVE_DRIVER", "REJECT_DRIVER"} : CommitDriverReview(r, op)
  \/ \E op \in {"APPROVE_VEHICLE", "REJECT_VEHICLE"} : CommitVehicleReview(r, op)
  \/ Fails(r) /\ UNCHANGED <<account, driverVars, decisions>>

DriverStep ==
  \/ \E d \in Emails : \/ \E phone \in BOOLEAN : UpdateProfile(d, phone)
                       \/ \E plate \in Plates : CreateVehicle(d, plate)
  \/ \E v \in DOMAIN vehicles : RetireVehicle(v)

OnboardingNext ==
  \/ \E r \in Calls, k \in Keys :
       \/ \E e \in Emails, role \in Roles : OpenRegister(r, e, k, role)
       \/ \E o \in Operators : ReviewStep(r, o, k)
  \/ \E r \in Calls : CommitStep(r)
  \/ DriverStep
  \/ \E sent \in SUBSET Calls :
       ProcessStops(sent) /\ UNCHANGED <<account, driverVars, decisions>>

OnboardingSpec == OnboardingInit /\ [][OnboardingNext]_onboardingVars

-------------------------------------------------------------------------------
(* Properties *)

\* Every variable keeps its type, and a profile is only touched once it exists.
OnboardingTypeOK ==
  /\ account \in [Emails -> {"NONE"} \cup Roles]
  /\ profile \in [Emails -> Profiles]
  /\ \A e \in Emails : ~HasProfile(e) => profile[e] = [status |-> "PENDING", phone |-> FALSE]
  /\ \A v \in DOMAIN vehicles :
       /\ vehicles[v].status \in {"PENDING", "APPROVED", "REJECTED", "RETIRED"}
       /\ HasProfile(vehicles[v].driver)

Decisions(d, v) == {n \in DOMAIN decisions : decisions[n].driver = d /\ decisions[n].vehicle = v}

\* Of the operators who approve and reject a subject at the same time, with any
\* keys, exactly one decides: a subject is reviewed at most once, and its
\* status is what the audit row says, until the Driver retires it.
OneDecisionPerSubject ==
  /\ \A d \in Emails :
       LET found == Decisions(d, 0)
       IN  /\ \A m, n \in found : m = n
           /\ IF found = {} THEN profile[d].status = "PENDING"
              ELSE \A n \in found : profile[d].status = decisions[n].result
  /\ \A v \in DOMAIN vehicles :
       LET found == Decisions(vehicles[v].driver, v)
       IN  /\ \A m, n \in found : m = n
           /\ found = {} => vehicles[v].status \in {"PENDING", "RETIRED"}
           /\ \A n \in found : vehicles[v].status \in {decisions[n].result, "RETIRED"}

\* A retry is answered with the decision of its own key, the receipts name
\* every audit row once, and an account has the role its registration asked for.
ReceiptsNameTheirRows ==
  LET told == {m \in Commands : receipt[m] # NoReceipt}
      reviews == {m \in told : m[1] # "REGISTER"}
  IN  /\ \A m, n \in reviews : receipt[m].id = receipt[n].id => m = n
      /\ {receipt[m].id : m \in reviews} = DOMAIN decisions
      /\ \A m \in reviews : decisions[receipt[m].id].result = Verdict(m[1])
      /\ \A e \in Emails :
           LET registrations == {m \in told : m[1] = "REGISTER" /\ m[2] = e}
           IN  IF registrations = {} THEN account[e] = "NONE"
               ELSE \A m \in registrations :
                      registrations = {m} /\ receipt[m].body = account[e]
      /\ \A r \in Calls : call[r].at = "done" =>
           receipt[CommandOf(call[r])] = [body |-> call[r].body, id |-> call[r].answer]

\* An eligible Driver was approved before the vehicle was, drives the vehicle
\* approved last of those that are not retired since, and only that one.
EligibleByReview ==
  \A d \in Emails : Eligible(d) =>
    \E v \in Selected(d), m, n \in DOMAIN decisions :
      /\ Selected(d) = {v} /\ m < n
      /\ decisions[m] = [driver |-> d, vehicle |-> 0, result |-> "APPROVED"]
      /\ decisions[n] = [driver |-> d, vehicle |-> v, result |-> "APPROVED"]
      /\ \A x \in DOMAIN decisions :
           (x > n /\ decisions[x].driver = d) => decisions[x].result = "REJECTED"
             \/ vehicles[decisions[x].vehicle].status = "RETIRED"

-------------------------------------------------------------------------------
(* The abstract specification *)

\* A registration makes the account of its address, a review an audit row.
EffectOf(m, known) ==
  IF m[1] = "REGISTER" THEN <<"account", m[2]>> ELSE <<"decision", known.id>>

accountsAndDecisions ==
  {<<"account", e>> : e \in {x \in Emails : account[x] # "NONE"}}
    \cup {<<"decision", n>> : n \in DOMAIN decisions}

receiptTold == [r \in Calls |->
  IF call[r].at # "done" THEN NoReceipt
  ELSE [command |-> CommandOf(call[r]),
        outcome |-> [body |-> call[r].body, id |-> call[r].answer]]]

Reviewing == INSTANCE OnceOnly WITH
  Commands <- Commands, Requests <- Calls, Nothing <- NoReceipt, Effect <- EffectOf,
  effects <- accountsAndDecisions, outcome <- receipt, heard <- receiptTold

\* Registrations and reviews take effect once for each command, and everyone
\* who is answered is told of that one account or decision.
OnboardsOnceOnly == Reviewing!Spec

===============================================================================
