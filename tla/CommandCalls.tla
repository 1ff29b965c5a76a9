----------------------------- MODULE CommandCalls -----------------------------
(***************************************************************************)
(* The calls of idempotent commands, as the pricing, trip, payment,        *)
(* identity and operator modules all run them: a request carries the       *)
(* caller's idempotency key, its handler opens one transaction, takes an   *)
(* advisory lock and the row locks it needs, looks for a receipt of the    *)
(* key, decides, and commits its rows together with the receipt.  A        *)
(* transaction is two steps here:                                          *)
(* Opened reads and decides under the locks, a commit writes what was      *)
(* decided, and calls of other callers run in between.  The API process    *)
(* may stop at any moment: PostgreSQL then rolls an open transaction back, *)
(* or still completes it when its COMMIT was on the way ("orphan").        *)
(***************************************************************************)
EXTENDS Naturals

CONSTANTS
  Callers,      \* who calls
  Keys,         \* the idempotency keys a caller uses, for each operation
  Operations,   \* the operations receipts are kept for
  Calls         \* the requests under way at one time

VARIABLES
  call,        \* each request: its command, where it stands and its answer
  receipt      \* what the command_receipts tables hold for a command

callVars == <<call, receipt>>

Commands == Operations \X Callers \X Keys

NoReceipt == [id |-> 0]

\* An answer names the row the command made; 0 stands for every error.
Failed == 0

Idle == [at |-> "idle"]

CommandOf(c) == <<c.op, c.who, c.key>>

\* Calls whose transaction is open, and the locks it holds.
Open(r) == call[r].at \in {"open", "orphan"}
Running(r, op) == Open(r) /\ call[r].op = op
Free(locks) == \A r \in Calls : Open(r) => call[r].locks \cap locks = {}

CallsInit ==
  /\ call = [r \in Calls |-> Idle]
  /\ receipt = [m \in Commands |-> NoReceipt]

\* A slot takes a new request when it has none or the last one was answered.
Vacant(r) == call[r].at \in {"idle", "done"}

Request(op, who, key, body, at) ==
  [at |-> at, op |-> op, who |-> who, key |-> key, body |-> body,
   locks |-> {}, plan |-> 0, answer |-> Failed]

\* Requests that wait for the promise of call r: they get its answer with it.
Followers(r) ==
  {x \in Calls : /\ call[x].at = "joined" /\ call[r].at # "orphan"
                 /\ CommandOf(call[x]) = CommandOf(call[r])}

\* Mutant of Answered: the locks outlive the transaction.
AnsweredLocked(r, answer) ==
  [x \in Calls |->
     IF x \notin Followers(r) \cup {r} THEN call[x]
     ELSE IF answer = Failed \/ call[x].at = "orphan" THEN Idle
     ELSE [call[x] EXCEPT !.at = "done", !.plan = 0, !.answer = answer]]

\* The calls once r is answered.  An error leaves nothing behind, and nobody
\* hears the answer of an orphan.
Answered(r, answer) ==
  [x \in Calls |->
     IF x \notin Followers(r) \cup {r} THEN call[x]
     ELSE IF answer = Failed \/ call[x].at = "orphan" THEN Idle
     ELSE [call[x] EXCEPT !.at = "done", !.locks = {}, !.plan = 0, !.answer = answer]]

\* Mutant of Replay: the fingerprint is not compared.
ReplayAnyBody(c) == receipt[CommandOf(c)].id

\* What a receipt says to a request c with the same key: its first answer if
\* the request has the same fingerprint, and IDEMPOTENCY_KEY_REUSED otherwise.
Replay(c) ==
  LET known == receipt[CommandOf(c)]
  IN  IF known.body = c.body THEN known.id ELSE Failed

Replayed(c) ==
  IF Replay(c) = Failed THEN Idle
  ELSE [c EXCEPT !.at = "done", !.answer = Replay(c)]

\* BEGIN, the advisory lock, the receipt, the row locks and the checks, whose
\* verdict is an error code or "NONE"; plan is what was read for the commit.
\* A request that waits for a lock is one that has not been taken yet.
Taken(r, c, locks, verdict, plan) ==
  /\ Vacant(r) /\ Free(locks)
  /\ call' = [call EXCEPT ![r] =
       IF receipt[CommandOf(c)] # NoReceipt THEN Replayed(c)
       ELSE IF verdict # "NONE" THEN Idle
       ELSE [c EXCEPT !.at = "open", !.locks = locks, !.plan = plan]]
  /\ UNCHANGED receipt

\* COMMIT: the row made and the receipt that names it appear together.
Committed(r, id) ==
  /\ receipt' = [receipt EXCEPT ![CommandOf(call[r])] = [body |-> call[r].body, id |-> id]]
  /\ call' = Answered(r, id)

\* A statement fails and the transaction is rolled back.
Fails(r) ==
  /\ call[r].at = "open"
  /\ call' = Answered(r, Failed)
  /\ UNCHANGED receipt

\* The process stops: every request is lost, and of the open transactions
\* those whose COMMIT was sent go on without anybody waiting for them.
ProcessStops(sent) ==
  /\ sent \subseteq {r \in Calls : Open(r)}
  /\ {r \in Calls : call[r].at = "orphan"} \subseteq sent
  /\ call' = [r \in Calls |->
       IF r \in sent THEN [call[r] EXCEPT !.at = "orphan"] ELSE Idle]
  /\ UNCHANGED receipt

===============================================================================
