------------------------------- MODULE Outbox -------------------------------
(***************************************************************************)
(* The transactional outbox: the rows of table "outbox" (OutboxRepo) and   *)
(* the worker processes that claim rows, dispatch their events and mark    *)
(* the result (OutboxRunner.poll), each database transaction split at the  *)
(* points where another process or a crash can come between.               *)
(*                                                                         *)
(* A row is kept as one function per column.  The two timestamps are       *)
(* abstracted to what the queries compare: locked_at is "null", "held"     *)
(* (younger than claim_timeout_seconds) or "expired", and available_at is  *)
(* the set of rows that ORDER BY available_at, id puts ahead of the row.   *)
(* A text stored in last_error is only its size, because the size decides  *)
(* whether the row still fits into one NOTIFY payload (see Fits).          *)
(***************************************************************************)
EXTENDS Naturals, FiniteSets

CONSTANTS
  Jobs,          \* the ids the rows may have
  Workers,       \* the worker processes polling the same table
  Limit,         \* worker_batch_limit, the LIMIT of one claim
  MaxAttempts,   \* max_attempts of every row (default_max_attempts)
  Errors,        \* the sizes of str(exc) the handlers may raise with
  Overrun,       \* may a lease expire while its holder is still working?
  MaxClaims,     \* bound: a row is claimed at most this often
  MaxCrashes,    \* bound: number of worker crashes in a behaviour
  Null           \* no worker, no job

ASSUME ConstantsAssumption ==
  /\ Limit \in Nat \ {0}
  /\ MaxAttempts \in Nat \ {0}
  /\ MaxClaims \in Nat
  /\ MaxCrashes \in Nat
  /\ Errors \subseteq {"short", "edge", "long"}
  /\ Overrun \in BOOLEAN
  /\ Null \notin Jobs \cup Workers

VARIABLES
  \* the columns of table outbox, committed values
  status, attempts, locked_at, done_at, last_error, ahead,
  \* the row locks of the open transactions
  row_lock,
  \* every worker: where poll is, the claimed jobs not yet dispatched, the
  \* job at hand, how its handler ended, the attempts mark has read, and
  \* whether the open transaction has already failed in the server
  pc, batch, job, outcome, seen, aborted,
  \* history: the jobs whose handler has returned, the crashes so far
  succeeded, crashes

row     == <<status, attempts, locked_at, done_at, last_error, ahead>>
locals  == <<batch, job, outcome, seen, aborted>>
history == <<succeeded, crashes>>
vars    == <<row, row_lock, pc, locals, history>>

-----------------------------------------------------------------------------
(* The row and the queries on it.                                          *)

Terminal  == {"done", "failed"}
Submitted == {j \in Jobs : status[j] # "absent"}

\* Does a row with this last_error fit into a NOTIFY payload (8000 bytes)?
\* "edge" fits only while locked_at is NULL, whose JSON is the shorter one.
Fits(error, leased) == error \in {"none", "short"} \/ (error = "edge" /\ ~leased)

\* (Mutants: names that begin with Bad are what a bug would make of the
\* definition that follows; nothing uses them but the mutation tests.)
BadDueNoLease(j)   == status[j] \in {"pending", "running"}
BadDueNoExpiry(j)  == status[j] = "pending"

\* The WHERE clause of claim.  available_at is never in the future.
Due(j) ==
  \/ status[j] = "pending"
  \/ status[j] = "running" /\ locked_at[j] = "expired"

BadCandidatesNoLocks == {j \in Jobs : Due(j) /\ attempts[j] < MaxClaims}

\* FOR UPDATE SKIP LOCKED passes over the rows another transaction holds.
Candidates == {j \in Jobs : Due(j) /\ row_lock[j] = Null /\ attempts[j] < MaxClaims}

\* ORDER BY available_at, id LIMIT $8
FirstDue == {j \in Candidates : Cardinality(Candidates \cap ahead[j]) < Limit}

\* A row that gets a new available_at goes behind all the others.
MoveToEnd(order, j) ==
  [k \in Jobs |-> IF k = j THEN Submitted \ {j} ELSE order[k] \ {j}]

-----------------------------------------------------------------------------
Init ==
  /\ status = [j \in Jobs |-> "absent"]
  /\ attempts = [j \in Jobs |-> 0]
  /\ locked_at = [j \in Jobs |-> "null"]
  /\ done_at = [j \in Jobs |-> FALSE]
  /\ last_error = [j \in Jobs |-> "none"]
  /\ ahead = [j \in Jobs |-> {}]
  /\ row_lock = [j \in Jobs |-> Null]
  /\ pc = [w \in Workers |-> "idle"]
  /\ batch = [w \in Workers |-> {}]
  /\ job = [w \in Workers |-> Null]
  /\ outcome = [w \in Workers |-> "none"]
  /\ seen = [w \in Workers |-> 0]
  /\ aborted = [w \in Workers |-> FALSE]
  /\ succeeded = {}
  /\ crashes = 0

(* A request inserts a row and commits: one statement, one transaction.    *)
Append(j) ==
  /\ status[j] = "absent"
  /\ status' = [status EXCEPT ![j] = "pending"]
  /\ ahead' = MoveToEnd(ahead, j)
  /\ UNCHANGED <<attempts, locked_at, done_at, last_error, row_lock, pc, locals, history>>

-----------------------------------------------------------------------------
(* The first transaction of poll: claim a batch.                           *)

\* The UPDATE runs and its rows stay locked.  A NOTIFY that does not fit is
\* swallowed by notify, but the transaction has failed in the server.
Claim(w) ==
  /\ pc[w] = "idle"
  /\ pc' = [pc EXCEPT ![w] = "claiming"]
  /\ batch' = [batch EXCEPT ![w] = FirstDue]
  /\ row_lock' = [j \in Jobs |-> IF j \in FirstDue THEN w ELSE row_lock[j]]
  /\ aborted' = [aborted EXCEPT ![w] = \E j \in FirstDue : ~Fits(last_error[j], TRUE)]
  /\ UNCHANGED <<row, job, outcome, seen, history>>

\* COMMIT of a failed transaction is a ROLLBACK and raises nothing.
Claimed(w) == IF aborted[w] THEN {} ELSE batch[w]

\* The jobs are dispatched whether or not the claim became durable.
ClaimCommit(w) ==
  /\ pc[w] = "claiming"
  /\ status' = [j \in Jobs |-> IF j \in Claimed(w) THEN "running" ELSE status[j]]
  /\ attempts' = [j \in Jobs |-> IF j \in Claimed(w) THEN attempts[j] + 1 ELSE attempts[j]]
  /\ locked_at' = [j \in Jobs |-> IF j \in Claimed(w) THEN "held" ELSE locked_at[j]]
  /\ row_lock' = [j \in Jobs |-> IF row_lock[j] = w THEN Null ELSE row_lock[j]]
  /\ pc' = [pc EXCEPT ![w] = IF batch[w] = {} THEN "idle" ELSE "ready"]
  /\ aborted' = [aborted EXCEPT ![w] = FALSE]
  /\ UNCHANGED <<done_at, last_error, ahead, batch, job, outcome, seen, history>>

-----------------------------------------------------------------------------
(* The loop over the claimed jobs, in the order RETURNING happens to give. *)

Dispatch(w) ==
  /\ pc[w] = "ready"
  /\ \E j \in batch[w] :
       /\ job' = [job EXCEPT ![w] = j]
       /\ batch' = [batch EXCEPT ![w] = @ \ {j}]
  /\ pc' = [pc EXCEPT ![w] = "running"]
  /\ UNCHANGED <<row, row_lock, outcome, seen, aborted, history>>

HandlerReturns(w) ==
  /\ pc[w] = "running"
  /\ outcome' = [outcome EXCEPT ![w] = "ok"]
  /\ succeeded' = succeeded \cup {job[w]}
  /\ pc' = [pc EXCEPT ![w] = "mark"]
  /\ UNCHANGED <<row, row_lock, batch, job, seen, aborted, crashes>>

\* Any Exception: of the handler, of a missing handler, of a bad payload.
HandlerRaises(w, error) ==
  /\ pc[w] = "running"
  /\ outcome' = [outcome EXCEPT ![w] = error]
  /\ pc' = [pc EXCEPT ![w] = "mark"]
  /\ UNCHANGED <<row, row_lock, batch, job, seen, aborted, history>>

-----------------------------------------------------------------------------
(* The second transaction of poll: mark one job.                           *)

\* mark first reads the row with a plain SELECT and keeps its attempts.
MarkRead(w) ==
  /\ pc[w] = "mark"
  /\ seen' = [seen EXCEPT ![w] = attempts[job[w]]]
  /\ pc' = [pc EXCEPT ![w] = "write"]
  /\ UNCHANGED <<row, row_lock, batch, job, outcome, aborted, history>>

BadNextStatusOneMore(w) ==
  IF outcome[w] = "ok" THEN "done" ELSE IF seen[w] > MaxAttempts THEN "failed" ELSE "pending"
BadNextStatusOneLess(w) ==
  IF outcome[w] = "ok" THEN "done" ELSE IF seen[w] + 1 >= MaxAttempts THEN "failed" ELSE "pending"
BadNextStatusSwapped(w) ==
  IF outcome[w] = "ok" THEN "done" ELSE outcome[w]
BadNextStatusAlwaysDone(w) ==
  IF outcome[w] = "ok" \/ seen[w] >= MaxAttempts THEN "done" ELSE "pending"

\* What mark decides, from the outcome and the attempts it has read.
NextStatus(w) ==
  IF outcome[w] = "ok" THEN "done"
  ELSE IF seen[w] >= MaxAttempts THEN "failed"
  ELSE "pending"

NextError(w) == IF outcome[w] = "ok" THEN "none" ELSE outcome[w]

\* Each of the three UPDATEs gives the lease up.
BadNextLease(w) == IF NextStatus(w) = "pending" THEN locked_at[job[w]] ELSE "null"
NextLease(w)    == "null"

\* The UPDATE waits for the row lock and does not look at the row again.
MarkWrite(w) ==
  /\ pc[w] = "write"
  /\ row_lock[job[w]] = Null
  /\ row_lock' = [row_lock EXCEPT ![job[w]] = w]
  /\ aborted' = [aborted EXCEPT ![w] = ~Fits(NextError(w), FALSE)]
  /\ pc' = [pc EXCEPT ![w] = "commit"]
  /\ UNCHANGED <<row, batch, job, outcome, seen, history>>

Marked(w) == IF aborted[w] THEN {} ELSE {job[w]}

MarkCommit(w) ==
  /\ pc[w] = "commit"
  /\ status' = [j \in Jobs |-> IF j \in Marked(w) THEN NextStatus(w) ELSE status[j]]
  /\ locked_at' = [j \in Jobs |-> IF j \in Marked(w) THEN NextLease(w) ELSE locked_at[j]]
  /\ done_at' = [j \in Jobs |-> done_at[j] \/ (j \in Marked(w) /\ NextStatus(w) = "done")]
  /\ last_error' = [j \in Jobs |-> IF j \in Marked(w) THEN NextError(w) ELSE last_error[j]]
  /\ ahead' = IF Marked(w) # {} /\ NextStatus(w) = "pending"
                THEN MoveToEnd(ahead, job[w]) ELSE ahead
  /\ row_lock' = [row_lock EXCEPT ![job[w]] = Null]
  /\ pc' = [pc EXCEPT ![w] = IF batch[w] = {} THEN "idle" ELSE "ready"]
  /\ job' = [job EXCEPT ![w] = Null]
  /\ outcome' = [outcome EXCEPT ![w] = "none"]
  /\ seen' = [seen EXCEPT ![w] = 0]
  /\ aborted' = [aborted EXCEPT ![w] = FALSE]
  /\ UNCHANGED <<attempts, batch, history>>

-----------------------------------------------------------------------------
(* The environment.                                                        *)

\* A worker dies anywhere in poll, or poll lets an exception of the database
\* through, and a new process takes its place.  The server rolls its open
\* transaction back and frees its row locks; nothing else is undone.
Crash(w) ==
  /\ pc[w] # "idle"
  /\ crashes < MaxCrashes
  /\ crashes' = crashes + 1
  /\ row_lock' = [j \in Jobs |-> IF row_lock[j] = w THEN Null ELSE row_lock[j]]
  /\ pc' = [pc EXCEPT ![w] = "idle"]
  /\ batch' = [batch EXCEPT ![w] = {}]
  /\ job' = [job EXCEPT ![w] = Null]
  /\ outcome' = [outcome EXCEPT ![w] = "none"]
  /\ seen' = [seen EXCEPT ![w] = 0]
  /\ aborted' = [aborted EXCEPT ![w] = FALSE]
  /\ UNCHANGED <<row, succeeded>>

\* The jobs a worker has claimed and not yet marked.
Held(w) == IF pc[w] = "claiming" THEN {} ELSE batch[w] \cup ({job[w]} \ {Null})

\* claim_timeout_seconds have passed since the row was claimed.  Without
\* Overrun every claimed batch is worked off within that time.
Expire(j) ==
  /\ status[j] = "running"
  /\ locked_at[j] = "held"
  /\ Overrun \/ \A w \in Workers : j \notin Held(w)
  /\ locked_at' = [locked_at EXCEPT ![j] = "expired"]
  /\ UNCHANGED <<status, attempts, done_at, last_error, ahead, row_lock, pc, locals, history>>

-----------------------------------------------------------------------------
Poll(w) ==
  \/ Claim(w)
  \/ ClaimCommit(w)
  \/ Dispatch(w)
  \/ HandlerReturns(w)
  \/ \E error \in Errors : HandlerRaises(w, error)
  \/ MarkRead(w)
  \/ MarkWrite(w)
  \/ MarkCommit(w)

Next ==
  \/ \E j \in Jobs : Append(j) \/ Expire(j)
  \/ \E w \in Workers : Poll(w) \/ Crash(w)

\* Every worker keeps polling (main starts it, run loops for ever, handlers
\* end) and time passes.  Nobody has to submit a job, nobody has to crash.
Fairness ==
  /\ \A w \in Workers : WF_vars(Poll(w))
  /\ \A j \in Jobs : WF_vars(Expire(j))

Spec     == Init /\ [][Next]_vars
FairSpec == Spec /\ Fairness

-----------------------------------------------------------------------------
(* What the variables may hold.                                            *)
TypeOK ==
  /\ status \in [Jobs -> {"absent", "pending", "running"} \cup Terminal]
  /\ attempts \in [Jobs -> Nat]
  /\ locked_at \in [Jobs -> {"null", "held", "expired"}]
  /\ done_at \in [Jobs -> BOOLEAN]
  /\ last_error \in [Jobs -> {"none"} \cup Errors]
  /\ ahead \in [Jobs -> SUBSET Jobs]
  /\ row_lock \in [Jobs -> Workers \cup {Null}]
  /\ pc \in [Workers -> {"idle", "claiming", "ready", "running", "mark", "write", "commit"}]
  /\ batch \in [Workers -> SUBSET Jobs]
  /\ job \in [Workers -> Jobs \cup {Null}]
  /\ outcome \in [Workers -> {"none", "ok"} \cup Errors]
  /\ seen \in [Workers -> Nat]
  /\ aborted \in [Workers -> BOOLEAN]
  /\ succeeded \in SUBSET Jobs
  /\ crashes \in 0 .. MaxCrashes

(* Properties of every build and every schedule.                           *)

\* A row has a locked_at exactly while it is running: a running row without
\* one would never match locked_at <= cutoff in claim again and stay running
\* for ever; a pending row with one would be reported as started.
LeaseIffRunning ==
  \A j \in Jobs : status[j] = "running" <=> locked_at[j] # "null"

\* No job is reported done unless some handler run for it has returned,
\* however claims, late marks, doomed transactions and crashes interleave.
DoneMeansHandled ==
  \A j \in Jobs : status[j] = "done" \/ done_at[j] => j \in succeeded

\* mark gives a job up only after all of its attempts were durably counted,
\* even when the attempts it has read are out of date.
FailedMeansExhausted ==
  \A j \in Jobs : status[j] = "failed" => attempts[j] >= MaxAttempts

\* A finished job never goes back: no late mark and no claim changes a row
\* once a client may have been told that the job is done or failed.
TerminalIsFinal ==
  [][\A j \in Jobs : status[j] \in Terminal => status'[j] = status[j]]_vars

(* Properties that need the lease to outlive its holder, or a lone worker, *)
(* and errors that fit into every NOTIFY.                                  *)
Exclusive   == ~Overrun \/ \A v, w \in Workers : v = w
ShortErrors == Errors \subseteq {"short"}

\* Two workers never work on one job at a time: claims exclude each other
\* and a lease is handed on only when its holder is gone.
SingleHolder ==
  \A v, w \in Workers : v # w => Held(v) \cap Held(w) = {}

\* What a worker holds is durably claimed for as long as it holds it.
HeldIsRunning ==
  \A w \in Workers : \A j \in Held(w) : status[j] = "running"

\* The attempts mark has read are still the row's attempts when it writes.
MarkDecidesOnFreshAttempts ==
  \A w \in Workers : pc[w] \in {"write", "commit"} => seen[w] = attempts[job[w]]

\* A job waiting for a retry has an attempt left, and each attempt beyond
\* max_attempts is the fault of a worker that died holding the job: claim
\* itself never compares attempts with max_attempts.
RetryBudget ==
  \A j \in Jobs :
    /\ status[j] = "pending" => attempts[j] < MaxAttempts
    /\ attempts[j] <= MaxAttempts + crashes

\* A job is finished (has a done_at) exactly while it is done.
FinishedIffDone ==
  \A j \in Jobs : status[j] = "done" <=> done_at[j]

\* Every submitted job ends up done or failed, whatever its handler raises
\* and although workers crash with it in their hands.
EveryJobEnds ==
  \A j \in Jobs : status[j] = "pending" ~> status[j] \in Terminal

(* The outbox as its clients see it: every step of the workers is a step   *)
(* of the abstract life cycle of the jobs, or none.                        *)
Lifecycle == INSTANCE JobLifecycle WITH handled <- succeeded

\* The workers implement the life cycle: a row leaves "running" only to
\* done after a handler run that returned, to pending with an attempt left,
\* or to failed without one, whatever crashes and claims come in between.
ImplementsLifecycle == Lifecycle!Spec

(* What a commit promises.                                                 *)

\* "Commit all staged repository changes atomically": after a mark commits
\* without an error, the row has the status mark has written.
CommitIsDurable ==
  [][\A w \in Workers : pc[w] = "commit" /\ pc'[w] # "commit" /\ crashes' = crashes =>
       status'[job[w]] = NextStatus(w)]_vars
=============================================================================
