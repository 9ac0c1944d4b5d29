# Verification of the template application

The application is a FastAPI service with a transactional outbox on PostgreSQL:
a request stores a job in one transaction, a worker process claims it under a
lease, runs its handler and marks the result, and clients follow the job over
HTTP or a websocket.  This directory holds TLA+ modules translated from that
code (paths below are relative to `src/src/` unless they say otherwise), the
TLC configurations that check them, and TLAPS proofs about every component.
`PROJECT.json` maps every definition to the lines it models.

## 1. Inventory

| Component | State it keeps | Operations | Talks to |
|---|---|---|---|
| Outbox repository, `infrastructure/persistence/repository/outbox.py`, table in `migrations/versions/0001_create_outbox.sql` | rows: status, attempts, locked_at, done_at, last_error, available_at, idempotency_key | `append`, `get`, `due` (no caller), `claim`, `mark`, `notify` | unit of work, NOTIFY channel |
| Outbox runner and worker, `application/services/outbox.py`, `application/app.py`, `presentation/worker/app.py` | claimed jobs of one poll (local), registered handlers, counters | `poll`, `run`/`daemon`, `dispatch`, `register` | repository, handlers, metrics |
| Job status stream, websocket in `presentation/api/routes/jobs.py` | LISTEN connection, asyncio queue, socket | subscribe, snapshot, forward, close | database, `get_job_status` |
| Unit of work and pool, `infrastructure/persistence/{uow,database}.py` | `pool_cache`, connections, transaction | enter, exit, commit, rollback, `pool`, `connection`, `close` | asyncpg |
| Enqueue, `application/usecases/heartbeat.py`, POST `/jobs/heartbeat`, `/admin/heartbeat` | none | append one job and commit | repository |
| Job routes and access, `presentation/api/{dependencies,app}.py`, `routes/jobs.py` GET | none | 401/403/404/202/200 | token verifier, repository |
| Bearer tokens, `infrastructure/auth/keycloak.py`, `application/usecases/auth.py` | key cache of the JWT library | verify, require a role | identity provider |
| Browser login and admin page, `presentation/htmx/routes/{auth,admin}.py`, `presentation/htmx/security.py`, `utils/signing.py` | state cookie, session cookie (both in the browser) | login, callback, verify, logout, `/admin`, `/admin/heartbeat` | identity provider, verifier, enqueue |
| Migrations, `infrastructure/persistence/migrations.py` | `schema_migrations`, `alembic_version` | order, upgrade, seed, revision | database |
| Launcher, `main.py` | three processes | start, wait for the first exit, stop all | the services |
| Event registry, `domain/event.py`, `domain/entity.py` | `REGISTRY`, handlers | register, look up | runner |
| Metrics, configuration, logging, HTMX pages | - | - | - |

What is hard here, and what makes each component correct:

* **Outbox.**  Several workers share one table; only row locks, `SKIP LOCKED`
  and the lease keep them apart.  A worker may die between claim, dispatch and
  mark, or be late; `mark` reads attempts in one statement and writes in
  another without looking at the lease; a failed NOTIFY is swallowed although
  it has failed the transaction.  Correct: one holder per job, retries bounded
  by attempts, finished jobs final, no running row without a lease, every job
  ends.
* **Stream.**  The job changes between LISTEN, the snapshot and the queue; the
  read of the snapshot may raise, and nobody tells the loop that its LISTEN
  connection has broken.  Correct: while it hears no update is lost, the end is
  told, nothing is closed before it.
* **Pool.**  `pool()` awaits between looking at the cache and setting it, a
  stream needs two connections, `__aexit__` does not run if `__aenter__`
  raises.  Correct: no connection is lost, everyone who waits is served.  (Both
  fail, see 5; what still holds is `Conserved`, `RequestsEnd` and
  `SecondConnectionComes`.)
* **Enqueue.**  Answers get lost and callers ask again, alone or concurrently.
  Correct: one job per key, no acceptance without a stored job.
* **Login and access.**  Tabs share one state cookie, pages are reloaded, the
  verifier caches keys that the provider replaces, and the session cookie keeps
  a role that the provider has revoked.  Correct: a login fails only for a
  cause, a state is used once, a revoked role is lost in the end.
* **Migrations.**  Two upgrades race, or one dies half-way, or files appear,
  of any time and anywhere in the order, or overwrite each other after a process
  has loaded them.  Correct: each migration takes effect once, parents first, or
  the chain is refused; old and new processes agree on the order.
* **Launcher.**  `main` joins its services without a timeout; a surface waits
  for its streams and its pool for connections that may be lost; services end
  at nearly the same time, and Ctrl-C reaches them all at once, perhaps while
  `main` is stopping them already.  Correct: one failure ends the program, with
  the exit code of what failed, and `main` joins nobody who goes on serving.

`PROJECT.json` lists each hazard at its line with the properties that watch it.

## 2. Plan

1. `JobLifecycle`, `Outbox`: the promise to the clients and the workers that
   keep it; proofs in `OutboxProofs`.                                   *done*
2. `JobStream` (composed with `JobLifecycle`), `ConnectionPool`.         *done*
3. `Migrations`, `Login`, `Enqueue`, `OutboxMetrics`.                    *done*
4. `Launcher` (composed with `ConnectionPool`), `Access` (composed with
   `Login`), new migration files and `revision`.                         *done*
5. Proofs of the safety properties of all of them, module by module.     *done*
6. `LateLifecycle`, what the workers implement even when leases expire under
   them; `AttemptsAreCounted`, a sum over a set; that upgrades do not deadlock;
   the safety core of the liveness of `ConnectionPool` and `Launcher`.    *done*
7. Failures of a stream, Ctrl-C during `stop()`, files from elsewhere.   *done*
8. Left: the script of the admin page, whose old socket can close a new one.

## 3. Modules

**`JobLifecycle`** is the abstract specification: absent, pending, running,
done, failed, with attempts and the set of jobs whose handler has returned.  A
job leaves *running* to done after a handler that returned, to pending with an
attempt left, or to failed without one.  It has no workers.
**`LateLifecycle`** is what remains of it when workers may be late: new jobs
and claims as before, but a late worker may mark whatever has become of the job
since (`LateComplete`, `LateRetry`, `LateGiveUp` ask only for the handler run
or the attempts).

**`Outbox`** is the worker side in detail.  A row is one function per column;
timestamps are reduced to what the queries compare: `locked_at` is null, held
or expired, and `ahead[j]` is the set of rows that `ORDER BY available_at, id`
puts before `j`.  `row_lock` is the PostgreSQL lock of an open transaction.
Each transaction of `poll` is cut where another process or a crash can come
between: `Claim`/`ClaimCommit` (first transaction), `Dispatch`,
`HandlerReturns`/`HandlerRaises`, `MarkRead` (the SELECT of `mark`),
`MarkWrite` (its UPDATE, which waits for the row lock), `MarkCommit`.  `Crash`
is the death of a worker anywhere, or an exception that leaves `poll`; `Expire`
is the passing of `claim_timeout_seconds`.  An error text is only its size:
*short* always fits into a NOTIFY payload, *edge* fits only while `locked_at`
is null, *long* never does.  A NOTIFY that does not fit marks the transaction
`aborted`; its COMMIT is then a rollback that raises nothing, which is what
PostgreSQL does and what `notify` hides.

**`OutboxMetrics`** extends `Outbox` with `outbox_jobs_total`, added up over
all worker processes, dead ones included.  `AttemptsAreCounted` is what it
counts, `CountsTerminalOutcomes` what the documents say it counts.

**`JobStream`** composes the websocket handler with `JobLifecycle`: a step that
changes a row appends it to the queue of every listening stream, since a NOTIFY
is delivered at commit.  The stream's steps are LISTEN (`Connect`), the read
of the snapshot over a second connection (`ReadRow`), its sending, and the
loop, with clients that may leave at any time; the handler notices that only
when it sends.  `Refused` stands for whatever keeps a client from subscribing:
`require` (`dependencies.py:17-52`, through FastAPI's `HTTPBearer`, which may
itself fail on a websocket) or a pool without a connection.  `ReadFails` is any
exception of `get_job_status` but `JobNotFound`, which ends the stream;
`ListenBreaks` is the end of the connection that `add_listener` was called on,
together with what it had not delivered: the stream is `deaf` and waits on.

**`ConnectionPool`** has the tasks of one event loop, cut at the awaits that
suspend: creation of the pool, `acquire`, `start`, use, `__aexit__`.  A stream
is a task that holds `outer` (LISTEN) while it opens a unit of work (`active`).

**`Launcher`** composes that API with `main.py` and the other two services.  A
service starts, serves, drains (uvicorn, after a signal), closes its pool
(`App.close`) and has ended; the tasks of the API are served out while it
drains, `Pool.close` waits for every connection of the cached pool, and the
pool and its tasks end with the process.  `Wait` is `wait` of `main`,
`Terminate`, `AllTerminated` and `Join` are `stop`, `Interrupt` is the Ctrl-C
that all processes get.  It may come while `main` waits, upon which `main`
stops the services, or at any time of `stop()`, which is then left before
every service has been terminated (`leaving`): the exit handler of
`multiprocessing` joins them.  A surface that drains already gives up its
tasks on Ctrl-C.  Of the other services only a lost connection is kept
(`lost`).

**`Enqueue`** is `append` under the unique index of `idempotency_key`: an
INSERT waits for an open transaction with the same key, then collides or goes
on; a connection may break, under COMMIT too, and an answer may get lost.

**`Migrations`** has the loop of `migrations()` over *every* assignment of
`down_revision` (`Ready` are the files whose dependency is there, `Round` takes
the lowest of them, `OrderOf` repeats that until nothing is ready), the steps
of `upgrade` in concurrent processes (creating the table, seeding from
`alembic_version` row by row, executing, recording), and the files, which
change between these steps, so that a process works off another list than the
next one.  `NewFile` is `revision`; `Overwrite` is a second `revision` with the
same slug in the same second, which takes the place of the first file and names
it as its own down_revision, so that nothing loads any more; `AddFile` is a
file from elsewhere (a merge, a text editor), of any revision and after any
other; `Duplicate` is one whose revision is taken.  The only assumption on the
order of times is `Overwrite`'s: within that one second the first file is still
the last and the latest.  Otherwise files are not edited, renamed or removed.
An INSERT waits for an open transaction that has inserted the same row; what a
migration's own SQL locks is left out.

**`Login`** has several tabs, the two cookies, and the provider's codes, which
can be exchanged once.  A cookie is read when a request is sent and changes
when its response arrives.  Pages are reloaded and left, cookies expire, and
the provider may redirect with an error and without a code
(`CallbackWithoutCode`), which `verify_callback` refuses before it looks at the
state, deleting the state cookie all the same.

**`Access`** extends it with what a login is good for: `TokenExchange` gives a
token with the provider's key and the roles of that moment, `VerifyToken` asks
the process's key cache (`jwks`), which other requests fill and overwrite, for
that key; the roles of the token go into the session, which alone admits to the
admin page (`Admits`).  Its request for a job makes the same check and is a
request of `Enqueue`.

The modules `MC*` give constants their model values and symmetry sets.
Operators whose names begin with `Bad` are mutants: each is what a plausible
bug would make of the definition that follows it.  No specification uses them;
put in that definition's place, each makes TLC report the property listed with
it in `PROJECT.json`, so that no property holds vacuously.

## 4. What the runs check

| Run | Instance | Shows |
|---|---|---|
| `outbox_leases` | 3 jobs, 2 workers, LIMIT 2, 2 attempts, 2 crashes, leases outlive holders | `SingleHolder`, `MarkDecidesOnFreshAttempts`, `RetryBudget`, `FinishedIffDone`, `LeaseIffRunning`, `DoneMeansHandled`, `FailedMeansExhausted`, and that the workers implement `JobLifecycle`, whose finished jobs stay finished |
| `outbox_liveness` | 2 jobs, 2 workers, LIMIT 1, 2 crashes, with the counter | every job ends, though failing jobs compete with it; each durable attempt is counted once, retried ones included, and only a crash loses some |
| `outbox_resurrect` | 2 workers, leases expire under them | **violated**: finished jobs stay finished |
| `outbox_doomed` | 1 worker, *long* errors | **violated**: a commit without an error is durable |
| `metrics_terminal` | as `outbox_liveness`, without crashes and fairness | **violated**: the counter counts terminal outcomes |
| `stream` | 2 jobs, a stream of one of them; 2 deliveries of that, 1 of the other | no update around the snapshot is lost, what the client sees goes back at most at the first update after the snapshot, a stream is closed only with the final status, a client that stays is told the end; unless the read of the row fails or LISTEN breaks |
| `pool_race` | API and worker, 1 request, 2 streams, 2 connections, 2 pools, `start` may raise, one Ctrl-C at any time | every connection is free, lost or held by one holder; a request ends and a stream gets its second connection unless for ever all connections of their pool are lost or listened on; one failure ends the program, with the culprit's code, unless a stream, a connection lost to the pool in use or an exhausted pool holds it up; whom `main` joins does not go on serving |
| `pool_leak` | 2 requests race for the first pool | **violated**: no connection is lost |
| `pool_exhausted` | 2 streams, 2 connections | **violated**: the current status is sent |
| `enqueue` | 3 callers, one key or none, 2 tries | one job per key; accepted is stored; a refusal has a winner; requests never wait in a circle |
| `migrations` | all graphs of 3 revisions, of which some appear or are overwritten while upgrades run, no predecessor or one anywhere in the graph, 2 upgrades, any target | once each, parents first, target reached, refused exactly when not rooted, two processes agree on the order of what both have loaded, no deadlock |
| `login` | 2 tabs, 3 logins, 2 keys, a role that comes and goes | failures have causes (the key cache is none), states are spent, a role revoked for good is lost in the end |

**Bounds.**  Three jobs with LIMIT 2 are the fewest for which a claim leaves a
due row behind; two workers are the fewest that can race, and no action of the
outbox involves more than two.  With `MaxAttempts` = 2 a job has a retry and a
last attempt; `MaxClaims` stops the model from claiming a row again, and is one
above `MaxAttempts + MaxCrashes`, so that it never hides an overrun of the
budget that `RetryBudget` forbids.  Two crashes cover a worker that takes over
from a crashed one and crashes too.  Streams do not interact, so that one is
enough; it shares the channel with a job it does not follow, which needs no
more than one delivery (`Deliveries`) to be told apart.  A request and two
streams on two connections contain every case of the starvation that
`RequestsEnd` and `SecondConnectionComes` speak of: no stream, one, or as many
as connections, with none, one or both connections lost, in one pool or two.
API and worker are the two kinds of service; HTMX is another surface without
tasks, and in the proofs only.  Three callers make a queue behind one open
transaction.  Three logins in two tabs let each tab be overtaken and come back;
two keys are one rotation, with the old key published or withdrawn.
`MaxDeliveries`, `MaxConnects`, `MaxPools`, `MaxTries`, `MaxLogins`, `MaxKeys`
cap counters in the same way.  Three revisions contain a chain, a fork, several
roots, a cycle with a tail and a self-loop; the set of revisions also bounds
the files that can appear, and the predecessor's revision is none or 2
(`Legacies`), which the graphs put at any place, and which need not exist.  The
proofs are for every value of these constants; that jobs and workers
(`MetricsAssumption`), tasks and revisions are finite sets is assumed where
they are counted, added up or put in order.

**Assumptions on constants that stand for configuration.**  `Overrun = FALSE`
says that a worker is through with its batch before `claim_timeout_seconds`
have passed since the claim.  The code does not enforce it.  By default a batch
of 100 heartbeat jobs of 3 seconds each takes as long as the 300 seconds of the
timeout, because leases are taken at once and never renewed;
`outbox_resurrect` shows what happens then.  `Errors = {"short"}` says that
handlers raise short messages; `outbox_doomed` shows the contrary.  `Staggered`
says that the first pool is complete before a second task needs one.

**Fairness.**  `Poll(w)` is weakly fair because `daemon` loops for ever, the
database answers and handlers end; a crashed worker counts as replaced (the
operator restarts the service; `main.py` does not).  `Expire(j)` is weakly fair
because time passes.  In `JobStream` the event loop runs every handler that can
go on.  In `ConnectionPool`, `Acquire` is strongly fair because asyncpg serves
its waiters first in, first out; `Launcher` adds that `main` and the services
go on whenever they can, and `FailureStopsAll` exempts what they then wait for
without a timeout (`Held`): a stream whose client stays, a connection lost to
the pool that `close()` is called on, a task at a pool all of whose connections
are lost or listened on.  In `Enqueue` the server finishes what it has begun.
In `Access` only the browser has to do something, to drop the session cookie
when its `max_age` (`security.py:26-46`) is over.  Nobody has to submit, to
connect, to leave, to crash, to end a stream, to stop a service or to ask
again.  With finitely many tries, `RequestsEnd` of `Enqueue` speaks of waiting
in a circle, not of starvation by endlessly many others.

## 5. Disagreements found

* `outbox_resurrect`: `mark` updates by id alone.  A worker whose lease has
  passed to another marks its job when that one has finished it: done becomes
  pending (with `done_at` still set), and the job runs again after clients were
  told that it was done.  `core.py:85` says "Move one *claimed* job".
* `outbox_doomed`: `last_error = str(exc)` goes into the NOTIFY payload, which
  PostgreSQL limits to 8000 bytes.  The error of `pg_notify` is caught, the
  transaction is failed, and commit stores nothing: the job stays running until
  its lease expires and is tried again, beyond `max_attempts` and without end
  if the handler always raises it; a row whose stored error just fits is
  dispatched on a claim that was never stored.
* `pool_leak`: two first callers create two pools; the connection of the first
  is released to the second, which refuses it, and only a log line remains.
* `pool_exhausted`: as many streams as the pool has connections wait for ever
  for the second connection each of them needs.
* `metrics_terminal`: the counter that `docs/architecture.md:429` says "counts
  terminal job outcomes (`done`/`failed`)", and `services/outbox.py:18` says is
  "labelled by terminal result", counts a failure for every attempt that raises,
  also when the job is retried and done in the end.  `AttemptsAreCounted` states
  what it really counts.
* Two more, read off the code and without a run.  `append` is a plain INSERT: a
  taken idempotency key is an exception for the caller, although
  `docs/architecture.md:712` says that duplicates "collapse to one durable job"
  and `core.py:59` says "insert or revive".  The websocket route depends on
  `require` (`jobs.py:106`) and so on a bearer token, which neither
  `tests/test_heartbeat_integration.py:106-122` nor the script of the admin
  page sends (a browser cannot), although the one expects a status and
  `docs/architecture.md` describes the other as a client of that route; in
  `JobStream` such a client is `Refused`, and all that is claimed of streams is
  claimed of those that `Connect`.
* Three things about migrations that no text denies, and that `Migrations`
  therefore has as they are: seeding marks everything before the legacy
  revision in the order as applied, on a fork also what is not its ancestor
  (`Seeds`); two files made in one second give every later load a duplicate
  revision (`Duplicate`), or, with one slug, a file that depends on itself
  (`Overwrite`), and in both cases nothing can be upgraded any more; a message
  of several lines ends the header of the new file before its down_revision, so
  that it is read as a root (`NewFile`).

## 6. What is proved

Every safety property of a passing run is a theorem, for any values of the
constants that satisfy the modules' `ASSUME`s (and, in `OutboxProofs` and
`OutboxMetricsProofs`, the conditions named below).  Each module of proofs has
an inductive invariant, a lemma that the initial states satisfy it, one that
every step keeps it (one step of the proof per action), and the theorems.  Four
theorems state what no run does, because it is what a run's violated or
temporal property leaves over: `RefinesLateLifecycle`, `OnlyLateMarksReopen`,
`NobodyWaitsForStreams`, `ShutdownNeverStalls`.

**`OutboxProofs`**, for any jobs, workers, LIMIT, `max_attempts` and bounds.

* Without further assumptions: `TypeCorrect`, `LeasesMatchStatus`,
  `SuccessIsEarned` (`DoneMeansHandled`), `FailureIsEarned`
  (`FailedMeansExhausted`), `RefinesLateLifecycle` (the workers implement
  `LateLifecycle`), `OnlyLateMarksReopen`.
* Assuming `Exclusive` (leases outlive their holders, or there is one worker)
  and `ShortErrors`: `ClaimsExclude` (`SingleHolder`, and `HeldIsRunning`),
  `RetriesAreBounded`, `MarkIsUpToDate` (`MarkDecidesOnFreshAttempts`),
  `FinishTimes`, `RefinesLifecycle` (the workers implement `JobLifecycle`) and
  its corollary `FinishedJobsStayFinished`.  These two conditions exclude what
  `outbox_resurrect` and `outbox_doomed` show; the code enforces neither.

`AnyInv` adds `AtHand` to the types: which program points have a job at hand,
that "ok" is only set once the handler has returned, and that the attempts
`mark` has read are never too large, because attempts only grow.  This alone
gives the first group.  The second needs `LeaseInv`, since mutual exclusion is
not inductive: `LocksOwned` says which transaction owns which row lock,
`ClaimsAreFree` that a claim in flight is for due rows that nobody holds,
`ExpiredAreFree` that an expired lease is nobody's, `NothingAborted` that no
transaction is doomed, and `BudgetLeft` that a running row without a holder
lost it in a crash, which pays for one more attempt.  `LifecycleStep` maps each
action to a step of `JobLifecycle` or a stutter; `FinishedJobsStayFinished`
follows from the life cycle, in which no step leaves done or failed.

`RefinesLateLifecycle` says how little `outbox_resurrect` and `outbox_doomed`
break: nothing makes a claim of a finished job, a success without a handler run
or a failure without the attempts.  `LateInv` needs `ClaimsAreOpen`: between
UPDATE and COMMIT of a claim its rows stay pending or running, because a late
`mark` waits for the row locks of the claim (`LocksOwned`).  From the same
invariant, `OnlyLateMarksReopen`: a finished job changes its status only when
the mark of a worker that still has it at hand commits, never by a claim, and
it then gets what that worker's own attempt calls for.

**`OutboxMetricsProofs`**: `CounterFollowsAttempts` (`AttemptsAreCounted`),
assuming `ShortErrors` but not `Exclusive`: a job that two workers run has two
attempts and is counted twice.  The property is inductive with `AnyInv`,
`BatchApart` and `NothingAborted`; the work is in the sums, which are folds.
`SumsExist` builds, by the least counterexample among subsets, a function that
adds up every subset, `SumIsFold` identifies it with the fold, and
`SumOfSums`, `SumOfOnes`, `SumOfOne` are the algebra that each action's step
uses (`ClaimCommit` adds one to every claimed row and to the batch at once).

**`JobStreamProofs`**: `StreamTypeCorrect`, `StreamsCatchUp` (`CaughtUp`),
`NewestNotificationIsCurrent`, `ClosedTellsTheEnd`,
`SnapshotAloneMayBeOvertaken` (`BackOnlyAfterSnapshot`).  `Good(s)` is about
one stream.  `Newest`: the last unsent notification of a listening stream is
the row as it is; hence, with `Snapshot` and `Caught`, a stream without unsent
notifications has read, or has sent, the row as it is.  `Ends`: a message with
a final status is the row, for good.  `Rises` and `Older`: what waits is
ordered by age, what was sent is not ahead of it unless it is the snapshot,
whose read may overtake the queue.  `Newest` and `Caught` are about streams
that hear; the others hold of deaf ones, too.

**`ConnectionPoolProofs`**: `PoolTypeCorrect`, `ConnectionsAreConserved`,
`NobodyWaitsForStreams`.  `Conserved` counts holders per pool, and is inductive
only with `Stages` (what a task holds where), `Existing` (nothing comes from a
pool that does not exist) and `Bounded` (tasks that are creating pools have
room for them).  `NobodyWaitsForStreams` is what `RequestsEnd` and
`SecondConnectionComes` rest on: at an empty pool that is not `Exhausted` one
connection is held by a unit of work, which waits for none, and with fewer
streams than connections only losses exhaust a pool.  `pool_exhausted` is what
happens with as many streams.

**`LauncherProofs`**: `LauncherTypeCorrect`, `LauncherConserves` (the pool's
theorem survives the end of its process), `MainLeavesNobody`
(`NobodyIsForgotten`), `MainBlamesTheCulprit`, `ShutdownNeverStalls`.
`MainLeavesNobody` is not about the code of `stop` alone: a Ctrl-C lets `main`
leave it early, and what is then joined unterminated drains, closes or has
ended because the same Ctrl-C reached it.  `Culprits` says that while `main`
waits, whatever has ended has ended of itself, and that the code `main` holds
is that of one of them and not 0; `ExitCodes` that no service is asked for a
code before it has ended, `Sound` that without Ctrl-C only a SIGTERM makes a
surface drain, so that none ends with 0.  `ShutdownNeverStalls` is what
`FailureStopsAll` rests on: from the first failure or Ctrl-C until `main` has
ended, `main`, a service or a task has a step whose guard holds, unless
`Held`.  It needs `Settled` (`NobodyIsForgotten`, and what it says of an ended
`main`), `Orderly` (an API that closes its pool has no task left, so that every
connection its pool waits for is lost or free) and the lemmas of
`NobodyWaitsForStreams`.

**`EnqueueProofs`**: `EnqueueTypeCorrect`, `KeysAreUnique`,
`AcceptedJobsAreStored`, `ConflictsHaveWinners`.  `StagedAlone`: two open
transactions never hold the same key, nor one that is stored.

**`MigrationsProofs`**: `MigrationsTypeCorrect`, `SqlRunsOnce`,
`DependenciesComeFirst`, `SuccessReachesTarget`, `RefusedIffUnrooted`,
`LoadedOrdersAgree` (`OrdersAgree`), `UpgradesNeverDeadlock` (`NoCircle`).
First the recursive functions, by least counterexample (`LeastNumber`,
`AllNumbers`): `OrderIsSound` says that the order lists files without
repetition, each after the one it depends on, `CompleteIffRooted` that it lists
all of them exactly if every chain of dependencies ends, and
`OrdersOfOneGraphAgree` that the orders of two sets of files of one graph agree
on what both have, because the lowest ready file is taken each time and what it
depends on is in both.  `OneGraph` is why that is enough: new files add to the
graph, wherever they sort, and a file that has been overwritten depends
on itself, so that no order is made with it any more and those that have it
follow the graph as it was, or on nothing, and is still the last one.  Then the steps: `Loaded` (what a process has
loaded, each file after the one it depends on), `Session` (how far its
transaction is, and that the dependency of what it has recorded is recorded or
stored), `Apart` (open transactions have inserted different rows, none of them
stored) and `Stored` (`RunsOnce`, `ParentsFirst`).  Last the deadlocks:
`OrderInv` says that each process inserts its rows, seeds and migrations, in
the order it has loaded, so that all it has inserted comes before what it
wants.  As loaded orders agree, there is one order of all files
(`OrderIsWhole`), and the process in a set that wants the last of the rows
wanted there waits for a row whose owner would want a later one, hence for
none.

**`AccessProofs`**: `AccessTypeCorrect`, `LoginsFailForCauses`,
`SpentStatesAreGone`.  `Causes` is the heart: the login of a tab that nothing
has disturbed has its state in the cookie, its code unused and its key still
published.  `Numbered`, `OneStateEach`, `Stages`, `KeysInOrder` and `Earned` say
that states, codes and keys are new when they are made and where they are kept.

Only model-checked: all liveness (`EveryJobEnds`, `EndIsTold`, `RequestsEnd` of
both modules, `SecondConnectionComes`, `FailureStopsAll`,
`RevokedRolesRunOut`), because fairness and ENABLED are outside the prover.
For those of the pool and the launcher, `NobodyWaitsForStreams` and
`ShutdownNeverStalls` prove that nothing is ever stuck; that what can go on
does, and comes to an end, is the runs' part.

## 7. Not modelled

* Job routes: GET is one read, answered 202, 200 or 404; `require` decides 401
  or 403 from the token alone; POST is `Enqueue`.  They keep no state.  What the
  API's verifier shares with the login, the cache of keys, is in `Access`.
* The script of the admin page: its old socket's close event, handled after a
  new one was opened, forgets the new one
  (`presentation/htmx/templates/admin/index.html:136-149`).
* Which clients `require` refuses, and whether it works on a websocket at all
  (see 5): `Refused` and `Connect` are both possible for everybody.  How long a
  revoked role lives on in the session cookie (8 hours by default): time is
  only that it ends.  Clock skew between provider and verifier counts as a
  failure of the provider.
* Death of `main` itself and a second Ctrl-C; the first one may come at any
  time.
* `due` and `OutboxRunner.run`'s twin of `daemon`: `due` has no caller.
* The registration of events and handlers, once at import; what can go wrong
  with it at run time is an exception of `HandlerRaises`.
* The payload and its clamp in `RequestHeartbeatUseCase`; signing and contents
  of cookies; wording of errors.
* Metrics exposition, configuration, logging and pages: reading and formatting.
* PostgreSQL, asyncpg, uvicorn, the browser and the identity provider are
  modelled only by how the code uses them: READ COMMITTED, row locks and SKIP
  LOCKED, waiting on unique keys, NOTIFY at commit, FIFO waiters of the pool,
  draining on a signal, one-time codes.
