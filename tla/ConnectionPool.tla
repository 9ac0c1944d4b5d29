--------------------------- MODULE ConnectionPool ---------------------------
(***************************************************************************)
(* The database connections of one process (AsyncpgDatabase) and the tasks *)
(* of its event loop that borrow them: units of work (AsyncpgUnitOfWork)   *)
(* and status streams, which keep one connection for LISTEN while they     *)
(* open a unit of work for the first status.  A task runs from one await   *)
(* that suspends to the next in one step.                                  *)
(***************************************************************************)
EXTENDS Naturals, FiniteSets

CONSTANTS
  Requests,    \* tasks that run one unit of work after the other
  Streams,     \* tasks that serve one status stream after the other
  PoolSize,    \* max_size of a pool (asyncpg's default, 10)
  MaxPools,    \* bound: the pools a process creates
  Staggered,   \* is the first pool complete before a second task needs one?
  StartFaults, \* may transaction.start() raise on a live connection?
  Null         \* no pool

ASSUME PoolAssumption ==
  /\ PoolSize \in Nat \ {0}
  /\ MaxPools \in Nat \ {0}
  /\ Staggered \in BOOLEAN
  /\ StartFaults \in BOOLEAN
  /\ Null \notin Nat
  /\ Requests \cap Streams = {}
  /\ IsFiniteSet(Requests)
  /\ IsFiniteSet(Streams)

Tasks == Requests \cup Streams
Pools == 1 .. MaxPools

VARIABLES
  pool_cache,  \* AsyncpgDatabase.pool_cache
  pools,       \* how many pools have been created
  free,        \* the connections a pool can hand out
  leaked,      \* the connections a pool will never see again
  pc,          \* where a task is suspended
  via,         \* the pool whose acquire it is in
  outer,       \* the pool of the connection a stream listens on
  active       \* the pool of the connection of its unit of work

vars == <<pool_cache, pools, free, leaked, pc, via, outer, active>>

Init ==
  /\ pool_cache = Null
  /\ pools = 0
  /\ free = [p \in Pools |-> 0]
  /\ leaked = [p \in Pools |-> 0]
  /\ pc = [t \in Tasks |-> "idle"]
  /\ via = [t \in Tasks |-> Null]
  /\ outer = [t \in Tasks |-> Null]
  /\ active = [t \in Tasks |-> Null]

-----------------------------------------------------------------------------
(* AsyncpgDatabase.pool and Pool.acquire                                   *)

\* With a pool in the cache, pool() does not suspend and acquire is next.
Lookup(t) ==
  /\ pc' = [pc EXCEPT ![t] = IF pool_cache = Null THEN "creating" ELSE "acquiring"]
  /\ via' = [via EXCEPT ![t] = pool_cache]

Creating == {t \in Tasks : pc[t] = "creating"}

\* A request opens a unit of work, or a stream its own connection.
Begin(t) ==
  /\ pc[t] = "idle"
  /\ Staggered => Creating = {}
  /\ pools + Cardinality(Creating) < MaxPools \/ pool_cache # Null
  /\ Lookup(t)
  /\ UNCHANGED <<pool_cache, pools, free, leaked, outer, active>>

\* create_pool returns; the cache is set without another look at it.
Created(t) ==
  /\ pc[t] = "creating"
  /\ pools' = pools + 1
  /\ pool_cache' = pools + 1
  /\ free' = [free EXCEPT ![pools + 1] = PoolSize]
  /\ via' = [via EXCEPT ![t] = pools + 1]
  /\ pc' = [pc EXCEPT ![t] = "acquiring"]
  /\ UNCHANGED <<leaked, outer, active>>

\* A stream takes the connection it listens on first, then, like a request,
\* the connection of its unit of work.
NeedsOuter(t) == t \in Streams /\ outer[t] = Null

Acquire(t) ==
  /\ pc[t] = "acquiring"
  /\ free[via[t]] > 0
  /\ free' = [free EXCEPT ![via[t]] = @ - 1]
  /\ IF NeedsOuter(t)
       THEN /\ outer' = [outer EXCEPT ![t] = via[t]]
            /\ pc' = [pc EXCEPT ![t] = "subscribed"]
            /\ UNCHANGED active
       ELSE /\ active' = [active EXCEPT ![t] = via[t]]
            /\ pc' = [pc EXCEPT ![t] = "starting"]
            /\ UNCHANGED outer
  /\ via' = [via EXCEPT ![t] = Null]
  /\ UNCHANGED <<pool_cache, pools, leaked>>

-----------------------------------------------------------------------------
(* AsyncpgUnitOfWork                                                       *)

\* The stream has added its listener and calls get_job_status.
Snapshot(t) ==
  /\ pc[t] = "subscribed"
  /\ Lookup(t)
  /\ UNCHANGED <<pool_cache, pools, free, leaked, outer, active>>

Started(t) ==
  /\ pc[t] = "starting"
  /\ pc' = [pc EXCEPT ![t] = "open"]
  /\ UNCHANGED <<pool_cache, pools, free, leaked, via, outer, active>>

\* __aenter__ raises, so that __aexit__ never runs: the connection of the
\* unit of work is lost; database.connection() still returns the other one.
StartFails(t) ==
  /\ StartFaults
  /\ pc[t] = "starting"
  /\ leaked' = [leaked EXCEPT ![active[t]] = @ + 1]
  /\ free' = IF outer[t] = Null THEN free ELSE [free EXCEPT ![outer[t]] = @ + 1]
  /\ active' = [active EXCEPT ![t] = Null]
  /\ outer' = [outer EXCEPT ![t] = Null]
  /\ pc' = [pc EXCEPT ![t] = "idle"]
  /\ UNCHANGED <<pool_cache, pools, via>>

\* (Mutants, for the mutation tests only: an exit that hands any connection
\* to the cached pool, a stream that does not leave its unit of work before
\* it starts streaming, and a request that returns nothing.)
BadExitAnyPool(t) ==
  /\ pc[t] = "open"
  /\ free' = [free EXCEPT ![pool_cache] = @ + 1]
  /\ active' = [active EXCEPT ![t] = Null]
  /\ pc' = [pc EXCEPT ![t] = IF t \in Streams THEN "streaming" ELSE "idle"]
  /\ UNCHANGED <<pool_cache, pools, leaked, via, outer>>
BadExitLate(t) ==
  /\ pc[t] = "open"
  /\ IF t \in Streams
       THEN pc' = [pc EXCEPT ![t] = "streaming"] /\ UNCHANGED <<free, active>>
       ELSE /\ pc' = [pc EXCEPT ![t] = "idle"]
            /\ free' = [free EXCEPT ![active[t]] = @ + 1]
            /\ active' = [active EXCEPT ![t] = Null]
  /\ UNCHANGED <<pool_cache, pools, leaked, via, outer>>

BadExitOfRequest(t) ==
  /\ pc[t] = "open"
  /\ free' = IF t \in Streams THEN [free EXCEPT ![active[t]] = @ + 1] ELSE free
  /\ active' = [active EXCEPT ![t] = Null]
  /\ pc' = [pc EXCEPT ![t] = IF t \in Streams THEN "streaming" ELSE "idle"]
  /\ UNCHANGED <<pool_cache, pools, leaked, via, outer>>

\* __aexit__ releases to the pool that is in the cache by now; the error a
\* foreign pool raises is logged and the connection forgotten.
Exit(t) ==
  /\ pc[t] = "open"
  /\ IF active[t] = pool_cache
       THEN /\ free' = [free EXCEPT ![active[t]] = @ + 1]
            /\ UNCHANGED leaked
       ELSE /\ leaked' = [leaked EXCEPT ![active[t]] = @ + 1]
            /\ UNCHANGED free
  /\ active' = [active EXCEPT ![t] = Null]
  /\ pc' = [pc EXCEPT ![t] = IF t \in Streams THEN "streaming" ELSE "idle"]
  /\ UNCHANGED <<pool_cache, pools, via, outer>>

BadStreamEnds(t) ==
  /\ pc[t] = "streaming"
  /\ outer' = [outer EXCEPT ![t] = Null]
  /\ pc' = [pc EXCEPT ![t] = "idle"]
  /\ UNCHANGED <<pool_cache, pools, free, leaked, via, active>>

\* The job has ended or the client is found gone.  Nothing makes it so.
StreamEnds(t) ==
  /\ pc[t] = "streaming"
  /\ free' = [free EXCEPT ![outer[t]] = @ + 1]
  /\ outer' = [outer EXCEPT ![t] = Null]
  /\ pc' = [pc EXCEPT ![t] = "idle"]
  /\ UNCHANGED <<pool_cache, pools, leaked, via, active>>

-----------------------------------------------------------------------------
Step(t) == Created(t) \/ Snapshot(t) \/ Started(t) \/ StartFails(t) \/ Exit(t)

Next == \E t \in Tasks : Begin(t) \/ Acquire(t) \/ Step(t) \/ StreamEnds(t)

\* The loop resumes every task, the database answers, and a pool serves the
\* tasks waiting for it in their order, so that none waits while others get
\* connections again and again.  No request has to come, no stream to end.
Fairness ==
  \A t \in Tasks : WF_vars(Step(t)) /\ SF_vars(Acquire(t))

Spec     == Init /\ [][Next]_vars
FairSpec == Spec /\ Fairness

-----------------------------------------------------------------------------
(* What the variables may hold.                                            *)
TypeOK ==
  /\ pool_cache \in Pools \cup {Null}
  /\ pools \in 0 .. MaxPools
  /\ free \in [Pools -> 0 .. PoolSize]
  /\ leaked \in [Pools -> 0 .. PoolSize]
  /\ pc \in [Tasks -> {"idle", "creating", "acquiring", "subscribed", "starting", "open", "streaming"}]
  /\ via \in [Tasks -> Pools \cup {Null}]
  /\ outer \in [Tasks -> Pools \cup {Null}]
  /\ active \in [Tasks -> Pools \cup {Null}]

\* How many tasks have a connection of pool p, f being outer or active.
Holding(f, p) == Cardinality({t \in Tasks : f[t] = p})

\* Every connection of a pool is free, lost, or in the hands of exactly one
\* holder, on every path through a unit of work or a stream.
Conserved ==
  \A p \in 1 .. pools :
    free[p] + leaked[p] + Holding(outer, p) + Holding(active, p) = PoolSize

\* "Guarantee cleanup and connection release": no connection is lost, which
\* takes one pool per process ("the shared asyncpg pool") and transactions
\* that start.
NothingLeaks == \A p \in Pools : leaked[p] = 0

\* Every connection of pool p is lost, or a stream listens on it.
Exhausted(p) == leaked[p] + Holding(outer, p) = PoolSize

\* A request that needs a connection gets one and ends, whichever pool it
\* is waiting at and however streams and requests compete; it starves only
\* if for ever all connections of that pool are lost or listened on.
RequestsEnd ==
  \A t \in Requests :
    \/ pc[t] # "idle" ~> pc[t] = "idle"
    \/ <>[](pc[t] = "acquiring" /\ Exhausted(via[t]))

\* A stream that listens gets its second connection and sends the job's
\* current status, or it ends; it waits for ever only if for ever all
\* connections of the pool are lost or listened on, by itself among others.
SecondConnectionComes ==
  \A t \in Streams :
    \/ pc[t] = "subscribed" ~> pc[t] \in {"streaming", "idle"}
    \/ <>[](pc[t] = "acquiring" /\ Exhausted(via[t]))

\* "Sends the job's current status once before streaming": a stream that
\* listens gets to send it, or it ends, or connections have been lost.
SnapshotsAreSent ==
  \A t \in Streams :
    pc[t] = "subscribed" ~> pc[t] \in {"streaming", "idle"} \/ \E p \in Pools : leaked[p] > 0
=============================================================================
