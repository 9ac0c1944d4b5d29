------------------------------ MODULE Launcher ------------------------------
(***************************************************************************)
(* main.py and the life of the services it starts: it waits for the first  *)
(* one that exits, sends the others SIGTERM one after the other and joins  *)
(* them all without a timeout; Ctrl-C may come at any point of that.  The  *)
(* API and the HTMX surface then serve out what they have accepted and     *)
(* close the pool of connections; the worker closes its pool when polling  *)
(* raises, and dies at once of a SIGTERM.  The tasks and the pool of the   *)
(* API are those of ConnectionPool; of the other pools only a connection   *)
(* that close() would wait for is kept.                                    *)
(***************************************************************************)
EXTENDS ConnectionPool, Integers

CONSTANTS
  SERVICES,  \* the services main starts: "api", "worker" and "htmx"
  Ctrl_C     \* may the operator press Ctrl-C?  (bound: at most once)

ASSUME LauncherAssumption ==
  /\ {"api", "worker"} \subseteq SERVICES
  /\ SERVICES \subseteq {"api", "htmx", "worker"}
  /\ Ctrl_C \in BOOLEAN
  /\ Null \notin Int

Surfaces == SERVICES \ {"worker"}  \* the services uvicorn runs

\* The exit codes that are told apart: of the two signals, of any failure, 0.
SIGTERM == -15
SIGINT  == -2
Failure == 1

VARIABLES
  phase,     \* what each service is doing
  signals,   \* SIGTERM, if that is the last signal uvicorn has captured
  lost,      \* a connection of the cached pool will never be released
  exitcode,  \* Process.exitcode
  main,      \* where main() is
  code,      \* the code it reports
  interrupted, \* has Ctrl-C been pressed?
  culprits   \* history: the services that ended before main stopped them

services == <<phase, signals, lost, exitcode>>
launcher == <<services, main, code, interrupted, culprits>>
allVars  == <<vars, launcher>>

LauncherInit ==
  /\ Init
  /\ phase = [s \in SERVICES |-> "starting"]
  /\ signals = [s \in Surfaces |-> {}]
  /\ lost = [s \in SERVICES |-> FALSE]
  /\ exitcode = [s \in SERVICES |-> Null]
  /\ main = "waiting"
  /\ code = Null
  /\ interrupted = FALSE
  /\ culprits = {}

-----------------------------------------------------------------------------
(* One service.                                                            *)

Ended(s) == phase[s] = "exited"

\* The pool and the tasks of a process end with it.
PoolGone ==
  /\ pool_cache' = Null
  /\ pools' = 0
  /\ free' = [p \in Pools |-> 0]
  /\ leaked' = [p \in Pools |-> 0]
  /\ pc' = [t \in Tasks |-> "idle"]
  /\ via' = [t \in Tasks |-> Null]
  /\ outer' = [t \in Tasks |-> Null]
  /\ active' = [t \in Tasks |-> Null]

Ends(s, c) ==
  /\ phase' = [phase EXCEPT ![s] = "exited"]
  /\ exitcode' = [exitcode EXCEPT ![s] = c]
  /\ culprits' = IF main = "waiting" THEN culprits \cup {s} ELSE culprits
  /\ IF s = "api" THEN PoolGone ELSE UNCHANGED vars
  /\ UNCHANGED <<signals, lost, main, code, interrupted>>

Goes(s, from, to) ==
  /\ s \in SERVICES
  /\ phase[s] = from
  /\ phase' = [phase EXCEPT ![s] = to]
  /\ UNCHANGED <<vars, signals, exitcode, main, code, interrupted, culprits>>

Serve(s) == Goes(s, "starting", "serving") /\ UNCHANGED lost

\* A port is taken, a setting is missing.
FailsToStart(s) == phase[s] = "starting" /\ Ends(s, Failure)

\* Other processes lose connections as the API does.
MayLose(s) == IF StartFaults /\ s # "api" THEN BOOLEAN ELSE {FALSE}

\* A service turns to closing its pool, where a connection may be missing.
TurnsToClose(s, from) ==
  /\ Goes(s, from, "closing")
  /\ \E l \in MayLose(s) : lost' = [lost EXCEPT ![s] = l]

\* An error of the database in poll ends the loop of the worker.
PollFails == TurnsToClose("worker", "serving")

\* uvicorn accepts nothing more and waits for the open tasks, without limit.
Drained(s) ==
  /\ s = "api" => \A t \in Tasks : pc[t] = "idle"
  /\ TurnsToClose(s, "draining")

\* Pool.close() waits until every connection has been released.
Released(s) ==
  IF s = "api" THEN pool_cache # Null => free[pool_cache] = PoolSize ELSE ~lost[s]

\* App.close, after which uvicorn raises the signals it has captured, the
\* last one first, of which SIGTERM kills and SIGINT is caught; the worker
\* raises the exception that ended its loop.
OwnCode(s) ==
  IF s = "worker" THEN Failure ELSE IF SIGTERM \in signals[s] THEN SIGTERM ELSE 0

Close(s) ==
  /\ phase[s] = "closing"
  /\ Released(s)
  /\ Ends(s, OwnCode(s))

-----------------------------------------------------------------------------
(* Signals.                                                                *)

\* SIGTERM: uvicorn drains, any other process dies of it.
Dies(s) == phase[s] = "starting" \/ (s = "worker" /\ ~Ended(s))

Signalled(S) ==
  signals' = [s \in Surfaces |->
    IF s \in S /\ phase[s] \in {"serving", "draining", "closing"} THEN {SIGTERM} ELSE signals[s]]

AfterSIGTERM(s) ==
  IF Dies(s) THEN "exited" ELSE IF phase[s] = "serving" THEN "draining" ELSE phase[s]

\* The operator stops one service, gently or not.
Terminated(s) ==
  /\ s \in Surfaces
  /\ main = "waiting"
  /\ phase[s] = "serving"
  /\ phase' = [phase EXCEPT ![s] = AfterSIGTERM(s)]
  /\ Signalled({s})
  /\ UNCHANGED <<vars, lost, exitcode, main, code, interrupted, culprits>>

\* The process is killed, or crashes; left out once main stops them all.
Killed(s) == main = "waiting" /\ ~Ended(s) /\ Ends(s, Failure)

-----------------------------------------------------------------------------
(* main                                                                    *)

\* (Mutants: names that begin with Bad, for the mutation tests only.)
BadWait(s) ==
  /\ main = "waiting"
  /\ s = "api" /\ Ended(s)
  /\ main' = "stopping"
  /\ code' = exitcode[s]
  /\ UNCHANGED <<vars, services, interrupted, culprits>>
\* wait() goes round the processes; which of several that have ended it is
\* at first is a matter of time.
Wait(s) ==
  /\ main = "waiting"
  /\ Ended(s)
  /\ main' = "stopping"
  /\ code' = exitcode[s]
  /\ UNCHANGED <<vars, services, interrupted, culprits>>

\* Ctrl-C reaches the whole process group.  uvicorn drains, or gives up what
\* it waits for if it is draining already; to any other process it is a
\* KeyboardInterrupt, upon which the worker closes its pool, or drops it if
\* it is closing already.
BadAfterSIGINT(s) ==
  IF s = "worker" THEN phase[s]
  ELSE IF phase[s] = "serving" THEN "draining"
  ELSE IF phase[s] \in {"starting", "draining"} THEN "exited" ELSE phase[s]
AfterSIGINT(s) ==
  CASE phase[s] = "serving" /\ s = "worker" -> "closing"
    [] phase[s] = "serving" /\ s # "worker" -> "draining"
    [] phase[s] = "closing" /\ s = "worker" -> "exited"
    [] phase[s] \in {"starting", "draining"} -> "exited"
    [] OTHER -> phase[s]

\* main catches the KeyboardInterrupt only around wait() and then stops the
\* services; one that comes during stop() leaves main without the rest of it.
Interrupt ==
  /\ Ctrl_C /\ ~interrupted
  /\ main # "ended"
  /\ interrupted' = TRUE
  /\ main' = IF main = "waiting" THEN "stopping" ELSE "leaving"
  /\ code' = IF main = "waiting" THEN 0 ELSE SIGINT
  /\ phase' = [s \in SERVICES |-> AfterSIGINT(s)]
  /\ exitcode' = [s \in SERVICES |->
       IF Ended(s) \/ AfterSIGINT(s) # "exited" THEN exitcode[s]
       ELSE IF phase[s] = "draining" THEN 0 ELSE Failure]
  /\ signals' = [s \in Surfaces |-> {}]
  /\ \E l \in MayLose("worker") :
       lost' = [lost EXCEPT !["worker"] = @ \/ (l /\ phase["worker"] = "serving")]
  /\ IF phase["api"] # "exited" /\ AfterSIGINT("api") = "exited" THEN PoolGone ELSE UNCHANGED vars
  /\ UNCHANGED culprits

\* stop() terminates one after the other what is alive (a second SIGTERM
\* changes nothing) ...
Unstopped(s) == ~Ended(s) /\ (s \in Surfaces => SIGTERM \notin signals[s])

Terminate(s) ==
  /\ main = "stopping"
  /\ Unstopped(s)
  /\ phase' = [phase EXCEPT ![s] = AfterSIGTERM(s)]
  /\ exitcode' = [exitcode EXCEPT ![s] = IF Dies(s) THEN SIGTERM ELSE @]
  /\ Signalled({s})
  /\ IF s = "api" /\ Dies(s) THEN PoolGone ELSE UNCHANGED vars
  /\ UNCHANGED <<lost, main, code, interrupted, culprits>>

AllTerminated ==
  /\ main = "stopping"
  /\ \A s \in SERVICES : ~Unstopped(s)
  /\ main' = "joining"
  /\ UNCHANGED <<vars, services, code, interrupted, culprits>>

BadJoin ==
  /\ main \in {"joining", "leaving"}
  /\ \A s \in SERVICES : Ended(s)
  /\ main' = "ended"
  /\ code' = IF code = 0 THEN 0 ELSE exitcode["api"]
  /\ UNCHANGED <<vars, services, interrupted, culprits>>
\* ... and joins every one of them.  If it was interrupted, the interpreter
\* joins them before it exits.
Join ==
  /\ main \in {"joining", "leaving"}
  /\ \A s \in SERVICES : Ended(s)
  /\ main' = "ended"
  /\ UNCHANGED <<vars, services, code, interrupted, culprits>>

-----------------------------------------------------------------------------
\* The tasks of the API.  Those of a service that drains go on.
Accepts == phase["api"] = "serving"

Request(t) ==
  /\ \/ Accepts /\ Begin(t)
     \/ Acquire(t)
     \/ Step(t)
     \/ StreamEnds(t)
  /\ UNCHANGED launcher

Service(s) == Serve(s) \/ FailsToStart(s) \/ Drained(s) \/ Close(s)

Main == (\E s \in SERVICES : Wait(s) \/ Terminate(s)) \/ AllTerminated \/ Join

LauncherNext ==
  \/ \E t \in Tasks : Request(t)
  \/ \E s \in SERVICES : Service(s) \/ Killed(s) \/ Terminated(s)
  \/ PollFails
  \/ Interrupt
  \/ Main

\* As in ConnectionPool; besides, main and the services go on whenever they
\* can.  Nothing has to fail, and nobody has to stop anything.
LauncherFairness ==
  /\ \A t \in Tasks :
       /\ WF_allVars(Step(t) /\ UNCHANGED launcher)
       /\ SF_allVars(Acquire(t) /\ UNCHANGED launcher)
  /\ \A s \in SERVICES : WF_allVars(Service(s))
  /\ WF_allVars(Main)

LauncherSpec == LauncherInit /\ [][LauncherNext]_allVars /\ LauncherFairness

-----------------------------------------------------------------------------
(* What the variables may hold.                                            *)
LauncherTypeOK ==
  /\ TypeOK
  /\ phase \in [SERVICES -> {"starting", "serving", "draining", "closing", "exited"}]
  /\ signals \in [Surfaces -> SUBSET {SIGTERM}]
  /\ lost \in [SERVICES -> BOOLEAN]
  /\ \A s \in SERVICES : exitcode[s] \in (IF Ended(s) THEN {0, Failure, SIGTERM} ELSE {Null})
  /\ main \in {"waiting", "stopping", "joining", "leaving", "ended"}
  /\ code \in {Null, 0, Failure, SIGTERM, SIGINT}
  /\ interrupted \in BOOLEAN
  /\ culprits \in SUBSET SERVICES

\* When main waits for the services to end, or leaves stop() because of a
\* Ctrl-C before it has terminated them all, every one of them has ended or
\* is about to: it never joins a service that goes on serving.
NobodyIsForgotten ==
  main \in {"joining", "leaving"} => \A s \in SERVICES : phase[s] \notin {"starting", "serving"}

\* Without Ctrl-C main reports the exit code of a service that ended before
\* main stopped the others, never 0 and never that of its own SIGTERM to a
\* service that was well.
CulpritIsReported ==
  main = "ended" /\ ~interrupted => code # 0 /\ \E s \in culprits : exitcode[s] = code

\* What an orderly end waits for without limit: a status stream; a connection
\* that will never come back to the pool close() is called on; a task whose
\* pool has no connection left that is neither lost nor listening.
Held ==
  \/ ~Ended("api") /\ \E t \in Streams : pc[t] = "streaming"
  \/ ~Ended("api") /\ pool_cache # Null /\ leaked[pool_cache] > 0
  \/ ~Ended("api") /\ \E t \in Tasks : pc[t] = "acquiring" /\ Exhausted(via[t])
  \/ \E s \in SERVICES : ~Ended(s) /\ lost[s]

\* One service that ends, a worker that stops polling, or a Ctrl-C ends the
\* whole program, unless something holds an orderly end up for ever: the
\* error of one poll stops the API too, and only streams and connections
\* lost to the pool in use can keep the program from ending.
FailureStopsAll ==
  \/ ((\E s \in SERVICES : Ended(s)) \/ phase["worker"] = "closing" \/ interrupted) ~> main = "ended"
  \/ <>[]Held
=============================================================================
