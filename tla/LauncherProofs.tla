--------------------------- MODULE LauncherProofs ---------------------------
(***************************************************************************)
(* Proofs about Launcher for any choice of services, and about the pool of *)
(* its API, which ends with the process and starts anew.                   *)
(***************************************************************************)
EXTENDS Launcher, ConnectionPoolProofs

USE LauncherAssumption DEF SIGTERM, SIGINT, Failure

ServiceTypes ==
  /\ phase \in [SERVICES -> {"starting", "serving", "draining", "closing", "exited"}]
  /\ signals \in [Surfaces -> SUBSET {SIGTERM}]
  /\ lost \in [SERVICES -> BOOLEAN]
  /\ exitcode \in [SERVICES -> {Null, 0, Failure, SIGTERM}]
  /\ main \in {"waiting", "stopping", "joining", "leaving", "ended"}
  /\ code \in {Null, 0, Failure, SIGTERM, SIGINT}
  /\ interrupted \in BOOLEAN
  /\ culprits \in SUBSET SERVICES

\* A service has an exit code once it has ended.
ExitCodes == \A s \in SERVICES : exitcode[s] = Null <=> ~Ended(s)

\* A surface that has captured a SIGTERM no longer serves; without Ctrl-C
\* only a SIGTERM makes one drain, so that nothing ends with 0.
Sound ==
  /\ \A s \in Surfaces : SIGTERM \in signals[s] => phase[s] \notin {"starting", "serving"}
  /\ ~interrupted =>
       /\ \A s \in Surfaces : phase[s] \in {"draining", "closing"} => SIGTERM \in signals[s]
       /\ \A s \in SERVICES : exitcode[s] # 0

\* While main waits, everything that has ended has ended of itself; then it
\* holds the code of one of them, unless it was interrupted.
Culprits ==
  /\ \A s \in culprits : Ended(s)
  /\ main = "waiting" => \A s \in SERVICES : Ended(s) => s \in culprits
  /\ main # "waiting" /\ ~interrupted => code # 0 /\ \E s \in culprits : exitcode[s] = code

\* Past the loop of stop(), or thrown out of it, main has nobody who serves.
Settled ==
  main \in {"joining", "leaving", "ended"} => \A s \in SERVICES : phase[s] \notin {"starting", "serving"}

LauncherInv == ServiceTypes /\ ExitCodes /\ Sound /\ Culprits /\ Settled

LEMMA LauncherInvInit == LauncherInit => LauncherInv
<1> SUFFICES ASSUME LauncherInit PROVE LauncherInv
  OBVIOUS
<1> USE PoolAssumption DEF LauncherInit, Ended, Surfaces
<1>1. ServiceTypes
  BY DEF ServiceTypes
<1>2. ExitCodes
  BY DEF ExitCodes
<1>3. Sound
  BY DEF Sound
<1>4. Culprits /\ Settled
  BY DEF Culprits, Settled
<1> QED
  BY <1>1, <1>2, <1>3, <1>4 DEF LauncherInv

LEMMA LauncherInvNext == LauncherInv /\ [LauncherNext]_allVars => LauncherInv'
<1> SUFFICES ASSUME LauncherInv, [LauncherNext]_allVars PROVE LauncherInv'
  OBVIOUS
<1> USE PoolAssumption DEF LauncherInv
<1>1. ASSUME NEW t \in Tasks, Request(t) PROVE LauncherInv'
  <2>1. ServiceTypes'
    BY <1>1 DEF ServiceTypes, Ended, Surfaces, Request, launcher, services
  <2>2. ExitCodes'
    BY <1>1 DEF ServiceTypes, ExitCodes, Sound, Culprits, Settled, Ended, Surfaces, Request, launcher, services
  <2>3. Sound'
    BY <1>1 DEF ServiceTypes, ExitCodes, Sound, Culprits, Settled, Ended, Surfaces, Request, launcher, services
  <2>4. Culprits'
    BY <1>1 DEF ServiceTypes, ExitCodes, Sound, Culprits, Settled, Ended, Surfaces, Request, launcher, services
  <2>5. Settled'
    BY <1>1 DEF ServiceTypes, ExitCodes, Sound, Culprits, Settled, Ended, Surfaces, Request, launcher, services
  <2> QED
    BY <2>1, <2>2, <2>3, <2>4, <2>5
<1>2. ASSUME NEW s \in SERVICES, Serve(s) PROVE LauncherInv'
  <2>1. ServiceTypes'
    BY <1>2 DEF ServiceTypes, Ended, Surfaces, Serve, Goes
  <2>2. ExitCodes'
    BY <1>2 DEF ServiceTypes, ExitCodes, Sound, Culprits, Settled, Ended, Surfaces, Serve, Goes
  <2>3. Sound'
    BY <1>2 DEF ServiceTypes, ExitCodes, Sound, Culprits, Settled, Ended, Surfaces, Serve, Goes
  <2>4. Culprits'
    BY <1>2 DEF ServiceTypes, ExitCodes, Sound, Culprits, Settled, Ended, Surfaces, Serve, Goes
  <2>5. Settled'
    BY <1>2 DEF ServiceTypes, ExitCodes, Sound, Culprits, Settled, Ended, Surfaces, Serve, Goes
  <2> QED
    BY <2>1, <2>2, <2>3, <2>4, <2>5
<1>3. ASSUME NEW s \in SERVICES, FailsToStart(s) PROVE LauncherInv'
  <2>1. ServiceTypes'
    BY <1>3 DEF ServiceTypes, Ended, Surfaces, FailsToStart, Ends
  <2>2. ExitCodes'
    BY <1>3 DEF ServiceTypes, ExitCodes, Sound, Culprits, Settled, Ended, Surfaces, FailsToStart, Ends
  <2>3. Sound'
    BY <1>3 DEF ServiceTypes, ExitCodes, Sound, Culprits, Settled, Ended, Surfaces, FailsToStart, Ends
  <2>4. Culprits'
    BY <1>3 DEF ServiceTypes, ExitCodes, Sound, Culprits, Settled, Ended, Surfaces, FailsToStart, Ends
  <2>5. Settled'
    BY <1>3 DEF ServiceTypes, ExitCodes, Sound, Culprits, Settled, Ended, Surfaces, FailsToStart, Ends
  <2> QED
    BY <2>1, <2>2, <2>3, <2>4, <2>5
<1>4. ASSUME NEW s \in SERVICES, Drained(s) PROVE LauncherInv'
  <2>1. ServiceTypes'
    <3>1. TurnsToClose(s, "draining")
      BY <1>4 DEF Drained
    <3>2. lost' \in [SERVICES -> BOOLEAN]
      BY <3>1, Zenon DEF TurnsToClose, MayLose, ServiceTypes
    <3> QED
      BY <3>1, <3>2 DEF TurnsToClose, Goes, ServiceTypes
  <2>2. ExitCodes'
    BY <1>4 DEF ServiceTypes, ExitCodes, Sound, Culprits, Settled, Ended, Surfaces, Drained, TurnsToClose, Goes, MayLose
  <2>3. Sound'
    BY <1>4 DEF ServiceTypes, ExitCodes, Sound, Culprits, Settled, Ended, Surfaces, Drained, TurnsToClose, Goes, MayLose
  <2>4. Culprits'
    BY <1>4 DEF ServiceTypes, ExitCodes, Sound, Culprits, Settled, Ended, Surfaces, Drained, TurnsToClose, Goes, MayLose
  <2>5. Settled'
    BY <1>4 DEF ServiceTypes, ExitCodes, Sound, Culprits, Settled, Ended, Surfaces, Drained, TurnsToClose, Goes, MayLose
  <2> QED
    BY <2>1, <2>2, <2>3, <2>4, <2>5
<1>5. ASSUME NEW s \in SERVICES, Close(s) PROVE LauncherInv'
  <2>1. ServiceTypes'
    BY <1>5 DEF ServiceTypes, Ended, Surfaces, Close, Ends, OwnCode
  <2>2. ExitCodes'
    BY <1>5 DEF ServiceTypes, ExitCodes, Sound, Culprits, Settled, Ended, Surfaces, Close, Ends, OwnCode
  <2>3. Sound'
    BY <1>5 DEF ServiceTypes, ExitCodes, Sound, Culprits, Settled, Ended, Surfaces, Close, Ends, OwnCode
  <2>4. Culprits'
    BY <1>5 DEF ServiceTypes, ExitCodes, Sound, Culprits, Settled, Ended, Surfaces, Close, Ends, OwnCode
  <2>5. Settled'
    BY <1>5 DEF ServiceTypes, ExitCodes, Sound, Culprits, Settled, Ended, Surfaces, Close, Ends, OwnCode
  <2> QED
    BY <2>1, <2>2, <2>3, <2>4, <2>5
<1>6. ASSUME NEW s \in SERVICES, Killed(s) PROVE LauncherInv'
  <2>1. ServiceTypes'
    BY <1>6 DEF ServiceTypes, Ended, Surfaces, Killed, Ends
  <2>2. ExitCodes'
    BY <1>6 DEF ServiceTypes, ExitCodes, Sound, Culprits, Settled, Ended, Surfaces, Killed, Ends
  <2>3. Sound'
    BY <1>6 DEF ServiceTypes, ExitCodes, Sound, Culprits, Settled, Ended, Surfaces, Killed, Ends
  <2>4. Culprits'
    BY <1>6 DEF ServiceTypes, ExitCodes, Sound, Culprits, Settled, Ended, Surfaces, Killed, Ends
  <2>5. Settled'
    BY <1>6 DEF ServiceTypes, ExitCodes, Sound, Culprits, Settled, Ended, Surfaces, Killed, Ends
  <2> QED
    BY <2>1, <2>2, <2>3, <2>4, <2>5
<1>7. ASSUME NEW s \in SERVICES, Terminated(s) PROVE LauncherInv'
  <2>1. ServiceTypes'
    BY <1>7 DEF ServiceTypes, Ended, Surfaces, Terminated, Signalled, AfterSIGTERM, Dies
  <2>2. ExitCodes'
    BY <1>7 DEF ServiceTypes, ExitCodes, Sound, Culprits, Settled, Ended, Surfaces, Terminated, Signalled, AfterSIGTERM, Dies
  <2>3. Sound'
    BY <1>7 DEF ServiceTypes, ExitCodes, Sound, Culprits, Settled, Ended, Surfaces, Terminated, Signalled, AfterSIGTERM, Dies
  <2>4. Culprits'
    BY <1>7 DEF ServiceTypes, ExitCodes, Sound, Culprits, Settled, Ended, Surfaces, Terminated, Signalled, AfterSIGTERM, Dies
  <2>5. Settled'
    BY <1>7 DEF ServiceTypes, ExitCodes, Sound, Culprits, Settled, Ended, Surfaces, Terminated, Signalled, AfterSIGTERM, Dies
  <2> QED
    BY <2>1, <2>2, <2>3, <2>4, <2>5
<1>8. ASSUME PollFails PROVE LauncherInv'
  <2>1. ServiceTypes'
    <3>1. TurnsToClose("worker", "serving")
      BY <1>8 DEF PollFails
    <3>2. lost' \in [SERVICES -> BOOLEAN]
      BY <3>1, Zenon DEF TurnsToClose, MayLose, ServiceTypes
    <3> QED
      BY <3>1, <3>2 DEF TurnsToClose, Goes, ServiceTypes
  <2>2. ExitCodes'
    BY <1>8 DEF ServiceTypes, ExitCodes, Sound, Culprits, Settled, Ended, Surfaces, PollFails, TurnsToClose, Goes, MayLose
  <2>3. Sound'
    BY <1>8 DEF ServiceTypes, ExitCodes, Sound, Culprits, Settled, Ended, Surfaces, PollFails, TurnsToClose, Goes, MayLose
  <2>4. Culprits'
    BY <1>8 DEF ServiceTypes, ExitCodes, Sound, Culprits, Settled, Ended, Surfaces, PollFails, TurnsToClose, Goes, MayLose
  <2>5. Settled'
    BY <1>8 DEF ServiceTypes, ExitCodes, Sound, Culprits, Settled, Ended, Surfaces, PollFails, TurnsToClose, Goes, MayLose
  <2> QED
    BY <2>1, <2>2, <2>3, <2>4, <2>5
<1>9. ASSUME Interrupt PROVE LauncherInv'
  <2>1. ServiceTypes'
    <3>1. exitcode' \in [SERVICES -> {Null, 0, Failure, SIGTERM}]
      BY <1>9 DEF ServiceTypes, Interrupt
    <3>2. lost' \in [SERVICES -> BOOLEAN]
      <4>1. PICK l \in MayLose("worker") :
              lost' = [lost EXCEPT !["worker"] = lost["worker"] \/ (l /\ phase["worker"] = "serving")]
        BY <1>9 DEF Interrupt
      <4>2. (lost["worker"] \/ (l /\ phase["worker"] = "serving")) \in BOOLEAN
        BY Zenon
      <4> QED
        BY <4>1, <4>2, Zenon DEF ServiceTypes
    <3> QED
      BY <1>9, <3>1, <3>2 DEF ServiceTypes, Interrupt, AfterSIGINT
  <2>2. ExitCodes'
    BY <1>9 DEF ServiceTypes, ExitCodes, Sound, Culprits, Settled, Ended, Surfaces, Interrupt, AfterSIGINT, MayLose
  <2>3. Sound'
    BY <1>9 DEF ServiceTypes, ExitCodes, Sound, Culprits, Settled, Ended, Surfaces, Interrupt, AfterSIGINT, MayLose
  <2>4. Culprits'
    BY <1>9 DEF ServiceTypes, ExitCodes, Sound, Culprits, Settled, Ended, Surfaces, Interrupt, AfterSIGINT, MayLose
  <2>5. Settled'
    BY <1>9 DEF ServiceTypes, ExitCodes, Sound, Culprits, Settled, Ended, Surfaces, Interrupt, AfterSIGINT, MayLose
  <2> QED
    BY <2>1, <2>2, <2>3, <2>4, <2>5
<1>10. ASSUME NEW s \in SERVICES, Wait(s) PROVE LauncherInv'
  <2>1. ServiceTypes'
    BY <1>10 DEF ServiceTypes, Ended, Surfaces, Wait, services
  <2>2. ExitCodes'
    BY <1>10 DEF ServiceTypes, ExitCodes, Sound, Culprits, Settled, Ended, Surfaces, Wait, services
  <2>3. Sound'
    BY <1>10 DEF ServiceTypes, ExitCodes, Sound, Culprits, Settled, Ended, Surfaces, Wait, services
  <2>4. Culprits'
    BY <1>10 DEF ServiceTypes, ExitCodes, Sound, Culprits, Settled, Ended, Surfaces, Wait, services
  <2>5. Settled'
    BY <1>10 DEF ServiceTypes, ExitCodes, Sound, Culprits, Settled, Ended, Surfaces, Wait, services
  <2> QED
    BY <2>1, <2>2, <2>3, <2>4, <2>5
<1>11. ASSUME NEW s \in SERVICES, Terminate(s) PROVE LauncherInv'
  <2>1. ServiceTypes'
    BY <1>11 DEF ServiceTypes, Ended, Surfaces, Terminate, AfterSIGTERM, Dies, Signalled
  <2>2. ExitCodes'
    BY <1>11 DEF ServiceTypes, ExitCodes, Sound, Culprits, Settled, Ended, Surfaces, Terminate, AfterSIGTERM, Dies, Signalled
  <2>3. Sound'
    BY <1>11 DEF ServiceTypes, ExitCodes, Sound, Culprits, Settled, Ended, Surfaces, Terminate, AfterSIGTERM, Dies, Signalled
  <2>4. Culprits'
    BY <1>11 DEF ServiceTypes, ExitCodes, Sound, Culprits, Settled, Ended, Surfaces, Terminate, AfterSIGTERM, Dies, Signalled
  <2>5. Settled'
    BY <1>11 DEF ServiceTypes, ExitCodes, Sound, Culprits, Settled, Ended, Surfaces, Terminate, AfterSIGTERM, Dies, Signalled
  <2> QED
    BY <2>1, <2>2, <2>3, <2>4, <2>5
<1>12. ASSUME AllTerminated PROVE LauncherInv'
  <2>1. ServiceTypes'
    BY <1>12 DEF ServiceTypes, Ended, Surfaces, AllTerminated, Unstopped, services
  <2>2. ExitCodes'
    BY <1>12 DEF ServiceTypes, ExitCodes, Sound, Culprits, Settled, Ended, Surfaces, AllTerminated, Unstopped, services
  <2>3. Sound'
    BY <1>12 DEF ServiceTypes, ExitCodes, Sound, Culprits, Settled, Ended, Surfaces, AllTerminated, Unstopped, services
  <2>4. Culprits'
    BY <1>12 DEF ServiceTypes, ExitCodes, Sound, Culprits, Settled, Ended, Surfaces, AllTerminated, Unstopped, services
  <2>5. Settled'
    BY <1>12 DEF ServiceTypes, ExitCodes, Sound, Culprits, Settled, Ended, Surfaces, AllTerminated, Unstopped, services
  <2> QED
    BY <2>1, <2>2, <2>3, <2>4, <2>5
<1>13. ASSUME Join PROVE LauncherInv'
  <2>1. ServiceTypes'
    BY <1>13 DEF ServiceTypes, Ended, Surfaces, Join, services
  <2>2. ExitCodes'
    BY <1>13 DEF ServiceTypes, ExitCodes, Sound, Culprits, Settled, Ended, Surfaces, Join, services
  <2>3. Sound'
    BY <1>13 DEF ServiceTypes, ExitCodes, Sound, Culprits, Settled, Ended, Surfaces, Join, services
  <2>4. Culprits'
    BY <1>13 DEF ServiceTypes, ExitCodes, Sound, Culprits, Settled, Ended, Surfaces, Join, services
  <2>5. Settled'
    BY <1>13 DEF ServiceTypes, ExitCodes, Sound, Culprits, Settled, Ended, Surfaces, Join, services
  <2> QED
    BY <2>1, <2>2, <2>3, <2>4, <2>5
<1>14. CASE UNCHANGED allVars
  BY <1>14 DEF allVars, launcher, services, ServiceTypes, ExitCodes, Sound, Culprits, Settled, Ended
<1> QED
  BY <1>1, <1>2, <1>3, <1>4, <1>5, <1>6, <1>7, <1>8, <1>9, <1>10, <1>11, <1>12, <1>13, <1>14 DEF LauncherNext, Service, Main

\* The pool of the API is as in ConnectionPool, or gone with its process.
LEMMA LauncherPoolNext == [LauncherNext]_allVars => [Next]_vars \/ Init'
<1> SUFFICES ASSUME [LauncherNext]_allVars PROVE [Next]_vars \/ Init'
  OBVIOUS
<1>1. PoolGone => Init'
  BY DEF PoolGone, Init
<1>2. ASSUME NEW t \in Tasks, Request(t) PROVE Next
  BY <1>2 DEF Request, Next
<1>3. ASSUME NEW s, NEW c, Ends(s, c) PROVE UNCHANGED vars \/ Init'
  BY <1>1, <1>3 DEF Ends
<1>4. ASSUME NEW s, NEW from, NEW to, Goes(s, from, to) PROVE UNCHANGED vars
  BY <1>4 DEF Goes
<1>5. ASSUME NEW s \in SERVICES, Service(s) \/ Killed(s) \/ Terminated(s) PROVE UNCHANGED vars \/ Init'
  BY <1>3, <1>4, <1>5 DEF Service, Serve, FailsToStart, Drained, TurnsToClose, Close, Killed, Terminated
<1>6. PollFails => UNCHANGED vars
  BY <1>4 DEF PollFails, TurnsToClose
<1>7. Interrupt => UNCHANGED vars \/ Init'
  BY <1>1 DEF Interrupt
<1>8. Main => UNCHANGED vars \/ Init'
  BY <1>1 DEF Main, Wait, Terminate, AllTerminated, Join
<1> QED
  BY <1>2, <1>5, <1>6, <1>7, <1>8 DEF LauncherNext, allVars

LEMMA LauncherPoolInv == LauncherSpec => []PoolInv
<1>1. LauncherInit => PoolInv
  BY PoolInvInit DEF LauncherInit
<1>2. Init' => PoolInv'
  BY PoolInvInit, PTL
<1>3. PoolInv /\ [LauncherNext]_allVars => PoolInv'
  BY <1>2, PoolInvNext, LauncherPoolNext
<1> QED
  BY <1>1, <1>3, PTL DEF LauncherSpec

LEMMA LauncherInvAlways == LauncherSpec => []LauncherInv
BY LauncherInvInit, LauncherInvNext, PTL DEF LauncherSpec

\* The variables of ConnectionPool and Launcher keep their types; a service
\* has an exit code exactly if it has ended.
THEOREM LauncherTypeCorrect == LauncherSpec => []LauncherTypeOK
<1>1. LauncherInv /\ PoolInv => LauncherTypeOK
  BY PoolInvTypeOK DEF LauncherInv, ServiceTypes, ExitCodes, LauncherTypeOK
<1> QED
  BY LauncherInvAlways, LauncherPoolInv, <1>1, PTL

\* Connections are conserved while the process is stopped at any point, too.
THEOREM LauncherConserves == LauncherSpec => []Conserved
<1>1. PoolInv => Conserved
  BY DEF PoolInv
<1> QED
  BY LauncherPoolInv, <1>1, PTL

\* What main joins, after stop() or thrown out of it by a Ctrl-C, has ended
\* or is about to, for any services and whatever they were doing.
THEOREM MainLeavesNobody == LauncherSpec => []NobodyIsForgotten
<1>1. LauncherInv => NobodyIsForgotten
  BY DEF LauncherInv, Settled, NobodyIsForgotten
<1> QED
  BY LauncherInvAlways, <1>1, PTL

\* Unless it is interrupted, main exits with the code, not 0, of a service
\* that ended of itself.
THEOREM MainBlamesTheCulprit == LauncherSpec => []CulpritIsReported
<1>1. LauncherInv => CulpritIsReported
  BY DEF LauncherInv, Culprits, CulpritIsReported
<1> QED
  BY LauncherInvAlways, <1>1, PTL

-----------------------------------------------------------------------------
(* What FailureStopsAll rests on: the end of the program never gets stuck. *)

\* Something has made the program end, or is about to.
Stopping == interrupted \/ main # "waiting" \/ (\E s \in SERVICES : Ended(s)) \/ phase["worker"] = "closing"

\* What main, a service and a task of the API can do without waiting for
\* anyone (the guards of Main, Service, Step and Acquire).
MainCanGoOn ==
  \/ main = "waiting" /\ \E s \in SERVICES : Ended(s)
  \/ main = "stopping"
  \/ main \in {"joining", "leaving"} /\ \A s \in SERVICES : Ended(s)
ServiceCanGoOn(s) ==
  \/ phase[s] = "starting"
  \/ phase[s] = "draining" /\ (s = "api" => \A t \in Tasks : pc[t] = "idle")
  \/ phase[s] = "closing" /\ Released(s)
TaskCanGoOn(t) ==
  \/ pc[t] \in {"creating", "subscribed", "starting", "open"}
  \/ pc[t] = "acquiring" /\ free[via[t]] > 0

\* Until main has ended there is always a next step towards the end: main
\* never joins a service that waits for something nobody will do, unless a
\* stream, a lost connection or an exhausted pool holds it.
ShutdownMovesOn ==
  Stopping /\ main # "ended" /\ ~Held =>
    MainCanGoOn \/ (\E s \in SERVICES : ServiceCanGoOn(s)) \/ \E t \in Tasks : TaskCanGoOn(t)

\* A service that closes its pool has no task left, and main was interrupted
\* only after it had left wait().
Orderly ==
  /\ phase["api"] = "closing" => \A t \in Tasks : pc[t] = "idle"
  /\ interrupted => main # "waiting"

LEMMA OrderlyInit == LauncherInit => Orderly
BY DEF LauncherInit, Orderly

LEMMA OrderlyNext == LauncherInv /\ PoolInv /\ Orderly /\ [LauncherNext]_allVars => Orderly'
<1> SUFFICES ASSUME LauncherInv, PoolInv, Orderly, [LauncherNext]_allVars PROVE Orderly'
  OBVIOUS
<1> USE PoolAssumption DEF LauncherInv, ServiceTypes
<1>1. ASSUME NEW t \in Tasks, Request(t) PROVE Orderly'
  <2>1. phase' = phase /\ main' = main /\ interrupted' = interrupted
    BY <1>1 DEF Request, launcher, services
  <2>2. phase["api"] # "closing"
    BY <1>1 DEF Orderly, Request, Accepts, Acquire, Step, Created, Snapshot, Started, StartFails, Exit, StreamEnds
  <2> QED
    BY <2>1, <2>2 DEF Orderly
<1>2. ASSUME NEW s \in SERVICES, NEW c, Ends(s, c) PROVE Orderly'
  BY <1>2 DEF Orderly, Ends, PoolGone, vars
<1>3. ASSUME NEW s \in SERVICES, NEW from \in {"starting", "serving", "draining"}, NEW to \in {"serving", "closing"},
             Goes(s, from, to), to = "serving" => from = "starting",
             s = "api" /\ to = "closing" => \A t \in Tasks : pc[t] = "idle"
      PROVE  Orderly'
  BY <1>3 DEF Orderly, Goes, vars
<1>4. ASSUME NEW s \in SERVICES, Service(s) \/ Killed(s) PROVE Orderly'
  BY <1>2, <1>3, <1>4 DEF Service, Serve, FailsToStart, Drained, TurnsToClose, Close, Killed
<1>5. ASSUME NEW s \in SERVICES, Terminated(s) PROVE Orderly'
  BY <1>5 DEF Orderly, Terminated, AfterSIGTERM, Dies, Surfaces, vars
<1>6. CASE PollFails
  BY <1>3, <1>6 DEF PollFails, TurnsToClose
<1>7. CASE Interrupt
  <2>1. main' # "waiting" /\ (phase'["api"] = "closing" => phase["api"] = "closing" /\ UNCHANGED vars)
    BY <1>7 DEF Interrupt, AfterSIGINT
  <2> QED
    BY <2>1 DEF Orderly, vars
<1>8. ASSUME NEW s \in SERVICES, Terminate(s) PROVE Orderly'
  <2>1. /\ main' = main /\ interrupted' = interrupted
        /\ phase'["api"] = "closing" => phase["api"] = "closing"
        /\ UNCHANGED vars \/ \A t \in Tasks : pc'[t] = "idle"
    BY <1>8 DEF Terminate, AfterSIGTERM, Dies, Ended, PoolGone
  <2> QED
    BY <2>1 DEF Orderly, vars
<1>9. CASE (\E s \in SERVICES : Wait(s)) \/ AllTerminated \/ Join
  BY <1>9 DEF Orderly, Wait, AllTerminated, Join, services, vars
<1>10. CASE UNCHANGED allVars
  BY <1>10 DEF Orderly, allVars, vars, launcher, services
<1> QED
  BY <1>1, <1>4, <1>5, <1>6, <1>7, <1>8, <1>9, <1>10 DEF LauncherNext, Main

\* With no task left and no connection lost, the pool of the API is whole.
LEMMA PoolIsWhole ==
  ASSUME PoolInv, \A t \in Tasks : pc[t] = "idle", pool_cache # Null => leaked[pool_cache] = 0 PROVE Released("api")
<1> SUFFICES ASSUME pool_cache # Null PROVE free[pool_cache] = PoolSize
  BY DEF Released
<1>1. pool_cache \in Pools /\ pool_cache \in 1 .. pools /\ pool_cache # Null
  <2>1. pool_cache \in Pools /\ pool_cache <= pools /\ pools \in Nat
    BY DEF PoolInv, PoolTypes, Existing
  <2> QED
    BY <2>1, PoolsAreNumbers DEF Pools
<1>2. \A t \in Tasks : outer[t] = Null /\ active[t] = Null
  BY DEF PoolInv, Stages
<1>3. Holding(outer, pool_cache) = 0 /\ Holding(active, pool_cache) = 0
  <2>1. {t \in Tasks : outer[t] = pool_cache} = {} /\ {t \in Tasks : active[t] = pool_cache} = {}
    BY <1>1, <1>2
  <2> QED
    BY <2>1, FS_EmptySet DEF Holding
<1> QED
  BY <1>1, <1>3 DEF PoolInv, PoolTypes, Conserved

LEMMA OrderlyMovesOn == LauncherInv /\ PoolInv /\ Orderly => ShutdownMovesOn
<1> SUFFICES ASSUME LauncherInv, PoolInv, Orderly, Stopping,
                    main # "ended", ~Held, ~MainCanGoOn
             PROVE  (\E s \in SERVICES : ServiceCanGoOn(s)) \/ \E t \in Tasks : TaskCanGoOn(t)
  BY DEF ShutdownMovesOn
<1> USE DEF LauncherInv, ServiceTypes
<1>1. CASE main = "waiting"
  BY <1>1 DEF Stopping, Orderly, MainCanGoOn, Held, Ended, ServiceCanGoOn, Released
<1>2. CASE main # "waiting"
  <2>1. PICK s \in SERVICES : ~Ended(s) /\ phase[s] \in {"draining", "closing"}
    BY <1>2 DEF MainCanGoOn, Settled, Ended
  <2>2. CASE s # "api"
    BY <2>1, <2>2 DEF Held, ServiceCanGoOn, Released
  <2>3. CASE s = "api" /\ \A t \in Tasks : pc[t] = "idle"
    <3>1. pool_cache # Null => leaked[pool_cache] = 0
      BY <2>1, <2>3 DEF Held, PoolInv, PoolTypes
    <3> QED
      BY <2>1, <2>3, <3>1, PoolIsWhole DEF Held, ServiceCanGoOn
  <2>4. CASE s = "api" /\ \E t \in Tasks : pc[t] # "idle"
    <3>1. PICK t \in Tasks : pc[t] # "idle"
      BY <2>4
    <3>2. pc[t] # "streaming"
      BY <2>1, <2>4 DEF Held, Tasks, PoolInv, Stages
    <3>3. CASE pc[t] # "acquiring"
      BY <3>1, <3>2, <3>3 DEF TaskCanGoOn, PoolInv, PoolTypes, Places
    <3>4. CASE pc[t] = "acquiring"
      <4>1. via[t] \in Pools /\ ~Exhausted(via[t]) /\ free[via[t]] \in Nat
        BY <2>1, <2>4, <3>4 DEF Held, PoolInv, PoolTypes, Holdings, Stages
      <4>2. CASE free[via[t]] = 0
        BY <3>4, <4>1, <4>2, PoolInvServes DEF WaitersAreServed, TaskCanGoOn
      <4>3. CASE free[via[t]] # 0
        BY <3>4, <4>1, <4>3 DEF TaskCanGoOn
      <4> QED
        BY <4>2, <4>3
    <3> QED
      BY <3>3, <3>4
  <2> QED
    BY <2>2, <2>3, <2>4
<1> QED
  BY <1>1, <1>2

\* Once a service has ended, or main was interrupted, the program can always
\* go on towards its end, for any services, tasks and pools, unless a stream
\* or a lost connection holds a service up.
THEOREM ShutdownNeverStalls == LauncherSpec => []ShutdownMovesOn
<1>1. LauncherSpec => []Orderly
  BY OrderlyInit, OrderlyNext, LauncherInvAlways, LauncherPoolInv, PTL DEF LauncherSpec
<1> QED
  BY <1>1, OrderlyMovesOn, LauncherInvAlways, LauncherPoolInv, PTL
=============================================================================
