---------------------------- MODULE JobLifecycle ----------------------------
(***************************************************************************)
(* What the outbox promises about a job, as its clients see it through     *)
(* GET /jobs/{id} and the status stream: the status of each row, how often *)
(* it was attempted and whether a handler run for it has ended well.  No   *)
(* workers, leases, locks or transactions.                                 *)
(***************************************************************************)
EXTENDS Naturals

CONSTANTS Jobs, MaxAttempts

VARIABLES status, attempts, handled

vars == <<status, attempts, handled>>

Init ==
  /\ status = [j \in Jobs |-> "absent"]
  /\ attempts = [j \in Jobs |-> 0]
  /\ handled = {}

\* A client's request has been accepted.
Submit(j) ==
  /\ status[j] = "absent"
  /\ status' = [status EXCEPT ![j] = "pending"]
  /\ UNCHANGED <<attempts, handled>>

\* A batch goes to a worker: new jobs, or jobs whose worker has been lost.
Deliver(jobs) ==
  /\ \A j \in jobs : status[j] \in {"pending", "running"}
  /\ status' = [j \in Jobs |-> IF j \in jobs THEN "running" ELSE status[j]]
  /\ attempts' = [j \in Jobs |-> IF j \in jobs THEN attempts[j] + 1 ELSE attempts[j]]
  /\ UNCHANGED handled

\* The handler has returned, which the row does not show yet.
Handle(j) ==
  /\ status[j] = "running"
  /\ handled' = handled \cup {j}
  /\ UNCHANGED <<status, attempts>>

\* A job leaves "running" in one of three ways.
Complete(j) ==
  /\ status[j] = "running"
  /\ j \in handled
  /\ status' = [status EXCEPT ![j] = "done"]
  /\ UNCHANGED <<attempts, handled>>

Retry(j) ==
  /\ status[j] = "running"
  /\ attempts[j] < MaxAttempts
  /\ status' = [status EXCEPT ![j] = "pending"]
  /\ UNCHANGED <<attempts, handled>>

GiveUp(j) ==
  /\ status[j] = "running"
  /\ attempts[j] >= MaxAttempts
  /\ status' = [status EXCEPT ![j] = "failed"]
  /\ UNCHANGED <<attempts, handled>>

Next ==
  \/ \E j \in Jobs : Submit(j) \/ Handle(j) \/ Complete(j) \/ Retry(j) \/ GiveUp(j)
  \/ \E jobs \in SUBSET Jobs : Deliver(jobs)

Spec == Init /\ [][Next]_vars
=============================================================================
