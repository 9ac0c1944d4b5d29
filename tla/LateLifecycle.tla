---------------------------- MODULE LateLifecycle ----------------------------
(***************************************************************************)
(* What is left of the promise of JobLifecycle when workers may be late: a *)
(* lease expires while its holder still works, or a claim was rolled back  *)
(* without the worker noticing.  A late worker does to a row what it would *)
(* have done in time, whatever has become of the row since; but nothing    *)
(* makes a claim, a success or a failure unearned.                         *)
(***************************************************************************)
EXTENDS JobLifecycle

Known(j) == status[j] # "absent"

LateHandle(j) ==
  /\ Known(j)
  /\ handled' = handled \cup {j}
  /\ UNCHANGED <<status, attempts>>

LateComplete(j) ==
  /\ Known(j)
  /\ j \in handled
  /\ status' = [status EXCEPT ![j] = "done"]
  /\ UNCHANGED <<attempts, handled>>

LateRetry(j) ==
  /\ Known(j)
  /\ status' = [status EXCEPT ![j] = "pending"]
  /\ UNCHANGED <<attempts, handled>>

LateGiveUp(j) ==
  /\ Known(j)
  /\ attempts[j] >= MaxAttempts
  /\ status' = [status EXCEPT ![j] = "failed"]
  /\ UNCHANGED <<attempts, handled>>

\* New jobs and claims are as in JobLifecycle.
LateNext ==
  \/ \E j \in Jobs : Submit(j) \/ LateHandle(j) \/ LateComplete(j) \/ LateRetry(j) \/ LateGiveUp(j)
  \/ \E jobs \in SUBSET Jobs : Deliver(jobs)

LateSpec == Init /\ [][LateNext]_vars
=============================================================================
