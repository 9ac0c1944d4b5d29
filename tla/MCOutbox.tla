------------------------------ MODULE MCOutbox ------------------------------
(* Small instances of Outbox: model values for jobs and workers.           *)
EXTENDS Outbox, TLC

CONSTANTS j1, j2, j3, w1, w2

TwoJobs    == {j1, j2}
ThreeJobs  == {j1, j2, j3}
OneWorker  == {w1}
TwoWorkers == {w1, w2}

\* Jobs are compared only for equality, and so are workers.
Symmetry == Permutations(Jobs) \cup Permutations(Workers)
=============================================================================
