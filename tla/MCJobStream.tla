----------------------------- MODULE MCJobStream -----------------------------
(* Small instances of JobStream: a stream, its job and another one.       *)
EXTENDS JobStream

CONSTANTS j1, j2, s1

TwoJobs   == {j1, j2}
OneJob    == {j1}
OneStream == {s1}

\* The other job only has to be told apart.
Deliveries == [j \in TwoJobs |-> IF j = j1 THEN 2 ELSE 1]
=============================================================================
