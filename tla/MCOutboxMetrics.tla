--------------------------- MODULE MCOutboxMetrics ---------------------------
(* A small instance of OutboxMetrics.                                      *)
EXTENDS OutboxMetrics

CONSTANTS j1, j2, w1, w2

TwoJobs    == {j1, j2}
TwoWorkers == {w1, w2}
=============================================================================
