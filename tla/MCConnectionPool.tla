-------------------------- MODULE MCConnectionPool --------------------------
(* Small instances of ConnectionPool: up to two requests and two streams.  *)
EXTENDS ConnectionPool, TLC

CONSTANTS r1, r2, s1, s2

NoTasks     == {}
TwoRequests == {r1, r2}
TwoStreams  == {s1, s2}

\* The tasks of a kind are alike.
Symmetry == Permutations(Requests) \cup Permutations(Streams)
=============================================================================
