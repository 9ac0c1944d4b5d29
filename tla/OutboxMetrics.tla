---------------------------- MODULE OutboxMetrics ----------------------------
(***************************************************************************)
(* The counter outbox_jobs_total next to the rows it reports on.  counted  *)
(* is what a monitoring system adds up over all worker processes, the dead *)
(* ones included; poll counts when a handler ends, before mark.            *)
(***************************************************************************)
EXTENDS Outbox, Functions

\* The jobs of a table and the worker processes can be counted.
ASSUME MetricsAssumption == IsFiniteSet(Jobs) /\ IsFiniteSet(Workers)

VARIABLE counted  \* outbox_jobs_total by result

\* The label under which the end of a handler run is counted.
Result(w) == IF outcome'[w] = "ok" THEN "done" ELSE "failed"

MetricsInit == Init /\ counted = [result \in {"done", "failed"} |-> 0]

HandlerEnds(w) == HandlerReturns(w) \/ \E error \in Errors : HandlerRaises(w, error)

BadCounted(w) ==
  /\ HandlerEnds(w)
  /\ counted' = IF outcome'[w] = "ok" THEN [counted EXCEPT !["done"] = @ + 1] ELSE counted

Counted(w) ==
  /\ HandlerEnds(w)
  /\ counted' = [counted EXCEPT ![Result(w)] = @ + 1]

Uncounted ==
  /\ Next
  /\ \A w \in Workers : pc[w] = "running" => pc'[w] # "mark"
  /\ UNCHANGED counted

MetricsNext == Uncounted \/ \E w \in Workers : Counted(w)

MetricsSpec     == MetricsInit /\ [][MetricsNext]_<<vars, counted>>
MetricsFairSpec == MetricsSpec /\ Fairness

-----------------------------------------------------------------------------
\* The jobs a worker has yet to run the handler of, as durably claimed.
Unrun(w) == Held(w) \ (IF pc[w] \in {"mark", "write", "commit"} THEN {job[w]} ELSE {})

Attempts == SumFunction(attempts)
Waiting  == SumFunction([w \in Workers |-> Cardinality(Unrun(w))])

\* The counter counts attempts, not jobs: every durable attempt exactly once,
\* when its handler ends, be it before a retry or the last; only a crash loses
\* some, and nothing is counted twice.  (That the documents promise something
\* else is CountsTerminalOutcomes.)
AttemptsAreCounted ==
  LET total == counted["done"] + counted["failed"] + Waiting
  IN  total <= Attempts /\ (crashes = 0 => total = Attempts)

\* What architecture.md and the help text of outbox_jobs_total say: the counter
\* counts terminal outcomes.  It would never exceed the jobs that have ended
\* and those whose end is about to be stored.
CountsTerminalOutcomes ==
  counted["done"] + counted["failed"]
    <= Cardinality({j \in Jobs : status[j] \in Terminal})
       + Cardinality({w \in Workers : pc[w] \in {"mark", "write", "commit"}})
=============================================================================
