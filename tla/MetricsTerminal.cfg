\* Two workers, no crash: an attempt that is retried is counted as a failed job.
SPECIFICATION MetricsSpec
CONSTANTS
  j1 = j1
  j2 = j2
  w1 = w1
  w2 = w2
  Null = Null
  Jobs <- TwoJobs
  Workers <- TwoWorkers
  Limit = 1
  MaxAttempts = 2
  Errors = {"short"}
  Overrun = FALSE
  MaxClaims = 5
  MaxCrashes = 0
INVARIANTS
  CountsTerminalOutcomes
