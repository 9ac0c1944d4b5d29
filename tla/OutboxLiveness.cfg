\* Two workers, LIMIT 1, crashes: every job ends, and every attempt is counted.
SPECIFICATION MetricsFairSpec
CONSTANTS
  j1 = j1
  j2 = j2
  w1 = w1
  w2 = w2
  Null = Null
  Jobs <- TwoJobs
  Workers <- TwoWorkers
  Limit = 1
  MaxAttempts = 2
  Errors = {"short"}
  Overrun = FALSE
  MaxClaims = 5
  MaxCrashes = 2
INVARIANTS
  AttemptsAreCounted
PROPERTIES
  EveryJobEnds
