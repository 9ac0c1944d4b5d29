\* A handler error too long for one NOTIFY payload.
SPECIFICATION Spec
CONSTANTS
  j1 = j1
  j2 = j2
  j3 = j3
  w1 = w1
  w2 = w2
  Null = Null
  Jobs <- TwoJobs
  Workers <- OneWorker
  Limit = 1
  MaxAttempts = 2
  Errors = {"short", "long"}
  Overrun = FALSE
  MaxClaims = 3
  MaxCrashes = 0
SYMMETRY Symmetry
PROPERTIES
  CommitIsDurable
