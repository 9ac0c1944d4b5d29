\* A worker that marks after its lease has passed to another one.
SPECIFICATION Spec
CONSTANTS
  j1 = j1
  j2 = j2
  j3 = j3
  w1 = w1
  w2 = w2
  Null = Null
  Jobs <- TwoJobs
  Workers <- TwoWorkers
  Limit = 1
  MaxAttempts = 2
  Errors = {"short"}
  Overrun = TRUE
  MaxClaims = 3
  MaxCrashes = 0
SYMMETRY Symmetry
PROPERTIES
  TerminalIsFinal
