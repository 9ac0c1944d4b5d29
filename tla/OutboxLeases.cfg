\* Two workers on one table, leases that outlive their holders, two crashes.
SPECIFICATION Spec
CONSTANTS
  j1 = j1
  j2 = j2
  j3 = j3
  w1 = w1
  w2 = w2
  Null = Null
  Jobs <- ThreeJobs
  Workers <- TwoWorkers
  Limit = 2
  MaxAttempts = 2
  Errors = {"short"}
  Overrun = FALSE
  MaxClaims = 5
  MaxCrashes = 2
SYMMETRY Symmetry
INVARIANTS
  TypeOK
  SingleHolder
  MarkDecidesOnFreshAttempts
  RetryBudget
  FinishedIffDone
  LeaseIffRunning
  DoneMeansHandled
  FailedMeansExhausted
PROPERTIES
  ImplementsLifecycle
