\* Two jobs and a stream of one of them, overtaken by the workers at any step.
SPECIFICATION FairSpec
CONSTANTS
  j1 = j1
  j2 = j2
  s1 = s1
  Null = Null
  Jobs <- TwoJobs
  Watched <- OneJob
  Streams <- OneStream
  MaxAttempts = 2
  MaxDeliveries <- Deliveries
  MaxConnects = 1
\* All jobs may be finished and all clients gone.
CHECK_DEADLOCK FALSE
INVARIANTS
  TypeOK
  CaughtUp
  NewestIsCurrent
  ClosedWithFinalStatus
PROPERTIES
  BackOnlyAfterSnapshot
  EndIsTold
