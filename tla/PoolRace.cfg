\* A surface with tasks and the worker; a request and as many streams as
\* connections race for the first pool; transactions that do not start; one
\* Ctrl-C at any time.
SPECIFICATION LauncherSpec
CONSTANTS
  r1 = r1
  s1 = s1
  s2 = s2
  Null = Null
  SERVICES <- TwoServices
  Requests <- OneRequest
  Streams <- TwoStreams
  PoolSize = 2
  MaxPools = 2
  Staggered = FALSE
  StartFaults = TRUE
  Ctrl_C = TRUE
\* main ends; or a stream or a lost connection keeps it from ending.
CHECK_DEADLOCK FALSE
INVARIANTS
  LauncherTypeOK
  Conserved
  NobodyIsForgotten
  CulpritIsReported
PROPERTIES
  RequestsEnd
  SecondConnectionComes
  FailureStopsAll
