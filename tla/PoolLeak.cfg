\* Two first requests that race for the pool.
SPECIFICATION Spec
CONSTANTS
  r1 = r1
  r2 = r2
  s1 = s1
  s2 = s2
  Null = Null
  Requests <- TwoRequests
  Streams <- NoTasks
  PoolSize = 1
  MaxPools = 2
  Staggered = FALSE
  StartFaults = FALSE
INVARIANTS
  NothingLeaks
