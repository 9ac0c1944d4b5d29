\* As many streams as connections: each holds one and waits for another.
SPECIFICATION FairSpec
CONSTANTS
  r1 = r1
  r2 = r2
  s1 = s1
  s2 = s2
  Null = Null
  Requests <- NoTasks
  Streams <- TwoStreams
  PoolSize = 2
  MaxPools = 2
  Staggered = TRUE
  StartFaults = FALSE
\* The streams wait for each other: this is what the run shows.
CHECK_DEADLOCK FALSE
PROPERTIES
  SnapshotsAreSent
