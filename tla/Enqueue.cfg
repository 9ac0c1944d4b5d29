\* Three callers that use one key or none and ask twice.
SPECIFICATION FairSpec
CONSTANTS
  Callers = {c1, c2, c3}
  Keys = {k1}
  NoKey = NoKey
  MaxTries = 2
\* Everybody may have been told, or given up.
CHECK_DEADLOCK FALSE
INVARIANTS
  TypeOK
  OneJobPerKey
  AcceptedIsStored
  ConflictHasWinner
PROPERTIES
  RequestsEnd
