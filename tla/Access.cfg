\* Two tabs, three logins, two keys, a role that comes and goes, reloads, expiry
\* and a provider that may fail.
SPECIFICATION AccessSpec
CONSTANTS
  t1 = t1
  t2 = t2
  Tabs <- TwoTabs
  MaxLogins = 3
  MaxKeys = 2
  Faults = TRUE
\* The bound on logins may be used up.
CHECK_DEADLOCK FALSE
INVARIANTS
  AccessTypeOK
  FailuresHaveCauses
  StatesAreSpent
PROPERTIES
  RevokedRolesRunOut
