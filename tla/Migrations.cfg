\* Every graph of three revisions, two processes that upgrade to any target.
SPECIFICATION Spec
CONSTANTS
  u1 = u1
  u2 = u2
  None = None
  Revisions <- ThreeRevisions
  Upgrades <- TwoUpgrades
  Legacies <- NoneOrTwo
\* A cyclic chain of migrations never starts.
CHECK_DEADLOCK FALSE
SYMMETRY Symmetry
INVARIANTS
  TypeOK
  RunsOnce
  ParentsFirst
  TargetReached
  BlockedIffUnrooted
  OrdersAgree
  NoCircle
