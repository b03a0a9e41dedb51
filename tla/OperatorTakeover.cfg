SPECIFICATION FairSpec
CONSTANTS
  Replica = {r1, r2}
  Kind <- MCKind
  Content <- MCContent
  Start <- MCStart
  Blamed <- MCBlamed
  ListOrder <- MCListOrder
  StatusRank <- MCStatusRank
  HashedKind <- MCHashedKind
  LeaderElect = TRUE
  Bound <- TakeoverBound
  None = None
CHECK_DEADLOCK FALSE
PROPERTIES
  TakeoverPublishes
