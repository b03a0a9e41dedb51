SPECIFICATION FairSpec
CONSTANTS
  Replica = {r1, r2}
  Kind <- MCKind
  Digest <- MCDigest
  Gen <- MCGen
  None = None
  Router = {x1}
  Unreadable = {"c"}
  Window = 2
  Bound <- MCBound
CHECK_DEADLOCK FALSE
INVARIANTS
  ServesItsReplica
PROPERTIES
  RoutersConverge
