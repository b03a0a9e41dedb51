SPECIFICATION FairSpec
CONSTANTS
  Requests = {r1, r2}
  Permits = 1
  Snapshots <- MCSnapshots
  None = None
CHECK_DEADLOCK FALSE
INVARIANTS
  PermitsAddUp
  OneSnapshotPerRequest
  UpstreamHearsOnlyCleared
PROPERTIES
  EveryRequestDecided
