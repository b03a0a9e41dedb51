SPECIFICATION FairElectionSpec
CONSTANTS
  r1 = r1
  r2 = r2
  Replica = {r1, r2}
  Period = 7
  Duration = 21
  Latency = 1
  Skew <- OneAhead
  MaxSkew = 1
  Overlap = 8
  MaxFails = 2
  MaxCrashes = 1
  NoHolder = NoHolder
INVARIANTS
  OverlapIsShort
PROPERTIES
  OneFailureKeepsTheLease
  OneLeaderEmerges
