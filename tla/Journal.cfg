SPECIFICATION Spec
CONSTANTS
  Requests = {1, 2, 3}
  Reporters = {1, 2}
  Capacity = 2
  None = None
  MaxFailures = 2
  MaxStops = 1
CHECK_DEADLOCK FALSE
INVARIANTS
  LossIsBounded
  JoinIsSettled
PROPERTIES
  JournalDrains
