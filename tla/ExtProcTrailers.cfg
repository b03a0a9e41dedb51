SPECIFICATION Spec
CONSTANTS
  Sizes <- MCSizes
  MaxSent = 4
  MaxBody = 3
  Trailers = TRUE
  Override = {TRUE}
  None = None
CHECK_DEADLOCK FALSE
INVARIANTS
  AlwaysStripped
