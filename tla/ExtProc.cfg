SPECIFICATION FairSpec
CONSTANTS
  Sizes <- MCSizes
  MaxSent = 4
  MaxBody = 3
  Trailers = FALSE
  Override = {TRUE, FALSE}
  None = None
CHECK_DEADLOCK FALSE
INVARIANTS
  TypeOK
  OnlyDecidedGoesOn
PROPERTIES
  ResponseNamesDecision
  EveryMessageAnswered
