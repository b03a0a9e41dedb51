SPECIFICATION Spec
CONSTANTS
  Writers = {1, 2}
  Lower <- MCLower
  DefaultNamespace = "default"
  KeyBefore <- MCKeyBefore
  None = None
  Drafts <- MCDrafts
  Stores <- MCStores
  WatchNamespace = None
  MaxWrites = 2
  MaxFaults = 1
CHECK_DEADLOCK FALSE
INVARIANTS
  NoDanglingReference
  CompileIgnoresOrder
PROPERTIES
  CreateVerdictIsExact
  AdmittedIsClean
