SPECIFICATION FairFilesSpec
CONSTANTS
  Files = 2
  Content <- MCContent
  Bad <- MCBad
  MaxTime = 5
  Absent = Absent
CHECK_DEADLOCK FALSE
INVARIANTS
  AtRestCurrent
PROPERTIES
  FilesConverge
