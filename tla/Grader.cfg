CONSTANTS
  TESTS <- MCTESTS
  Parent <- MCParent
  Points <- MCPoints
  RunsQemu <- MCRunsQemu
  StopLines <- MCStopLines
  Filters <- MCFilters
  Emulators <- MCEmulators
  PIPE = 2
  MaxGrades = 2
SPECIFICATION Spec
INVARIANTS
  TypeOK
  LeftOnlyUnconnected
  ForeignOnlyLate
  PassedWasShown
  FailedWasCut
  ZeroMeansPassed
PROPERTY Ends
CHECK_DEADLOCK FALSE
