SPECIFICATION Spec
CONSTANTS
  CRT_ROWS = 3
  CRT_COLS = 2
  WAIT = 2
  Output <- Text
  InitScreens <- Bios
  MaxOutput = 4
INVARIANTS
  TypeOK
PROPERTIES
  PageSpec
  PutcReturns
CHECK_DEADLOCK TRUE
