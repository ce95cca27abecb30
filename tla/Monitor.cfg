SPECIFICATION Spec
CONSTANTS
  CRT_ROWS = 3
  CRT_COLS = 3
  BUFLEN = 6
  MAXARGS = 3
  Commands <- Names
  Typed <- Chars
  InitScreens <- Screens
  MaxTyped = 7
INVARIANTS
  TypeOK
  EchoMatchesLine
  ArgvSplitsLine
PROPERTIES
  PromptReturns
CHECK_DEADLOCK FALSE
