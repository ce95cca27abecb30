SPECIFICATION Spec
CONSTANTS
  N = 5
  Tables <- AllTables
  Addresses = {0, 1, 2, 3}
  W = 5
INVARIANTS
  TypeOK
  SearchFinds
  NamesNearestFunction
PROPERTIES
  Terminates
CHECK_DEADLOCK TRUE
