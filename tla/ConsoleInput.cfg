SPECIFICATION Spec
CONSTANTS
  CONSBUFSIZE = 3
  shiftcode <- ShiftCode
  togglecode <- ToggleCode
  normalmap <- NormalMap
  shiftmap <- ShiftMap
  ctlmap <- CtlMap
  Keys <- AllKeys
  SerialBytes <- Serial
  MouseEnabled = TRUE
  KbdFifo = 4
  MaxEvents = 4
INVARIANTS
  TypeOK
  NoStuckModifier
PROPERTIES
  QueueSpec
  NoPhantomModifier
  KeyboardDrains
CHECK_DEADLOCK TRUE
