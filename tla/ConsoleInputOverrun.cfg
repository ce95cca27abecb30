SPECIFICATION HSpec
CONSTANTS
  CONSBUFSIZE = 3
  shiftcode <- ShiftCode
  togglecode <- ToggleCode
  normalmap <- NormalMap
  shiftmap <- ShiftMap
  ctlmap <- CtlMap
  Keys <- FewKeys
  SerialBytes <- Serial
  MouseEnabled = FALSE
  KbdFifo = 4
  MaxEvents = 3
PROPERTIES
  ZeroIfNoneWaiting
CHECK_DEADLOCK TRUE
