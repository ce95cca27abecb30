SPECIFICATION Spec
CONSTANTS
  CONSBUFSIZE = 3
  shiftcode <- ShiftCode
  togglecode <- ToggleCode
  normalmap <- NormalMap
  shiftmap <- ShiftMap
  ctlmap <- CtlMap
  Keys <- FewKeys
  SerialBytes <- Serial
  MouseEnabled = TRUE
  KbdFifo = 3
  MaxEvents = 3
PROPERTIES
  MouseIgnored
CHECK_DEADLOCK TRUE
