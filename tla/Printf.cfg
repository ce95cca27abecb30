SPECIFICATION Spec
CONSTANTS
  Char <- Characters
  UInt = 256
  ULongLong = 4096
  MAXERROR = 3
  Formats <- Printed
  Sizes <- BufferSizes
INVARIANTS
  TypeOK
  PrintsAsWritten
  BufferHoldsPrefix
PROPERTIES
  Returns
