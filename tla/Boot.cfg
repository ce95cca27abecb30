SPECIFICATION Spec
CONSTANTS
  SECTSIZE = 2
  HDRSECTS = 2
  ELFHDR = 8
  LOADER = {4, 5}
  A20 = 16
  MEMSIZE = 32
  W = 128
  KERNBASE = 64
  PTSPAN = 32
  WORD = 1
  Images <- Kernels
  FastDisk = FALSE
  MaxPanics = 3
INVARIANTS
  TypeOK
  LoaderIntact
  Loaded
  FetchesKernel
  KernelStartsClean
  PanicSpeaksOnce
PROPERTIES
  Boots
CHECK_DEADLOCK TRUE
