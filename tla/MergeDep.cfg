CONSTANTS
  Objects = {o1, o2}
  Headers = {h1, h2}
  Source = c
  Faults = {}
SPECIFICATION MDSpec
INVARIANTS
  MDTypeOK
  DependenciesKept
  CurrentIsFresh
SYMMETRY Symmetry
