CONSTANTS
  Objects = {o1, o2}
  Headers = {h1, h2}
  Source = c
  Faults = {"full disk"}
SPECIFICATION MDSpec
INVARIANT DependenciesKept
SYMMETRY Symmetry
