CONSTANT
  Calls <- MCCalls
SPECIFICATION Spec
INVARIANTS
  TypeOK
  RepStaysInside
  KeepsPromise
