SPECIFICATION Spec
CONSTANTS
  Invocations = {p1, p2, p3}
  Units = 1
  MaxRestarts = 0
SYMMETRY InvocationSymmetry
INVARIANTS
  DuplicatesLocked
CHECK_DEADLOCK FALSE
