SPECIFICATION Spec
CONSTANTS
  Invocations = {p1, p2, p3}
  Units = 2
  MaxRestarts = 1
SYMMETRY InvocationSymmetry
INVARIANTS
  TypeOK
  PartialNeverMerged
  FinishedIsDelivered
  WorkspaceKept
  OneWorkerUntilDelivered
PROPERTIES
  PaidWorkKept
\* Every invocation may have ended, with no restart left.
CHECK_DEADLOCK FALSE
