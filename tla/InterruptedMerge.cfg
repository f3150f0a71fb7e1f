SPECIFICATION Spec
CONSTANTS
  Invocations = {p1}
  Units = 1
  MaxRestarts = 1
PROPERTIES
  DeletedOnlyAfterMerge
CHECK_DEADLOCK FALSE
