SPECIFICATION Spec
CONSTANTS
  b1 = b1
  b2 = b2
  BankIds = {b1, b2}
  Branches = 2
  Strategies = {"a", "b"}
  Arms <- MCArms
  MaxCuts = 0
INVARIANTS
  TypeOK
  MarkerCertifiesMembers
  OneStrategySet
  WithinCapacity
  StrategiesHidden
  BankResumable
PROPERTIES
  InvocationEnds
\* The operator need not start another invocation.
CHECK_DEADLOCK FALSE
