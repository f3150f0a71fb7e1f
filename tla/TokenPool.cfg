SPECIFICATION FairSpec
CONSTANTS
  k1 = k1
  k2 = k2
  k3 = k3
  Keys = {k1, k2}
  Sessions = {s1, s2}
  Rotation <- MCRotation
  Buffer = 1
  Fallback = 2
  ResetTimes <- MCResetTimes
  LastReport = 2
  MaxTime = 4
INVARIANTS
  TypeOK
  NoStaleWait
PROPERTIES
  CooldownsOnlyGrow
  AcquireReturns
\* Every session may have failed on an empty pool, with nothing left to happen.
CHECK_DEADLOCK FALSE
