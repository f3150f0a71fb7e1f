SPECIFICATION Spec
CONSTANTS
  k1 = k1
  k2 = k2
  k3 = k3
  Keys = {k1, k2, k3}
  Sessions = {s1}
  Rotation <- MCRotation3
  Buffer = 1
  Fallback = 2
  ResetTimes <- MCResetTimes
  LastReport = 2
  MaxTime = 4
PROPERTIES
  RoundRobin
CHECK_DEADLOCK FALSE
