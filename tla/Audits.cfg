SPECIFICATION Spec
CONSTANTS
  NoText = NoText
  None = None
  d1 = d1
  d2 = d2
  A = A
  B = B
  p1 = p1
  p2 = p2
  Dirs = {d1, d2}
  Procs = {p1, p2}
  Units = 4
  Trajectories <- MCTrajectories
  Scores = {0, 7}
  Steps = {1, 3}
  Arms <- MCArms
  MaxKills = 1
SYMMETRY MCSymmetry
INVARIANTS
  TypeOK
  VerdictsOfText
PROPERTIES
  RecordsFrozen
  AcquiredForGood
\* The operator need not start another invocation.
CHECK_DEADLOCK FALSE
