SPECIFICATION Spec
CONSTANTS
  NoText = NoText
  Unit = 2
  Reserve = 1
  PrefixUnits = 2
  MinRounds = 1
  NoGapStreak = 1
  Costs <- MCCosts
  MaxRuns = 2
INVARIANTS
  PrefixAtBoundary
CHECK_DEADLOCK FALSE
