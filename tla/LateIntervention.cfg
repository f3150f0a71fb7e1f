SPECIFICATION Spec
CONSTANTS
  NoText = NoText
  Unit = 2
  Reserve = 1
  PrefixUnits = 2
  MinRounds = 1
  NoGapStreak = 1
  Costs <- MCCosts
  MaxRuns = 2
INVARIANTS
  TypeOK
  SiblingsAgree
\* A refused workspace or session stops both arms for good.
CHECK_DEADLOCK FALSE
