SPECIFICATION FairSpec
CONSTANTS
  Budget = 9
  Reserve = 2
  Refine = TRUE
  InitialLabel = "solve"
  MinRounds = 3
  NoGapStreak = 2
  SpendCap = 10
  MaxKills = 2
  Deltas <- MCDeltas
  TrueUps <- MCTrueUps
INVARIANTS
  TypeOK
  NeverRaises
  OneTranscript
  ProgressRebuilt
  PhaseWindows
PROPERTIES
  NoQueryPastCutoff
  DurableSpendNeverDrops
  RefinesLedger
  AttemptEnds
