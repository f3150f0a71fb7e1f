SPECIFICATION Spec
CONSTANTS
  Budget = 4
  Reserve = 1
  MaxMessages = 2
  Cost <- MCCost
  MaxRetries = 1
  MaxPhases = 2
  MaxKills = 1
  MaxFaults = 1
INVARIANTS
  TypeOK
  ChargedOnce
  ReportedIsCharged
  TextIsOfItsQuery
  CutoffStopsEveryLeg
  RetriesBounded
PROPERTIES
  CompletionIsFresh
  AnswerIsCommitted
