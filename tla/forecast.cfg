SPECIFICATION Spec
CONSTANTS
  c1 = c1
  c2 = c2
  HorizonDays = 2
  TrainDays = 1
  ValidationDays = 1
  TestDays = 2
  CoverageFloorPercent = 80
  RowId <- MCRowId
  Callers <- MCCallers
  History = 6
  MaxEvents = 7
  Histories <- MCHistories
  NewEvents <- MCNewEvents
  ObservationDay = 4
  Scores <- MCScores
  Risks <- MCRisks
  MaxCalls = 2
  MaxTroubles = 1
CHECK_DEADLOCK FALSE
INVARIANTS
  NoFutureLeak
  RuntimeMatchesEvaluation
  PromotionIsEarned
  OneAnswerPerInput
  BaselinesNeverConflict
  
