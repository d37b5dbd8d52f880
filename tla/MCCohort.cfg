SPECIFICATION Spec
CONSTANTS
  NumStages = 1
  Targets <- Four
  Cohort <- Cohort1234
  Preds <- NoPreds1
  Policy <- CohortPolicy
  Placement <- MCPlacement
  MaxDispatchBatch = 3
  MaxGeneration = 1
  Commands = {}
  DispatchMayRefuse = TRUE
  CancelMayFail = FALSE
INVARIANTS
  TypeOK
  AttemptLedger
  ConcurrencyBound
  CanaryBound
  AttemptBudget
CHECK_DEADLOCK FALSE
