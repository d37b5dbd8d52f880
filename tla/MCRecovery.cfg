SPECIFICATION RecoverySpec
CONSTANTS
  NumStages = 2
  Targets <- Two
  Cohort <- CohortTwoThenOne
  Preds <- Chain2
  Policy <- RestartedPolicy
  Placement <- MCPlacement
  MaxDispatchBatch = 3
  MaxGeneration = 1
  Commands = {"pause", "abort", "approve"}
  DispatchMayRefuse = FALSE
  CancelMayFail = FALSE
  MaxCrashes = 1
  Reconciles = TRUE
INVARIANTS
  RecoveryTypeOK
  RestoredLedger
  PlanSurvives
PROPERTIES
  HistoryRunsForward
CHECK_DEADLOCK FALSE
