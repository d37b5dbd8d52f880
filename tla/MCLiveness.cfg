SPECIFICATION RecoveryFairSpec
CONSTANTS
  NumStages = 3
  Targets <- Two
  Cohort <- CohortOneTwoOne
  Preds <- Chain3
  Policy <- AutomaticPolicy
  Placement <- MCPlacement
  MaxDispatchBatch = 3
  MaxGeneration = 1
  Commands = {}
  DispatchMayRefuse = FALSE
  CancelMayFail = FALSE
  MaxCrashes = 2
  Reconciles = FALSE
PROPERTIES
  RunsToAnEnd
CHECK_DEADLOCK FALSE
