SPECIFICATION Spec
CONSTANTS
  NumStages = 2
  Targets <- Two
  Cohort <- CohortTwoStages
  Preds <- Chain2
  Policy <- UndoablePolicy
  Placement <- MCPlacement
  MaxDispatchBatch = 3
  MaxGeneration = 1
  Commands = {}
  DispatchMayRefuse = FALSE
  CancelMayFail = FALSE
INVARIANTS
  CompensationNeverHalts
CHECK_DEADLOCK FALSE
