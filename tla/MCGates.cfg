SPECIFICATION Spec
CONSTANTS
  NumStages = 2
  Targets <- Two
  Cohort <- CohortTwoStages
  Preds <- NoPreds2
  Policy <- GatedPolicy
  Placement <- MCPlacement
  MaxDispatchBatch = 3
  MaxGeneration = 1
  Commands = {"pause", "abort", "approve"}
  DispatchMayRefuse = TRUE
  CancelMayFail = TRUE
INVARIANTS
  StagesInOrder
  GateHoldsWork
  CompletedIsSettled
  CompensationSettled
PROPERTIES
  TargetTableHolds
CHECK_DEADLOCK FALSE
