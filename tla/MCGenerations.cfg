SPECIFICATION Spec
CONSTANTS
  NumStages = 1
  Targets <- One
  Cohort <- Cohort1
  Preds <- NoPreds1
  Policy <- RetriedPolicy
  Placement <- MCPlacement
  MaxDispatchBatch = 3
  MaxGeneration = 2
  Commands = {"retire", "regenerate", "abort", "pause"}
  DispatchMayRefuse = TRUE
  CancelMayFail = FALSE
INVARIANTS
  SuccessIsAttested
CHECK_DEADLOCK FALSE
