SPECIFICATION FairSpec
CONSTANTS
  o1 = o1
  o2 = o2
  Operators <- MCOperators
  Operations <- MCOperations
  Document = TRUE
  MaxSessions = 1
  MaxTries = 3
  MaxRollouts = 5
  MaxFaults = 1
INVARIANTS
  TypeOK
  AppliedOnce
  GateApprovedOnce
  AcknowledgedIsKept
  OneChangePerDocument
PROPERTIES
  EveryRequestIsAnswered
CHECK_DEADLOCK FALSE
