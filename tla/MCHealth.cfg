SPECIFICATION FairSpec
CONSTANTS
  w1 = w1
  w2 = w2
  t1 = t1
  t2 = t2
  Workers <- MCWorkers
  Targets <- MCTargets
  Scenarios <- MCScenarios
  Lag <- MCLag
  Ahead <- MCAhead
  MaxAge = 5
  DefaultAge = 3
  MaxSkew = 1
  MinConsecutive = 2
  MinHealthy = 2
  MaxPending = 2
  MaxDelay = 0
  MaxRestarts = 1
INVARIANTS
  TypeOK
PROPERTIES
  DispatchRestsOnHealth
  HealthyCohortIsNotHeld
CHECK_DEADLOCK FALSE
