SPECIFICATION Spec
CONSTANTS
  w1 = w1
  w2 = w2
  a1 = a1
  a2 = a2
  b1 = b1
  key1 = key1
  key2 = key2
  NoWorker = NoWorker
  NoAttempt = NoAttempt
  Workers <- MCWorkers
  Attempts <- MCAttempts
  Keys <- MCKeys
  Key <- MCKey
  Capacity <- MCCapacity
  MaxEffects = 1
  MaxCalls = 1
  Fragile <- MCFragile
INVARIANTS
  TypeOK
  RoutesLeadToTheCarrier
  SlotsAreRoutes
  RunningEffectsAreRouted
  OncePerKey
  AnswersAreTrue
PROPERTIES
  KeepsContract
SYMMETRY MCSymmetry
CHECK_DEADLOCK FALSE
