SPECIFICATION Spec
CONSTANTS
  s1 = s1
  s2 = s2
  nothing = nothing
  Nothing = nothing
  Snapshots <- MCSnapshots
  Size <- MCSize
  MaxCells = 5
  TriggerRecords = 1
  MaxEpoch = 3
  ReplacesOpenFiles = TRUE
  LosesPower = TRUE
PROPERTIES
  CompactionIsAtomic
CHECK_DEADLOCK FALSE
