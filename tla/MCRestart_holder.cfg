SPECIFICATION Spec
CONSTANTS
  Capacity = 1
  OldCapacity = 2
  Task = {f1}
  None = None
  MaxSpawn = 3
  MaxLosses = 1
  MaxBuildFailures = 1
INVARIANTS
  EveryHolderIsWatched
CHECK_DEADLOCK FALSE
