SPECIFICATION Spec
CONSTANTS
  Capacity = 1
  OldCapacity = 2
  Task = {f1}
  None = None
  MaxSpawn = 3
  MaxLosses = 1
  MaxBuildFailures = 1
INVARIANTS
  TypeOK
  IdsReserved
  WatchersHearTheirWorkers
  StrangersTakeNoTask
PROPERTIES
  CompletedInThisRun
CHECK_DEADLOCK FALSE
