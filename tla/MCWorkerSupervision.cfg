SPECIFICATION Spec
CONSTANTS
  Capacity = 3
  Main = Main
  Handler = {h1}
  None = None
  MaxSpawn = 5
  MaxLosses = 2
  MaxBuildFailures = 1
  MaxIOErrors = 1
INVARIANTS
  TypeOK
  NoOrphan
  IdConservation
  NeverOverCapacity
  WaitIsNotInterrupted
  EveryProcessIsWatched
  NoStaleNotification
  UnwatchedByIOErrorOnly
PROPERTIES
  WorkerPoolSpec
CHECK_DEADLOCK FALSE
