SPECIFICATION Spec
CONSTANTS
  Capacity = 2
  Main = Main
  Handler = {h1}
  None = None
  MaxSpawn = 4
  MaxLosses = 1
  MaxBuildFailures = 1
  MaxIOErrors = 0
INVARIANTS
  BothManagersNotified
CHECK_DEADLOCK FALSE
