SPECIFICATION FairSpec
CONSTANTS
  Capacity = 2
  f1 = f1
  f2 = f2
  Task <- MCTask
  inputFiles <- MCInputFiles
  Main = Main
  Watcher = Watcher
  None = None
  PromptHandlers = TRUE
  MaxSpawn = 2
  MaxLosses = 0
  MaxLeavers = 2
  MaxBuildFailures = 0
  MaxBadWrites = 0
  MaxBadSockets = 0
PROPERTIES
  LeaversAreStopped
CHECK_DEADLOCK FALSE
