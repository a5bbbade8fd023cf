SPECIFICATION FairSpec
CONSTANTS
  Capacity = 2
  f1 = f1
  f2 = f2
  Task <- MCOneTask
  inputFiles <- MCOneFile
  Main = Main
  Watcher = Watcher
  None = None
  PromptHandlers = TRUE
  MaxSpawn = 3
  MaxLosses = 1
  MaxLeavers = 1
  MaxBuildFailures = 1
  MaxBadWrites = 0
  MaxBadSockets = 0
PROPERTIES
  FinishesUnlessStuck
CHECK_DEADLOCK FALSE
