SPECIFICATION Spec
CONSTANTS
  Capacity = 2
  f1 = f1
  f2 = f2
  Task <- MCTask
  inputFiles <- MCInputFiles
  Main = Main
  Watcher = Watcher
  None = None
  PromptHandlers = TRUE
  MaxSpawn = 3
  MaxLosses = 1
  MaxLeavers = 0
  MaxBuildFailures = 0
  MaxBadWrites = 0
  MaxBadSockets = 0
INVARIANTS
  MergerReadsAllOutputs
CHECK_DEADLOCK FALSE
