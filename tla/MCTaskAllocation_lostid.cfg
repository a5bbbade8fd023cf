SPECIFICATION Spec
CONSTANTS
  Capacity = 3
  f1 = f1
  f2 = f2
  Task <- MCOneTask
  inputFiles <- MCOneFile
  Main = Main
  Watcher = Watcher
  None = None
  PromptHandlers = TRUE
  MaxSpawn = 4
  MaxLosses = 2
  MaxLeavers = 0
  MaxBuildFailures = 1
  MaxBadWrites = 0
  MaxBadSockets = 0
INVARIANTS
  NoForgottenTask
CHECK_DEADLOCK FALSE
