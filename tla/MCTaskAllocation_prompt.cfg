SPECIFICATION Spec
CONSTANTS
  Capacity = 2
  f1 = f1
  f2 = f2
  Task <- MCTask
  inputFiles <- MCInputFiles
  Main = Main
  Watcher = Watcher
  None = None
  PromptHandlers = TRUE
  MaxSpawn = 3
  MaxLosses = 1
  MaxLeavers = 1
  MaxBuildFailures = 1
  MaxBadWrites = 1
  MaxBadSockets = 0
INVARIANTS
  CompletedWasExecuted
  OutputOfCompleted
  NoForgottenTask
PROPERTIES
  ReportsOwnTask
CHECK_DEADLOCK FALSE
