SPECIFICATION Spec
CONSTANTS
  Capacity = 2
  f1 = f1
  f2 = f2
  Task <- MCOneTask
  inputFiles <- MCOneFile
  Main = Main
  Watcher = Watcher
  None = None
  PromptHandlers = FALSE
  MaxSpawn = 4
  MaxLosses = 1
  MaxLeavers = 0
  MaxBuildFailures = 0
  MaxBadWrites = 0
  MaxBadSockets = 1
INVARIANTS
  TypeOK
  RepeatedWorkBounded
PROPERTIES
  OutputsSettled
CHECK_DEADLOCK FALSE
