SPECIFICATION FairSpec
CONSTANTS
  f1 = f1
  f2 = f2
  f3 = f3
  Task <- MCTask
  inputFiles <- MCInputFiles
  None = None
  Thread = {t1, t2, t3}
  Worker = {w1, w2}
INVARIANTS
  TypeOK
  MonitorOwnership
  TaskConservation
PROPERTIES
  PoolSpec
  WrongOnlyWhileTasksMove
  StarvationFree
