SPECIFICATION Spec
CONSTANTS
  f1 = f1
  f2 = f2
  f3 = f3
  Task <- MCTask
  inputFiles <- MCInputFiles
  None = None
  Thread = {t1, t2}
  Worker = {w1, w2}
INVARIANTS
  AnnouncedOnlyWhenCompleted
