SPECIFICATION FairSpec
CONSTANTS
  Capacity = 2
  Main = Main
  Handler = {h1}
  None = None
  MaxSpawn = 4
  MaxLosses = 2
  MaxBuildFailures = 0
  MaxIOErrors = 0
PROPERTIES
  LossIsRepaired
  MissIsHandedBack
CHECK_DEADLOCK FALSE
