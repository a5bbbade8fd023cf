SPECIFICATION FairSpec
CONSTANTS
  Capacity = 2
  Main = Main
  Handler = {h1}
  None = None
  MaxSpawn = 4
  MaxLosses = 1
  MaxBuildFailures = 0
  MaxIOErrors = 0
PROPERTIES
  ServerReturns
CHECK_DEADLOCK FALSE
