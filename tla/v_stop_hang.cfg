SPECIFICATION FairSpec

CONSTANTS
  MaxHelpers = 1
  InitialWorkers = 2
  WorkerCounts = {2}
  ShadowMode = TRUE
  CreateFails = FALSE
  PauseTimesOut = FALSE
  MayStop = TRUE
  MaxGen = 4
  MaxForks = 0

PROPERTIES
  StopReturns

CHECK_DEADLOCK FALSE
