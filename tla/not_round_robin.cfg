SPECIFICATION FairSpec
CONSTANTS
  MAX_PROCESS = 3
  MAX_TICK = 1
  NULL = NULL
  N_SEMAPHORE = 1
  InitVals = {0}
  MaxDown = 1
  MaxUp = 0
PROPERTIES
  EveryoneRuns
