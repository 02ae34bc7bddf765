SPECIFICATION SoloSpec
CONSTANTS
  MAX_PROCESS = 3
  MAX_TICK = 1
  NULL = NULL
  N_SEMAPHORE = 2
  InitVals = {0, 1}
  MaxDown = 2
  MaxUp = 2
INVARIANTS
  QueueExact
PROPERTIES
  CountingSemaphores
  TaskSpec
