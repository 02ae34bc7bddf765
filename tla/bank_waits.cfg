SPECIFICATION Spec
CONSTANTS
  MAX_PROCESS = 3
  MAX_TICK = 1
  NULL = NULL
  N_SEMAPHORE = 1
  InitVals = {0, 1}
  MaxDown = 9
  MaxUp = 9
  Background = 1
  Deposits = 3
  Withdrawals = 2
PROPERTIES
  ParentReturns
