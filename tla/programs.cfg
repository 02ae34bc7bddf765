SPECIFICATION Spec
CONSTANTS
  MAX_PROCESS = 5
  MAX_TICK = 1
  NULL = NULL
  N_SEMAPHORE = 4
  InitVals = {0, 1}
  MaxDown = 9
  MaxUp = 9
  Background = 1
  N = 2
  Deposits = 3
  Withdrawals = 2
  MAX = 7
  MAX_THREAD = 3
  MaxStock = 2
INVARIANTS
  MutualExclusion
  NobodyLost
  WaitedForChild
  PrintsWhole
  StockExact
PROPERTIES
  ReturnsIfAlone
  NoLostUpdate
  NothingOverwritten
  NobodyStarves
  SleepsUntilSignal
