SPECIFICATION TaskSpec
CONSTANTS
  MAX_PROCESS = 4
  MAX_TICK = 1
  NULL = NULL
INVARIANTS
  TaskTypeOK
  OneRunning
  CurrNotReady
  PidOfSlot
  ParentOlder
PROPERTIES
  OffCpuStep
  BlockedYields
