SPECIFICATION StackSpec
CONSTANTS
  MAX_PROCESS = 1
  MAX_TICK = 1
  NULL = NULL
  MaxPrograms = 1
  Com = {"prg1.com"}
  Out = {}
  KERNEL_STACK_SIZE = 2048
  FRAME = 8
CHECK_DEADLOCK FALSE
INVARIANTS
  KernelStackFits
