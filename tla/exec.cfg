SPECIFICATION ExecSpec
CONSTANTS
  MAX_PROCESS = 3
  MAX_TICK = 1
  NULL = NULL
  MaxPrograms = 2
  Com = {"prg1.com"}
  Out = {"bank.out", "fork.out"}
CHECK_DEADLOCK FALSE
INVARIANTS
  ShellOrProcess
  ImagesLoaded
PROPERTIES
  CutOnlyWhileLoaded
  TaskSpec
