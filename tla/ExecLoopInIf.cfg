SPECIFICATION Spec
CONSTANTS
  Programs <- LoopInIf
  MaxTime = 4
INVARIANTS
  DoneInItsTime
CHECK_DEADLOCK FALSE
