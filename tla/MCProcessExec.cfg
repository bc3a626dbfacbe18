SPECIFICATION Spec
CONSTANTS
  Programs <- ResumableConstructs
  MaxTime = 4
INVARIANTS
  ExecInv
  InProgramOrder
  DoneInItsTime
  NoFlagLeft
CHECK_DEADLOCK FALSE
