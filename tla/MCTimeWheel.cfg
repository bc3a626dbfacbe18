\* The wheel alone, up to time 3 and two statements per node.
SPECIFICATION Spec
CONSTANTS
  Stmts = {p, q}
  MaxTime = 3
  MaxListed = 2
INVARIANTS
  WheelInv
PROPERTIES
  ImplementsAgenda
CHECK_DEADLOCK FALSE
