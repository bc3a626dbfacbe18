CONSTANTS
  DecimalBits = 4
  UnsizedBits = 3
  Shapes <- MCShapes
  Values <- MCValues
SPECIFICATION Spec
INVARIANT RemainderHasSign
CHECK_DEADLOCK FALSE
