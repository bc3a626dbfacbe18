CONSTANTS
  DecimalBits = 4
  UnsizedBits = 3
  Shapes <- MCShapes
  Values <- MCValues
SPECIFICATION Spec
INVARIANTS
  ExpressionTypeOK
  ArithmeticExact
  UnknownStays
  ComparisonsAgree
  BranchesAgree
  ReadsBack
PROPERTIES
  Repeatable
CHECK_DEADLOCK FALSE
