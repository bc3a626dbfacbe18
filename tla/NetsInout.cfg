SPECIFICATION Spec
CONSTANTS
  Designs <- McInouts
  Listeners = {"b"}
  Updates = {"u1"}
  MaxEvents = 1
  MaxDrives = 2
  MaxTime = 1
  DecimalBits = 4
  UnsizedBits = 4
  IndexBits = 3
INVARIANT InoutReads
CHECK_DEADLOCK FALSE
