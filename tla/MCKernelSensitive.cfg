\* An always @ construct, a delayed continuous assignment and an initial
\* construct.
SPECIFICATION Spec
CONSTANTS
  Initials = {i}
  Timed = {}
  Sensitive = {s}
  Assigns = {a}
  AssignDelay <- MCAssignDelay
  Constant <- MCForced
  MCDelay = 1
  Updates = {}
  Monitors = {m}
  Strobes = {}
  Api = TRUE
  MaxTime = 1
  MaxListed = 3
  MaxDepth = 2
INVARIANTS
  WokenOnce
PROPERTIES
  ImplementsQueue
CHECK_DEADLOCK FALSE
