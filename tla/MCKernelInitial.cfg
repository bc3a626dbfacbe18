\* An initial construct, an always construct without event control, a
\* nonblocking assignment and a $strobe, under the fairness of the handlers.
SPECIFICATION FairSpec
CONSTANTS
  Initials = {i}
  Timed = {t}
  Sensitive = {}
  Assigns = {}
  AssignDelay <- MCAssignDelay
  Constant <- MCNoEvent
  MCDelay = 0
  Updates = {u}
  Monitors = {}
  Strobes = {s}
  Api = FALSE
  MaxTime = 2
  MaxListed = 4
  MaxDepth = 2
INVARIANTS
  KernelInv
  WokenOnce
PROPERTIES
  ImplementsWheel
  TimeAdvancesDrained
  DelayKept
  WheelIsTriggered
  ChangeIsTriggered
CHECK_DEADLOCK FALSE
