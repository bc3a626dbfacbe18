SPECIFICATION Spec
CONSTANTS
  Designs <- McDesigns
  Listeners = {"a", "b", "p", "w", "y", "c1", "c2"}
  Updates = {"u1", "u2"}
  MaxEvents = 2
  MaxDrives = 2
  MaxTime = 2
  DecimalBits = 4
  UnsizedBits = 4
  IndexBits = 3
INVARIANTS NetsInv Connected WriteReads FileLoaded
PROPERTIES EdgeSeen UpdatesLand DumpShows
CHECK_DEADLOCK FALSE
