CONSTANTS
  N = 3
  L = 1
  MaxTakes = 3
  MaxEvents = 2
  MaxLinks = 1
SPECIFICATION Spec
INVARIANTS
  PoolIsWhole
  ClosedIsForgotten
  StaleIsCaught
CHECK_DEADLOCK FALSE
