CONSTANTS
  N = 3
  L = 2
  MaxTakes = 2
  MaxEvents = 1
  MaxLinks = 0
SPECIFICATION Spec
INVARIANTS
  NothingUndefined
CHECK_DEADLOCK FALSE
