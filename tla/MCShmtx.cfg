CONSTANTS
  p1 = p1
  p2 = p2
  p3 = p3
  Procs = {p1, p2, p3}
  Handler = Handler
  Nobody = Nobody
  MaxFaults = 2
SPECIFICATION FairSpec
INVARIANTS
  WakeupAccounting
  NoLostWakeup
  SemaphoreBounded
PROPERTIES
  FreeMutexIsTaken
  DeadOwnerIsEvicted
  ImplementsMutex
CHECK_DEADLOCK FALSE
