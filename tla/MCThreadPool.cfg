CONSTANTS
  t1 = t1
  t2 = t2
  k1 = k1
  k2 = k2
  k3 = k3
  Threads = {t1, t2}
  Tasks = {k1, k2, k3}
  Exit = Exit
  NoTask = NoTask
  MaxQueue = 1
  MaxFaults = 2
SPECIFICATION FairSpec
INVARIANTS
  WaitingIsAccounted
  QueueIsBounded
  NoLostSignal
  TaskIsInOnePlace
  DoneIsAnnounced
  DestroyLeavesNothing
PROPERTIES
  TaskCompletes
  DestroyReturns
CHECK_DEADLOCK FALSE
