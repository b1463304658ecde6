CONSTANTS
  Pids = {1, 2, 3, 4, 5}
  Crew <- WorkerAndLoader
  MaxSlots = 5
  FirstDelay = 50
  KillDelay = 60
  Signals = {"HUP", "USR1", "QUIT"}
  MaxSignals = 2
  FaultKinds = {"crash"}
  MaxFaults = 1
SPECIFICATION Spec
INVARIANTS
  ExitingIsTold
  OldConfigRetires
  CrewIsWhole
  MasterLeavesNobody
  ZombieIsPending
CHECK_DEADLOCK FALSE
