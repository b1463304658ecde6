CONSTANTS
  Pids = {1, 2, 3, 4}
  Crew <- OneWorker
  MaxSlots = 4
  FirstDelay = 50
  KillDelay = 60
  Signals = {"USR2", "WINCH", "HUP", "QUIT"}
  MaxSignals = 4
  FaultKinds = {}
  MaxFaults = 0
SPECIFICATION Spec
INVARIANT MasterLeavesNobody
CHECK_DEADLOCK FALSE
