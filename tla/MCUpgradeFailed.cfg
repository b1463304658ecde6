CONSTANTS
  Pids = {1, 2, 3}
  Crew <- OneWorker
  MaxSlots = 3
  FirstDelay = 50
  KillDelay = 60
  Signals = {"USR2", "HUP"}
  MaxSignals = 2
  FaultKinds = {"exec"}
  MaxFaults = 1
SPECIFICATION Spec
PROPERTY HupReloads
CHECK_DEADLOCK FALSE
