CONSTANTS
  Pids = {1, 2, 3, 4}
  Crew <- OneWorker
  MaxSlots = 3
  FirstDelay = 50
  KillDelay = 60
  Signals = {"USR1", "USR2", "WINCH", "HUP"}
  MaxSignals = 3
  FaultKinds = {"spawn", "exec", "fatal", "config", "crash"}
  MaxFaults = 2
SPECIFICATION Spec
INVARIANTS
  TypeOK
  ChildrenAreKnown
PROPERTY PostponedByHupOnly
CHECK_DEADLOCK FALSE
