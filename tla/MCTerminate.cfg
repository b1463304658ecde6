CONSTANTS
  Pids = {1, 2, 3, 4, 5}
  Crew <- OneWorker
  MaxSlots = 4
  FirstDelay = 50
  KillDelay = 60
  Signals = {"TERM", "QUIT", "HUP", "IO"}
  MaxSignals = 2
  FaultKinds = {"crash", "hang", "fatal"}
  MaxFaults = 2
SPECIFICATION LiveSpec
PROPERTIES
  TerminateCompletes
  QuitCompletes
CHECK_DEADLOCK FALSE
