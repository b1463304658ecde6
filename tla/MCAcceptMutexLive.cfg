CONSTANTS
  w1 = w1
  w2 = w2
  Workers = {w1, w2}
  Nobody = Nobody
  ListenN = 1
  Reuseport = {}
  ConnectionN = 8
  FreeN = 1
  MaxArrivals = 2
  MaxFaults = 3
SPECIFICATION FairSpec
PROPERTIES
  PendingIsAccepted
  ImplementsMutex

