CONSTANTS
  w1 = w1
  w2 = w2
  Workers = {w1, w2}
  Nobody = Nobody
  ListenN = 3
  Reuseport = {2}
  ConnectionN = 8
  FreeN = 1
  MaxArrivals = 2
  MaxFaults = 2
SPECIFICATION Spec
SYMMETRY Symmetry
INVARIANTS
  MutexNotLeaked
  OnlyOwnerListens
  OwnerListensOnAll
