SPECIFICATION FairSpec
CONSTANTS
  Proc = {r1, r2}
  Peer <- MCPeer
  Upstreams <- MCUpstreams
  FailTimeout = 0
  MaxTicks = 1
  MaxGets = 3
INVARIANTS TypeOK ConnsAreCounted MaxConnsKept WeightsBalance OneProbe TriedIsUsed
PROPERTIES ImplementsReadWrite RequestEnds
CHECK_DEADLOCK FALSE
