CONSTANTS
  e1 = e1
  e2 = e2
  None = None
  Endpoints = {e1, e2}
  Clients = {c1, c2}
  NumPorts = 1
  Port <- OneFibre
  Jobs <- PairJobs
  Moving = {}
  PacketLoss = TRUE
SPECIFICATION FairSpec
INVARIANT LaserAccounted
PROPERTIES LeaseSpec CallsEnd
