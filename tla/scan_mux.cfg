CONSTANTS
  e1 = e1
  e2 = e2
  None = None
  Endpoints = {e1, e2}
  Clients = {c1}
  NumPorts = 2
  Port <- OneFibre
  Jobs <- LinkJobs
  Moving = {e1}
  PacketLoss = TRUE
SPECIFICATION Spec
PROPERTIES ScanFindsLocked
