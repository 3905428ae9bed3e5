SPECIFICATION TluAlone
CONSTANTS
  c1 = c1
  c2 = c2
  Clients <- OneClient
  Channels <- TwoChannels
  Requests <- AllRequests
  Callers <- TwoCallers
  Asks <- AllAsks
  no_cdr = TRUE
  Word = 2
  LastTime = 2
  LastCount = 1
  Devices <- SomeDevices
  Present <- OneEndpoint
  RegSpace <- Registers
  SFPs <- SomeSFPs
  Byte = 4
  LastCommand = 2
  WarnAt = 1
  FullAt = 2
  MostSent = 1
  LatestTime = 1
  Width = 4
  Mantissa = 3
  Exponent = 2
INVARIANTS OnlySwingTweaked
