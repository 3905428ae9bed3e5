SPECIFICATION Spec
CONSTANTS
  c1 = c1
  c2 = c2
  zero = zero
  other = other
  Clients <- TwoClients
  Requests <- ReaderAndOperator
  Configs <- TwoConfigs
  Zero = zero
  BufferLimit = 9
  Depth = 11
  LastWord = 21
INVARIANTS CompleteEventsOnly NoShortRead RateIsWhole
PROPERTIES StreamSpec
