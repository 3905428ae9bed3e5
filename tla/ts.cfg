SPECIFICATION FairSpec
CONSTANTS
  c1 = c1
  c2 = c2
  Clients <- TwoClients
  Requests <- AllRequests
  Times <- TwoTimes
  Base = 4
INVARIANTS NeverTorn LoadedAsAsked
PROPERTIES BroadcastAfterLoad CallsEnd
