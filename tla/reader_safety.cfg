SPECIFICATION FairSpec
CONSTANTS
  c1 = c1
  c2 = c2
  s1 = s1
  s2 = s2
  None = None
  Clients <- TwoClients
  Slots <- TwoSlots
  MaxVersion = 1
  Contents <- EveryVersionNew
  MaxFaults = 1
INVARIANTS TypeOK HashedIsShown SnapshotIsShown
PROPERTIES BroadcastOnChange TilesConverge
CHECK_DEADLOCK FALSE
