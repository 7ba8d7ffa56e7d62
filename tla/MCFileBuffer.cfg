SPECIFICATION FairSpec
CONSTANTS
  PerFile = 3
  MaxFiles = 2
  MaxBatch = 2
  IndexMod = 4
  DirectFire = TRUE
  WriteFaults = TRUE
  ReadFaults = TRUE
  RaiseFaults = TRUE
  MaxPush = 10
INVARIANTS CacheSound InOrder
PROPERTIES IsLossyQueue StopEnds Drains
CHECK_DEADLOCK FALSE
