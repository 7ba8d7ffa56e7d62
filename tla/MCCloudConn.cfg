SPECIFICATION FairSpec
CONSTANTS
  p1 = p1
  p2 = p2
  p3 = p3
  Procs <- ThreeProcs
  None = None
  PromptAck = TRUE
  MaxFaults = 3
  MaxRequests = 3
INVARIANTS ClientSound NeverStranded SingleProcedure
PROPERTIES ClosedForGood Settles DisconnectEnds
CHECK_DEADLOCK FALSE
