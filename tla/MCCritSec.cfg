SPECIFICATION FairSpec
CONSTANTS
  c1 = c1
  c2 = c2
  c3 = c3
  c4 = c4
  Threads <- FourThreads
  None = None
  MaxDepth = 2
INVARIANTS Orderly
PROPERTIES NoBarging Served
