SPECIFICATION FairSpec
CONSTANTS
  period = period
  flush = flush
  flush2 = flush2
  Firers <- ThreeFirers
  MaxSize = 3
  MaxBatch = 2
  MaxPush = 6
INVARIANTS Kept SentInOrder
PROPERTIES Drains
CHECK_DEADLOCK FALSE
