SPECIFICATION FairSpec
CONSTANTS
  a = a
  b = b
  Service = {a, b}
  Owner = a
  MaxId = 2
  MaxMsg = 2
  Units = 2
  Low = {2}
  May <- FirstFrail
CHECK_DEADLOCK FALSE
INVARIANTS WireInOrder Asserts ClosedOnce Flushed
PROPERTIES Settles
