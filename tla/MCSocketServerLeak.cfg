SPECIFICATION FairSpec
CONSTANTS
  a = a
  b = b
  Service = {a, b}
  Owner = a
  MaxId = 1
  MaxMsg = 1
  Units = 2
  Low = {1}
  May <- Steady
CHECK_DEADLOCK FALSE
PROPERTIES ClosingEnds
