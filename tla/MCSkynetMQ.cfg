SPECIFICATION FairSpec
CONSTANTS
  a = a
  b = b
  w1 = w1
  w2 = w2
  timer = timer
  None = None
  Service = {a, b}
  Boot = a
  Worker = {w1, w2}
  Outside = {timer}
  Weight <- Weights
  MaxMsg = 2
CHECK_DEADLOCK FALSE
INVARIANTS RefsExact OneHolder Scheduled
PROPERTIES Answered WorkersEnd
