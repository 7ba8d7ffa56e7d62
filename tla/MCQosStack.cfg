SPECIFICATION Spec
CONSTANTS
  m1 = m1
  m2 = m2
  m3 = m3
  m4 = m4
  Msgs <- FourMsgs
  SleepCount = 2
  MaxConnects = 3
INVARIANTS ExactlyOnce
PROPERTIES LosesOnlyBacklog
CHECK_DEADLOCK FALSE
