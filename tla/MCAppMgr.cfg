SPECIFICATION FairSpec
CONSTANTS
  r1 = r1
  r2 = r2
  r3 = r3
  r4 = r4
  Ops <- ThreeOps
  PromptErrors = TRUE
INVARIANTS Contained Managed SerialSafe
PROPERTIES StopEnds
CHECK_DEADLOCK FALSE
