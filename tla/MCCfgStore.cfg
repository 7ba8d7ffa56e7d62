SPECIFICATION FairSpec
CONSTANTS
  v0 = v0
  v1 = v1
  v2 = v2
  empty = empty
  part = part
  None = None
  Garbled = Garbled
  Values <- ThreeValues
  Default <- v0
  Torn <- TornTexts
  Empty <- empty
  MaxChanges = 2
  MaxFaults = 3
INVARIANTS SavedIsDurable
PROPERTIES BootsLastSaved SavedInTheEnd
CHECK_DEADLOCK FALSE
