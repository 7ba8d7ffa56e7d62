SPECIFICATION FairTimerSpec
CONSTANTS
  t1 = t1
  t2 = t2
  Timer = {t1, t2}
  Near = 2
  Level = 2
  Levels = 3
  MaxDelay = 7
  MaxLag = 2
PROPERTIES IsTimerQueue Fires
