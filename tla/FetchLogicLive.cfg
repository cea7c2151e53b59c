\* The same workers without crashes, under fairness.
SPECIFICATION FairSpec
CONSTANTS
  r1 = r1
  t1 = t1
  Regular = {r1}
  Retry = {t1}
  LastDay = 2
  MaxPending = 1
  MaxCrashes = 0
  MaxFaults = 0
PROPERTIES
  GapsClose
