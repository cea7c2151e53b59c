\* A crash while the data file is rewritten loses what it held.
SPECIFICATION Spec
CONSTANTS
  r1 = r1
  t1 = t1
  t2 = t2
  Regular = {r1}
  Retry = {t1, t2}
  LastDay = 2
  MaxPending = 1
  MaxCrashes = 1
  MaxFaults = 0
INVARIANTS
  NothingForgotten
