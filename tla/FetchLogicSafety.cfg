\* One regular and two retry workers, as in ServiceMain; a crash and a failure of a file at any point.
SPECIFICATION Spec
CONSTANTS
  r1 = r1
  t1 = t1
  t2 = t2
  Regular = {r1}
  Retry = {t1, t2}
  LastDay = 2
  MaxPending = 1
  MaxCrashes = 1
  MaxFaults = 1
SYMMETRY RetrySymmetry
INVARIANTS
  NoGap
  StoredIsKept
