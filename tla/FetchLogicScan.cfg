\* A failed date is asked for again at once, whatever the schedule says.
SPECIFICATION Spec
CONSTANTS
  r1 = r1
  t1 = t1
  t2 = t2
  Regular = {r1}
  Retry = {t1, t2}
  LastDay = 2
  MaxPending = 1
  MaxCrashes = 0
  MaxFaults = 0
INVARIANTS
  OneAttemptPerScan
