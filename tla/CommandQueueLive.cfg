\* The same threads with two ordinary jobs, under fairness; no symmetry.
SPECIFICATION FairSpec
CONSTANTS
  p1 = p1
  p2 = p2
  w1 = w1
  w2 = w2
  j1 = j1
  j2 = j2
  Producers = {p1, p2}
  Workers = {w1, w2}
  Jobs = {j1, j2}
  Urgent = {}
  MaxThreads = 2
  MaxLen = 1
PROPERTIES
  AcceptedJobRuns
  BlockedProducerProceeds
  DestructorReturns
