\* Two producers race to a queue of length 1, two of three worker identities at a time, an urgent job.
SPECIFICATION Spec
CONSTANTS
  p1 = p1
  p2 = p2
  w1 = w1
  w2 = w2
  w3 = w3
  j1 = j1
  j2 = j2
  u1 = u1
  Producers = {p1, p2}
  Workers = {w1, w2, w3}
  Jobs = {j1, j2, u1}
  Urgent = {u1}
  MaxThreads = 2
  MaxLen = 1
SYMMETRY ThreadSymmetry
INVARIANTS
  QueueBound
  ThreadBound
  QuietAfterDestroy
PROPERTIES
  PoolSpec
  DoomedTakesNothing
