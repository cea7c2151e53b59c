\* One regular and a retry fetcher: where they can block one another.
SPECIFICATION FairSpec
CONSTANTS
  r1 = r1
  t1 = t1
  c1 = c1
  Crons = {c1}
  RegularFetchers = {r1}
  RetryFetchers = {t1}
CHECK_DEADLOCK FALSE
INVARIANTS
  OnlyLogAndConfig
PROPERTIES
  StopUnlessCrossed
