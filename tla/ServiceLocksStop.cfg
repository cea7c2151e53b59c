\* One regular and a retry fetcher: the stop signal is not always obeyed.
SPECIFICATION FairSpec
CONSTANTS
  r1 = r1
  t1 = t1
  c1 = c1
  Crons = {c1}
  RegularFetchers = {r1}
  RetryFetchers = {t1}
CHECK_DEADLOCK FALSE
PROPERTIES
  StopCompletes
