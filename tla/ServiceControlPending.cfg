\* A configuration that cannot be loaded: the stop is accepted and nobody obeys it.
SPECIFICATION FairSpec
CONSTANTS
  MaxJobs = 1
CHECK_DEADLOCK FALSE
PROPERTIES
  PendingStopEnds
