\* One stop of the service, from its registration to the end of the process.
SPECIFICATION FairSpec
CONSTANTS
  MaxJobs = 2
CHECK_DEADLOCK FALSE
INVARIANTS
  NoNewJobOnDeadLogic
PROPERTIES
  StoppedIsLast
  StopHonoured
  ExitWaitsOnlyForJobs
