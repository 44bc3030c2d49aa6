SPECIFICATION BackgroundSpec
CONSTANTS
  NumJobs = 2
  CronJobs = {2}
  OwnJobs = {1}
  Callable = {2}
  MaxRuns = 2
  MaxErrors = 1
  MaxChanges = 2
  None = None
  r1 = r1
  r2 = r2
  Resumers = {r1, r2}
  MaxTransfers = 3
INVARIANT TimersCarryTheRow OneRunPerJob EnabledJobsAreServed FilesAreAccounted
PROPERTY OneShotsRunOnce OneShotsComplete PromisedCallbackComes
CHECK_DEADLOCK FALSE
