SPECIFICATION LiveSpec
CONSTANTS
  NumJobs = 2
  CronJobs = {2}
  OwnJobs = {1}
  Callable = {1}
  MaxRuns = 2
  MaxErrors = 2
  MaxChanges = 0
  None = None
PROPERTY QueuedInstructionsExecute
CHECK_DEADLOCK FALSE
