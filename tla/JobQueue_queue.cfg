\* Four jobs and a history of two: two evictions, a job cancelled in the
\* middle, late callbacks of two pumps, a worker thread that does not start.
\* The system may stop: the clients of the instance submit four jobs at most.
SPECIFICATION FairSpec
CONSTANTS
  MaxJobs = 4
  MaxFinished = 2
  MaxSteps = 1
  Pumps = {stdout, stderr}
  ThreadStartMayFail = TRUE
INVARIANTS
  TypeOK
  ActiveOrder
  NoJobLost
  OutcomeMatchesState
PROPERTIES
  Retention
  OverIsOver
  StartsInArrivalOrder
  ImplementsService
CHECK_DEADLOCK FALSE
