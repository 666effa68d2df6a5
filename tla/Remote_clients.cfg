\* Two clients, each queueing or holding its connection, a history of one job
\* and one restart of the daemon.  The system may stop: each client makes one call.
SPECIFICATION Spec
CONSTANTS
  Clients = {a, b}
  MaxRestarts = 1
  MaxJobs = 2
  MaxFinished = 1
  MaxSteps = 0
  Pumps = {}
  ThreadStartMayFail = FALSE
INVARIANTS
  TypeOK
  RenderedOnce
  AbandonedIsCancelled
  ReportIsTrue
PROPERTY CallEnds
CHECK_DEADLOCK FALSE
