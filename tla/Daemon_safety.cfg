\* Two queued jobs, a blocking and a streamed request; timers and unloading may fail.
\* The system may stop: the clients of the instance make four requests at most.
SPECIFICATION Spec
CONSTANTS
  MaxJobs = 2
  MaxFinished = 1
  MaxSteps = 0
  Pumps = {}
  ThreadStartMayFail = FALSE
  Handlers = {h1}
  Streams = {s1}
  Ttls = {0, 2}
  MaxProgress = 1
  UnloadMayFail = TRUE
  TimerMayFail = TRUE
INVARIANTS
  TypeOK
  OneEngineRun
  StreamShape
PROPERTIES
  NoRunForTheGone
  NoEarlyUnload
CHECK_DEADLOCK FALSE
