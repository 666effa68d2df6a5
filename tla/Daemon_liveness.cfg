\* One queued job, a blocking and a streamed request; timers and unloading work.
SPECIFICATION FairSpec
CONSTANTS
  MaxJobs = 1
  MaxFinished = 1
  MaxSteps = 0
  Pumps = {}
  ThreadStartMayFail = FALSE
  Handlers = {h1}
  Streams = {s1}
  Ttls = {0, 1}
  MaxProgress = 1
  UnloadMayFail = FALSE
  TimerMayFail = FALSE
PROPERTIES
  EveryoneServed
  UnloadedWhenIdle
  ServesTheQueue
CHECK_DEADLOCK FALSE
