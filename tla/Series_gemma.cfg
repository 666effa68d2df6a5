\* Two shots; what the story says of a series stopped by a failure.
\* The system may stop: lig-series is started MaxRuns times at most.
SPECIFICATION Spec
CONSTANTS
  Count = 2
  MaxRuns = 1
  Seeds = {1, 2}
INVARIANTS
  FailureIsRecorded
CHECK_DEADLOCK FALSE
