\* Two shots; what the README says of --resume.
\* The system may stop: lig-series is started MaxRuns times at most.
SPECIFICATION Spec
CONSTANTS
  Count = 2
  MaxRuns = 3
  Seeds = {1, 2}
PROPERTIES
  ResumeRendersOnlyMissing
CHECK_DEADLOCK FALSE
