\* Three shots, a first run and two resumed ones, each of which may be killed anywhere.
\* The system may stop: lig-series is started MaxRuns times at most.
SPECIFICATION Spec
CONSTANTS
  Count = 3
  MaxRuns = 3
  Seeds = {1, 2}
INVARIANTS
  TypeOK
  ManifestTruth
  DoneArePlanned
  ExitTellsTheTruth
CHECK_DEADLOCK FALSE
