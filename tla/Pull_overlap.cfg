\* Two pulls of one artifact at the same time; what the module docstrings say of the marker.
\* The system may stop: there are MaxCalls commands.
SPECIFICATION Spec
CONSTANTS
  Process = {p1, p2}
  Chunks = 2
  MaxCalls = 2
  MaxExcess = 0
  BadServer = FALSE
INVARIANTS
  OverlappingPullsVerified
CHECK_DEADLOCK FALSE
