\* One command at a time, four in a row, any of which may be killed or fail anywhere.
\* The system may stop: there are MaxCalls commands.
SPECIFICATION FairSpec
CONSTANTS
  Process = {p1}
  Chunks = 2
  MaxCalls = 4
  MaxExcess = 1
  BadServer = TRUE
INVARIANTS
  TypeOK
  InstalledIsVerified
  PartIsPrefix
PROPERTIES
  PullEnds
CHECK_DEADLOCK FALSE
