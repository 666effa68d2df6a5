\* Two lines through pipes that hold one; no timeout, or one of two polls; a second Ctrl-C.
\* The system may stop: it is one run of an engine.
SPECIFICATION FairSpec
CONSTANTS
  MaxLines = 2
  Room = 1
  TailLines = 1
  Timeouts = {0, 1}
  MaxInterrupts = 2
INVARIANTS
  TypeOK
  AbortWins
  NothingLeftBehind
PROPERTIES
  ErrorHasLastLines
  EngineReturns
CHECK_DEADLOCK FALSE
