\* Two commands at once on five machines; a command ends, so the system may stop.
SPECIFICATION Spec
CONSTANTS
  first = first
  second = second
  Procs = {first, second}
  Worlds <- MCWorlds
  Menu <- MCMenu
  SeedLimit = 3
  MaxLogs = 2
  MaxRemovals = 1
  LateInterrupt = FALSE
INVARIANTS
  TypeOK
  RefusedMeansNothingDone
  ImageHasSidecar
  BatchTellsTheTruth
  AdmittedByTheRules
  LogRetention
CHECK_DEADLOCK FALSE
