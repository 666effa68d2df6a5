\* One edit on a machine with memory for the weights but not for the projector.
SPECIFICATION Spec
CONSTANTS
  first = first
  second = second
  Procs = {first}
  Worlds <- EditWorlds
  Menu <- EditMenu
  SeedLimit = 3
  MaxLogs = 2
  MaxRemovals = 0
  LateInterrupt = FALSE
INVARIANT EditFitsInMemory
CHECK_DEADLOCK FALSE
