SPECIFICATION Spec
CONSTANTS
  NULL = NULL
  Keys = {k1}
  MaxThreads = 2
  MaxOps = 2
  MaxCalls = 3
  MaxWire = 2
  MaxAsks = 1
  MaxFaults = 1
INVARIANTS OneAtATime TurnsAttended
PROPERTIES NoLateSuccess OperationsEnd
CHECK_DEADLOCK FALSE
