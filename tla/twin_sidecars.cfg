SPECIFICATION Spec
CONSTANTS
  NULL = NULL
  Keys = {k1}
  MaxThreads = 2
  MaxOps = 0
  MaxCalls = 2
  MaxWire = 3
  MaxAsks = 0
  MaxFaults = 0
INVARIANTS OneLivePerKey
CHECK_DEADLOCK FALSE
