SPECIFICATION Spec
CONSTANTS
  MaxRequests = 1
  MaxThreads = 2
  MaxDiffs = 0
  Policies = TRUE
  SlowEntries = TRUE
INVARIANT ClearIsComing
CHECK_DEADLOCK FALSE
