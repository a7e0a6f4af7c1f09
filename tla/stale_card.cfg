SPECIFICATION Spec
CONSTANTS
  MaxRequests = 1
  MaxThreads = 1
  MaxDiffs = 0
  Policies = TRUE
  SlowEntries = FALSE
INVARIANT NoStaleCard
CHECK_DEADLOCK FALSE
