SPECIFICATION Spec
CONSTANTS
  NULL = NULL
  Replies = {}
  MaxFaults = 0
INVARIANT ResultAgrees
CHECK_DEADLOCK FALSE
