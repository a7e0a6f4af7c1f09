SPECIFICATION Spec
CONSTANTS
  NULL = NULL
  Replies = {1, 2}
  MaxFaults = 1
INVARIANTS ResultJustified NothingLeftOpen
PROPERTIES RunsEnd
CHECK_DEADLOCK FALSE
