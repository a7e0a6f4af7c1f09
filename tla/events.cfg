SPECIFICATION Spec
CONSTANTS
  NULL = NULL
  Questions = {q1, q2}
  OwnerChoices = {c1}
  Approvals = {}
  MaxEvents = 2
  MaxBreaks = 1
  MaxTrouble = 2
INVARIANTS NoStaleCard MissingCardExplained DecidedOnce LogSound
PROPERTY StreamSpec
CHECK_DEADLOCK FALSE
