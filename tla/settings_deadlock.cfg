SPECIFICATION FairSpec
CONSTANTS
  States = {"plan", "code", "talk", "fresh", "ask"}
  Start = "plan"
  Choice = {"ask"}
  Open = {"talk"}
  Clear = {"fresh"}
  Model <- Declared
  Undeclared = "none"
  Default = "default"
  MaxThreads = 2
  MaxMoves = 2
  MaxRequests = 2
  MaxPrompts = 0
PROPERTY NoCircularWait
CHECK_DEADLOCK FALSE
