SPECIFICATION Spec
CONSTANTS
  States = {"plan", "code", "talk", "fresh", "ask"}
  Start = "plan"
  Choice = {"ask"}
  Open = {"talk"}
  Clear = {"fresh"}
  Model <- Declared
  Undeclared = "none"
  Default = "default"
  MaxThreads = 2
  MaxMoves = 3
  MaxRequests = 2
  MaxPrompts = 1
INVARIANT DeclaredModelUsed
CHECK_DEADLOCK FALSE
