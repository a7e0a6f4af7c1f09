SPECIFICATION FairSpec
CONSTANTS
  work = work
  step = step
  gate = gate
  fresh = fresh
  chat = chat
  done = done
  States = {work, step, gate, fresh, chat, done}
  Start = work
  Stateful = {work, step, fresh, chat}
  Choice = {gate}
  Terminal = {done}
  Open = {}
  Clear = {fresh}
  Submits <- SubmitsCore
  Options <- None
  HookTargets <- None
  EntryEmits <- None
  MaxThreads = 4
  MaxCalls = 4
  MaxHandoffs = 1
  MaxCommits = 0
  MaxTurns = 6
  MaxWire = 3
  MaxQueue = 0
  MaxAsks = 1
  MaxFaults = 0
PROPERTIES ClearStatesStartFresh DriveForwardAlone HandoffsFinish
CHECK_DEADLOCK FALSE
