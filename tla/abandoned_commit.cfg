SPECIFICATION Spec
CONSTANTS
  work = work
  step = step
  gate = gate
  fresh = fresh
  chat = chat
  done = done
  States = {work, step, gate, fresh, chat, done}
  Start = work
  Stateful = {work, step, fresh, chat}
  Choice = {gate}
  Terminal = {done}
  Open = {}
  Clear = {fresh}
  Submits <- SubmitsCore
  Options <- None
  HookTargets <- Hooks
  EntryEmits <- None
  MaxThreads = 3
  MaxCalls = 2
  MaxHandoffs = 1
  MaxCommits = 2
  MaxTurns = 3
  MaxWire = 2
  MaxQueue = 1
  MaxAsks = 0
  MaxFaults = 0
PROPERTY AbandonedNeverMutates
CHECK_DEADLOCK FALSE
