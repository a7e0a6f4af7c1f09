SPECIFICATION FairSpec
CONSTANTS
  work = work
  step = step
  gate = gate
  fresh = fresh
  chat = chat
  done = done
  States = {work, step, gate, fresh, chat, done}
  Start = work
  Stateful = {work, step, fresh, chat}
  Choice = {gate}
  Terminal = {done}
  Open = {chat}
  Clear = {fresh}
  Submits <- SubmitsCore
  Options <- OptionsCore
  HookTargets <- None
  EntryEmits <- None
  MaxThreads = 3
  MaxCalls = 3
  MaxHandoffs = 1
  MaxCommits = 3
  MaxTurns = 4
  MaxWire = 2
  MaxQueue = 1
  MaxAsks = 0
  MaxFaults = 1
INVARIANT FreshClearOnce
PROPERTIES OnlyLiveThreadCommits NoWedge
CHECK_DEADLOCK FALSE
