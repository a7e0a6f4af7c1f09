SPECIFICATION Spec
CONSTANTS
  work = work
  step = step
  gate = gate
  fresh = fresh
  chat = chat
  done = done
  States = {work, step, gate, fresh, chat, done}
  Start = work
  Stateful = {work, step, fresh, chat}
  Choice = {gate}
  Terminal = {done}
  Open = {chat}
  Clear = {fresh}
  Submits <- SubmitsAll
  Options <- OptionsCore
  HookTargets <- Hooks
  EntryEmits <- Emits
  MaxThreads = 3
  MaxCalls = 2
  MaxHandoffs = 2
  MaxCommits = 2
  MaxTurns = 3
  MaxWire = 2
  MaxQueue = 1
  MaxAsks = 1
  MaxFaults = 1
INVARIANTS UnusableOnlyWhileClearing ParkedForBoundThread
CHECK_DEADLOCK FALSE
