SPECIFICATION Spec
CONSTANTS
  a = a
  b = b
  h = h
  e = e
  s = s
  t = t
  f = f
  g = g
  u = u
  x = x
  v = v
  Root = Root
  STAY = STAY
  NULL = NULL
  Nodes <- AllNodes
  Parent <- Tree
  Initial <- Starts
  Workflows <- Candidates
  MaxCommits = 3
  p = p
  q = q
  Slots <- TwoSlots
INVARIANTS ReportExplained FinalsHandled UpdatesKept EndInReach
SYMMETRY Swaps
CHECK_DEADLOCK FALSE
