SPECIFICATION Spec
CONSTANTS
  main = main
  data = data
  Files = {main, data}
  Walked = {main}
  Typed = {main}
  p1 = p1
  p2 = p2
  Loaders = {p1, p2}
  MaxVersion = 1
  MaxEdits = 2
  MaxLoads = 3
  MaxFaults = 1
SYMMETRY Processes
INVARIANTS NeverStale TornExplained
CHECK_DEADLOCK FALSE
