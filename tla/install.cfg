SPECIFICATION Spec
CONSTANTS
  NULL = NULL
  a = a
  b = b
  lib = lib
  m1 = m1
  m2 = m2
  registry = registry
  folder = folder
  Packages = {a, b}
  Libraries = {lib}
  Needs <- NeedsLib
  Mutators = {m1, m2}
  Readers = {r1}
  Sources = {registry, folder}
  MaxVersion = 2
  MaxCommands = 2
  MaxReads = 1
  MaxFaults = 1
SYMMETRY Alike
INVARIANTS IndexOfInstalls OnlyVerifiedRuns
CHECK_DEADLOCK FALSE
