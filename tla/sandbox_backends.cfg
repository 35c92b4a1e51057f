CONSTANTS
  Insts = {i1, i2}
  Calls = {c1, c2, c3, c4}
  Providers = {"host", "bwrap", "simple", "named", "common", "shared", "container"}
  MaxRestarts = 1
SPECIFICATION BackendSpec
SYMMETRY Interchangeable
INVARIANTS
  RunsInItsOwn
  RemovedIsGone
CHECK_DEADLOCK FALSE
