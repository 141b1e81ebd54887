SPECIFICATION Spec
CONSTANTS
  Run = {r1}
  Worker = {w1, w2}
  Sweeper = {s1}
  MaxAttempts = 3
  MaxFence = 2
  SlowSweep = TRUE
  MayStall = TRUE
  InsertsFail = TRUE
  Executor = {w1, w2}
  Owner = {r1}
  Call = {post}
  Honest = {post}
  MaxDone = 2
  ReconcileFails = TRUE
SYMMETRY Processes
INVARIANTS LeaseInv SalvageKept LedgerInv
PROPERTIES LastWordSpec AtMostOnceSpec
CHECK_DEADLOCK FALSE
