SPECIFICATION Spec
CONSTANTS
  Thread = {t1}
  Drain = {d1, d2}
  Reaper = {r1, r2}
  MaxJobs = 3
  Window = 2
  MailboxLimit = 2
  MaxDepth = 2
  Kinds = {"plain", "continuation"}
  KitThreads = {}
  CrashAt = {"generate", "deliver", "enqueue"}
  FailAt = {"validate", "voice", "read"}
  SilentAt = {}
  SlowSweep = FALSE
  MayAge = FALSE
  MayCancel = FALSE
  ReapersDie = FALSE
SYMMETRY Processes
INVARIANTS LiveTurnKeepsItsRow SavedOnce OneBubblePerTurn NoWorkLost ChainsEnd PromiseIsQueued
CHECK_DEADLOCK FALSE
