SPECIFICATION Spec
CONSTANTS
  Thread = {t1, t2}
  Drain = {d1, d2}
  Reaper = {r1}
  MaxJobs = 2
  Window = 2
  MailboxLimit = 2
  MaxDepth = 1
  Kinds = {"plain", "dm", "scheduled", "continuation", "voice", "clear"}
  KitThreads = {t1}
  CrashAt = {}
  FailAt = {"validate", "speak"}
  SilentAt = {}
  SlowSweep = FALSE
  MayAge = FALSE
  MayCancel = FALSE
  ReapersDie = FALSE
SYMMETRY Processes
INVARIANTS OneRunningPerThread
CHECK_DEADLOCK FALSE
