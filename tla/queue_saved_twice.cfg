SPECIFICATION Spec
CONSTANTS
  Thread = {t1}
  Drain = {d1}
  Reaper = {r1}
  MaxJobs = 2
  Window = 2
  MailboxLimit = 2
  MaxDepth = 1
  Kinds = {"plain", "voice"}
  KitThreads = {}
  CrashAt = {"speak"}
  FailAt = {"validate"}
  SilentAt = {}
  SlowSweep = FALSE
  MayAge = FALSE
  MayCancel = FALSE
  ReapersDie = FALSE
SYMMETRY Processes
INVARIANTS OneBubblePerTurn
CHECK_DEADLOCK FALSE
