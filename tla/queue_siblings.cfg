SPECIFICATION FairSpec
CONSTANTS
  Thread = {t1}
  Drain = {d1}
  Reaper = {}
  MaxJobs = 2
  Window = 2
  MailboxLimit = 2
  MaxDepth = 1
  Kinds = {"dm"}
  KitThreads = {}
  CrashAt = {}
  FailAt = {"validate"}
  SilentAt = {}
  SlowSweep = FALSE
  MayAge = FALSE
  MayCancel = FALSE
  ReapersDie = FALSE
PROPERTIES QueuedTurnsRun
CHECK_DEADLOCK FALSE
