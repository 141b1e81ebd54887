SPECIFICATION FairSpec
CONSTANTS
  Thread = {t1}
  Drain = {d1, d2}
  Reaper = {r1}
  MaxJobs = 2
  Window = 2
  MailboxLimit = 2
  MaxDepth = 1
  Kinds = {"plain"}
  KitThreads = {}
  CrashAt = {"generate", "save"}
  FailAt = {"validate"}
  SilentAt = {}
  SlowSweep = FALSE
  MayAge = TRUE
  MayCancel = FALSE
  ReapersDie = FALSE
PROPERTIES EveryTurnEnds
CHECK_DEADLOCK FALSE
