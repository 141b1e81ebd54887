SPECIFICATION Spec
CONSTANTS
  Thread = {t1}
  Drain = {d1, d2}
  Reaper = {r1}
  MaxJobs = 2
  Window = 2
  MailboxLimit = 2
  MaxDepth = 1
  Kinds = {"plain"}
  KitThreads = {}
  CrashAt = {"generate", "salvage"}
  FailAt = {"validate", "settle", "enqueue", "save", "voice", "speak", "read", "close"}
  SilentAt = {"validate", "clearing", "refusing", "closing", "generate", "absorb", "deliver", "salvage", "mark", "settle", "enqueue", "save", "voice", "speak", "read", "close"}
  SlowSweep = TRUE
  MayAge = FALSE
  MayCancel = TRUE
  ReapersDie = TRUE
SYMMETRY Processes
INVARIANTS QueueInv DrainsApart AbsorbedIsNotAnswered
PROPERTIES SerialTurnsSpec StoppedIsFinal
CHECK_DEADLOCK FALSE
