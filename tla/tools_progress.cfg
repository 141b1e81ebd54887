SPECIFICATION FairSpec
CONSTANTS
  Drain = {d1, d2}
  Reaper = {r1}
  MaxJobs = 2
  Window = 1
  CrashAt = {"scan", "run", "check", "done", "failed"}
  ReapersDie = FALSE
  InsertsFail = FALSE
  MayStall = TRUE
  MayAge = TRUE
  MayCancel = FALSE
  MayTimeOut = FALSE
INVARIANTS EveryOutcomeTold
PROPERTIES EveryJobComesBack
CHECK_DEADLOCK FALSE
