SPECIFICATION Spec
CONSTANTS
  Drain = {d1}
  Reaper = {r1}
  MaxJobs = 2
  Window = 2
  CrashAt = {}
  ReapersDie = FALSE
  InsertsFail = FALSE
  MayStall = FALSE
  MayAge = FALSE
  MayCancel = TRUE
  MayTimeOut = TRUE
INVARIANTS SilenceMeansStop
CHECK_DEADLOCK FALSE
