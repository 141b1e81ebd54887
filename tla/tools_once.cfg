SPECIFICATION Spec
CONSTANTS
  Drain = {d1, d2}
  Reaper = {r1, r2}
  MaxJobs = 3
  Window = 2
  CrashAt = {"run", "done", "report"}
  ReapersDie = TRUE
  InsertsFail = TRUE
  MayStall = FALSE
  MayAge = FALSE
  MayCancel = TRUE
  MayTimeOut = TRUE
SYMMETRY Processes
INVARIANTS ToolInv FailureIsFinal
PROPERTIES OneOutcomeSpec
CHECK_DEADLOCK FALSE
