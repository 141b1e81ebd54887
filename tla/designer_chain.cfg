SPECIFICATION FairSpec
CONSTANTS
  Page = {p1}
  Worker = {w1, w2}
  Reaper = {r1}
  MaxDepth = 1
  Window = 1
  MaxJobs = 3
  MaxRoots = 1
  MaxFaults = 1
INVARIANTS DesignerInv ChildrenFound EndingsExplained
PROPERTIES EndingsStay RelaySpec BriefsEnd
CHECK_DEADLOCK FALSE
