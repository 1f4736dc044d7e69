SPECIFICATION Spec
CONSTANTS
  p1 = p1
  p2 = p2
  NoProc = NoProc
  DeadProc = DeadProc
  Procs <- TwoProcs
  MaxHandles = 1
  Rescanners <- OneProc
CHECK_DEADLOCK FALSE
INVARIANTS StopReleases
