SPECIFICATION FairSpec
CONSTANTS
  c1 = c1
  c2 = c2
  c3 = c3
  c4 = c4
  p1 = p1
  p2 = p2
  p3 = p3
  NoProc = NoProc
  Callers <- FourCallers
  Procs <- ThreeProcs
  HomeOf <- TwoTogether
  Slow = FALSE
CHECK_DEADLOCK FALSE
INVARIANTS ExclusiveUntilACrash
PROPERTIES ImplementsMutex CallEnds
