SPECIFICATION Spec
CONSTANTS
  c1 = c1
  c2 = c2
  p1 = p1
  NoCaller = NoCaller
  Callers <- TwoCallers
  Procs <- OneProc
  HomeOf <- AllAtHome
  Lane <- BuildLane
  FixRounds = 1
  MaxSpend = 0
  Costs <- NoCosts
  SteerPauses = TRUE
  ReviseFrom <- FromImplement2
  Commands <- RunResume
  Overlap = "any"
  LiveEdits = FALSE
  MaxCommands = 2
  MaxStarts = 0
  MaxTree = 1
CHECK_DEADLOCK FALSE
INVARIANTS AtMostOneExecutor
