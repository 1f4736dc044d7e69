SPECIFICATION Spec
CONSTANTS
  c1 = c1
  c2 = c2
  p1 = p1
  NoCaller = NoCaller
  Callers <- TwoCallers
  Procs <- OneProc
  HomeOf <- AllAtHome
  Lane <- BuildLane
  FixRounds = 1
  MaxSpend = 0
  Costs <- NoCosts
  SteerPauses = TRUE
  ReviseFrom <- FromImplement2
  Commands <- SteerCommands
  Overlap = "none"
  LiveEdits = FALSE
  MaxCommands = 2
  MaxStarts = 1
  MaxTree = 1
CHECK_DEADLOCK FALSE
SYMMETRY Perms
INVARIANTS AtMostOneExecutor StatusTellsExecutor DecisionsHonoured
PROPERTIES FinishedIsFinal CancelHonoured
