SPECIFICATION Spec
CONSTANTS
  c1 = c1
  c2 = c2
  p1 = p1
  NoCaller = NoCaller
  Callers <- OneCaller
  Procs <- OneProc
  HomeOf <- OneAtHome
  Lane <- ChoreLane
  FixRounds = 2
  MaxSpend = 0
  Costs <- NoCosts
  SteerPauses = FALSE
  ReviseFrom <- FromImplement
  Commands <- RunRevise
  Overlap = "none"
  LiveEdits = FALSE
  MaxCommands = 4
  MaxStarts = 0
  MaxTree = 1
CHECK_DEADLOCK FALSE
INVARIANTS RestoredRoundTripsFirst
