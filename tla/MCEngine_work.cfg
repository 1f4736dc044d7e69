SPECIFICATION FairSpec
CONSTANTS
  c1 = c1
  c2 = c2
  p1 = p1
  NoCaller = NoCaller
  Callers <- OneCaller
  Procs <- OneProc
  HomeOf <- OneAtHome
  Lane <- WorkLane
  FixRounds = 2
  MaxSpend = 1
  Costs <- UnitCosts
  SteerPauses = FALSE
  ReviseFrom <- FromImplement1
  Commands <- RunResume
  Overlap = "none"
  LiveEdits = TRUE
  MaxCommands = 1
  MaxStarts = 1
  MaxTree = 2
CHECK_DEADLOCK FALSE
INVARIANTS PushedWasReviewed BackstopNeverFirst
PROPERTIES ExecutionEnds
