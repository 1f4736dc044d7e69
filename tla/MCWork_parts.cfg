SPECIFICATION Spec
CONSTANTS
  Files = {src, test, infra, doc, other}
  Roots = {src, test, doc}
  Tests = {test}
  Infra = {infra}
  Docs = {doc}
  Absent = {test, doc}
  Optional = {infra}
  Criteria = {ac}
  Plans <- MCPlans
  PlanModes <- MCModes
  TaskFiles <- MCFiles
  Candidates <- MCCandidates
  Requests <- MCRequests
  SlotNames = {"A", "B"}
  Texts <- MCTexts
  SlotVotes <- MCVotes
  TestIds = {testId}
  MaxChanged = 2
  MaxRounds = 3
  MaxEdited = 3
  MaxLate = 1
INVARIANTS PushedPassedGates AppliedIsRight PassIsEarned
PROPERTIES StageEnds
CHECK_DEADLOCK FALSE
