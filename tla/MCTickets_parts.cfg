SPECIFICATION TicketsSpec
CONSTANTS
  t1 = t1
  c1 = c1
  c2 = c2
  Tickets = {t1}
  Callers = {c1, c2}
  Pauses = {"steer"}
  MaxRuns = 2
  MaxCommands = 3
  Entries = {e1, e2}
  Busy = {e1}
  None = None
  e1 = e1
  e2 = e2
  MaxCycles = 1
  MaxRounds = 1
  MaxBase = 2
  MaxPatch = 3
  MaxDeeds = 3
  Adapters <- MCAdapters
  MaxFaults = 2
  MaxPeople = 1
  Kinds = {"github", "gitlab", "azure-devops", "jira"}
  Persons = {"ada", "bob"}
  Allowed = {"ada"}
  Page = 3
  MaxEvents = 4
  MaxRoles = 2
  Trackers <- MCTrackers
  Overlap = 1
  Retries = 2
  MaxClock = 5
  Runs = {run1, run2}
  run1 = run1
  run2 = run2
  Ticket <- MCTicket
  TreeKinds <- MCKinds
  MaxWork = 1
  MaxOps = 2
INVARIANTS EntriesSound WorkIsAccounted QueueTellsOutcome EntryTellsLanding ToldOnce AuthorizedByTrusted PollSeesAll TreesAreKept
PROPERTIES OpenBranchKept
CONSTRAINT FewDeeds
SYMMETRY Interchangeable
CHECK_DEADLOCK FALSE
