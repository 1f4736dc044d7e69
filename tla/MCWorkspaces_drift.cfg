SPECIFICATION Spec
CONSTANTS
  run1 = run1
  run2 = run2
  Runs = {run1, run2}
  Ticket <- MCTicket
  Kinds <- MCPlain
  MaxWork = 1
  MaxOps = 2
INVARIANTS TamperedMeansTampered
CHECK_DEADLOCK FALSE
