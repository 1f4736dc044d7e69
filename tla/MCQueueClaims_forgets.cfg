SPECIFICATION Spec
CONSTANTS
  t1 = t1
  c1 = c1
  c2 = c2
  Tickets <- OneTicket
  Callers <- TwoCallers
  Pauses = {"steer"}
  MaxRuns = 1
  MaxCommands = 1
SYMMETRY Interchangeable
CHECK_DEADLOCK FALSE
INVARIANT PublishedCanLand
