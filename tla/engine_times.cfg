SPECIFICATION TimedSpec
CONSTANTS
  NWorkers = 2
  Capacity = 2
  Callers = {c1, c2}
  Owner = Owner
  MaxTasks = 2
  Envelopes = {1, 2}
  MaxTime = 2
  None = None
  EitherOrder = TRUE
INVARIANTS
  TimingsOrdered
  WindowsDisjoint
  SummaryIsExact
