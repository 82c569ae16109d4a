SPECIFICATION CliSpec
CONSTANTS
  NWorkers = 1
  Capacity = 2
  Callers = {main}
  Main = main
  Owner = Owner
  MaxTasks = 2
  Envelopes = {1, 2}
  FailEvery = {0}
  None = None
  EitherOrder = TRUE
INVARIANTS
  SignalStopsTheRun
