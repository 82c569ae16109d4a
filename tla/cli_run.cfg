SPECIFICATION CliFairSpec
CONSTANTS
  NWorkers = 2
  Capacity = 1
  Callers = {main}
  Main = main
  Owner = Owner
  MaxTasks = 4
  Envelopes = {1, 2, 3, 4}
  FailEvery = {0, 2}
  None = None
  EitherOrder = TRUE
INVARIANTS
  ReportIsExact
  ExitCodeTellsTheOutcome
  AtMostOneMore
PROPERTIES
  RunEnds
  ConstructorUnwinds
