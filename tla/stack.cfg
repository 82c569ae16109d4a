SPECIFICATION StackFairSpec
CONSTANTS
  NWorkers = 1
  Capacity = 1
  Callers = {c1, c2}
  Owner = Owner
  Envelopes = {e1, e2}
  None = None
  EitherOrder = FALSE
INVARIANTS
  GoneIsUntouched
PROPERTIES
  ImplementsPool
  CallsReturn
  FuturesResolve
