SPECIFICATION Spec
CONSTANTS
  NWorkers = 2
  Capacity = 2
  Callers = {c1, c2}
  Owner = Owner
  Envelopes = {e1, e2, e3}
  None = None
  EitherOrder = TRUE
SYMMETRY Symmetry
INVARIANTS
  TypeOK
  JoinedIsQuiet
  SamplesMatchFutures
  RejectedIsCounted
  GoneIsClean
PROPERTIES
  MergeIsStable
  HonoursContract
