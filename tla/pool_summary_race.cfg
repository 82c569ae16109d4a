SPECIFICATION Spec
CONSTANTS
  NWorkers = 1
  Capacity = 2
  Callers = {c1, c2}
  Owner = Owner
  Envelopes = {e1}
  None = None
  EitherOrder = FALSE
SYMMETRY Symmetry
INVARIANTS
  SummaryIsComplete
