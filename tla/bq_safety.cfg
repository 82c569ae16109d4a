SPECIFICATION Spec
CONSTANTS
  Producers = {p1, p2}
  Consumers = {c1, c2}
  Closers = {k1, k2}
  Items = {v1, v2, v3}
  NoItem = NoItem
  NoThread = NoThread
  Capacity = 2
  AllocMayFail = TRUE
SYMMETRY Symmetry
INVARIANTS
  TypeOK
  FifoConservation
  WithinCapacity
  EndIsFinal
  NoLostItemWakeup
  NoLostSpaceWakeup
  NoSleeperWhenClosed
PROPERTIES
  NothingEntersClosed
  ImplementsChannel
