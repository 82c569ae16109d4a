SPECIFICATION FairSpec
CONSTANTS
  Producers = {p1, p2}
  Consumers = {c1, c2}
  Closers = {k1}
  Items = {v1, v2}
  NoItem = NoItem
  NoThread = NoThread
  Capacity = 1
  AllocMayFail = FALSE
PROPERTIES
  PushReturns
  StopReleasesAll
  ConsumersFinish
