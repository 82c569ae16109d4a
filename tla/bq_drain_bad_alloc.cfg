SPECIFICATION FairSpec
CONSTANTS
  Producers = {p1}
  Consumers = {c1, c2}
  Closers = {k1}
  Items = {v1}
  NoItem = NoItem
  NoThread = NoThread
  Capacity = 1
  AllocMayFail = TRUE
PROPERTIES
  CloseReleasesAll
