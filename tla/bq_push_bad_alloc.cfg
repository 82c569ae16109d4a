SPECIFICATION FairSpec
CONSTANTS
  Producers = {p1, p2}
  Consumers = {c1}
  Closers = {k1}
  Items = {v1, v2, v3}
  NoItem = NoItem
  NoThread = NoThread
  Capacity = 1
  AllocMayFail = TRUE
PROPERTIES
  RoomIsUsed
