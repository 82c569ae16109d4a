SPECIFICATION PureSpec
CONSTANTS
  MaxArgs = 4
  Detected = 0
  MaxTime = 2
  MaxSamples = 3
  MaxLong = 20
  MaxRejected = 1
INVARIANTS
  ParsesAsMeant
  DistributionsAreRight
  OrderDoesNotMatter
  DistributionsAgree
CHECK_DEADLOCK FALSE
