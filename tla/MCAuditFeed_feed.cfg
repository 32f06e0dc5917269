SPECIFICATION FairSpec
CONSTANTS
  Clients = {c1}
  MaxEvents = 3
  MaxRotations = 2
  Capacity = 1
INVARIANTS NoGap ReadExactly
PROPERTIES CatchesUp
