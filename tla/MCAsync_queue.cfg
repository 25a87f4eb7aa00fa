SPECIFICATION LiveSpec
CONSTANTS
  a1 = a1 a2 = a2
  None = None
  Addresses = {a1, a2}
  Squashes = {"stop"}
  MaxSize = 1
  MaxPushes = 3
  MaxFailures = 1
  MaxCrashes = 2
  MaxForeign = 1
INVARIANTS TypeOK ReadYourWrites Durable Ordered
PROPERTIES PlaysInOrder Drains SyncEnds
CHECK_DEADLOCK FALSE
