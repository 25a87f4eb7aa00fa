SPECIFICATION Spec
CONSTANTS
  a1 = a1 a2 = a2
  None = None
  Addresses = {a1}
  Squashes = {"stop"}
  MaxSize = 2
  MaxPushes = 3
  MaxFailures = 0
  MaxCrashes = 0
  MaxForeign = 0

PROPERTY SyncWaits
CHECK_DEADLOCK FALSE
