SPECIFICATION Spec
CONSTANTS
  a1 = a1 a2 = a2
  None = None
  Addresses = {a1}
  Squashes = {"skip", "at_first_position_continue", "at_last_position_stop"}
  MaxSize = 1
  MaxPushes = 6
  MaxFailures = 0
  MaxCrashes = 0
  MaxForeign = 0
INVARIANT Durable
CHECK_DEADLOCK FALSE
