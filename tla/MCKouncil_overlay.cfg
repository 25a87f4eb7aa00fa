SPECIFICATION LiveSpec
CONSTANTS
  n1 = n1
  b1 = b1
  b2 = b2
  Nodes = {n1}
  Blocks = {b1, b2}
  None = None
  MaxStarts = 2
  MaxChanges = 3
  MaxLosses = 2
INVARIANTS TypeOK Enforced KeepsTrying BookIsTrue StoringIsTrue
PROPERTIES Reaches Forgets
