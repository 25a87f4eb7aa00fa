SPECIFICATION LiveSpec
CONSTANTS
  me = me
  n1 = n1
  a1 = a1
  b1 = b1
  v1 = v1
  Servers <- MCServers
  Values = {v1}
  Senders = {1}
  None = None
  Addresses = {a1, b1}
  Capacity = 3
  Me = me
  Immutable = {b1}
  Block = Block
  Torn = Torn
  Factor = 2
  MaxAddresses = 1
  Calls <- MCCalls
  Quora <- MCQuora
  MaxCrashes = 1
  MaxChurn = 2
INVARIANT TypeOK IndexesAgree KeepsItsWord SiloCounts SiloSpace
PROPERTY LossIsNoticed LostIsEvicted
CHECK_DEADLOCK FALSE
