SPECIFICATION Spec
CONSTANTS
  s1 = s1 s2 = s2 s3 = s3 v1 = v1 v2 = v2 v3 = v3 v4 = v4 c1 = c1 c2 = c2 c3 = c3 c4 = c4 r1 = r1
  None = None
  Servers = {s1, s2, s3}
  Values = {v1, v2, v3}
  Senders = {1}
  Clients = {c1}
  Readers = {r1}
  Id <- OnlyId
  Elections = {}
  Crashing = {}
  MaxVersion = 2
  MaxRound <- RoundOne
  MaxOutages = 1
SYMMETRY ServersAndValuesAlike
INVARIANTS ReadLatest
CHECK_DEADLOCK FALSE
