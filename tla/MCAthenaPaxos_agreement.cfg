SPECIFICATION Spec
CONSTANTS
  s1 = s1 s2 = s2 s3 = s3 v1 = v1 v2 = v2 v3 = v3 v4 = v4 c1 = c1 c2 = c2 c3 = c3 c4 = c4 r1 = r1
  None = None
  Servers = {s1, s2, s3}
  Values = {v1, v2, v3, v4}
  Senders = {1, 2, 3, 4}
  Clients = {c1, c2, c3, c4}
  Readers = {}
  Id <- FourIds
  Elections = {}
  Crashing = {c1, c3}
  MaxVersion = 0
  MaxRound <- RoundOne
  MaxOutages = 2
SYMMETRY ServersAlike
ACTION_CONSTRAINT InTurn
INVARIANTS Agreement
CHECK_DEADLOCK FALSE
