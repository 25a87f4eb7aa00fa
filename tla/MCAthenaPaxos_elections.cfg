SPECIFICATION Spec
CONSTANTS
  s1 = s1 s2 = s2 s3 = s3 v1 = v1 v2 = v2 v3 = v3 v4 = v4 c1 = c1 c2 = c2 c3 = c3 c4 = c4 r1 = r1
  None = None
  Servers = {s1, s2, s3}
  Values = {v1, v2}
  Senders = {1, 2}
  Clients = {c1, c2}
  Readers = {}
  Id <- TwoIds
  Elections = {{s1, s2}}
  Crashing = {}
  MaxVersion = 1
  MaxRound <- RoundOne
  MaxOutages = 0
SYMMETRY ValuesAlike
INVARIANTS TypeOK Agreement
CHECK_DEADLOCK FALSE
