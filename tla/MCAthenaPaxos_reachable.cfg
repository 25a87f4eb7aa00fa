SPECIFICATION Spec
CONSTANTS
  s1 = s1 s2 = s2 s3 = s3 v1 = v1 v2 = v2 v3 = v3 v4 = v4 c1 = c1 c2 = c2 c3 = c3 c4 = c4 r1 = r1
  None = None
  Servers = {s1, s2, s3}
  Values = {v1, v2}
  Senders = {1, 2}
  Clients = {c1, c2}
  Readers = {r1}
  Id <- TwoIds
  Elections = {}
  Crashing = {c1, c2}
  MaxVersion = 1
  MaxRound <- RoundTwo
  MaxOutages = 0
SYMMETRY ServersAlike
INVARIANTS ReadVersion
PROPERTIES ImplementsConsensus ConfirmedIsFinal
CHECK_DEADLOCK FALSE
