SPECIFICATION LiveSpec
CONSTANTS
  Mutable = {m1}
  Immutable = {i1}
  Threads = {t1, t2}
  FileSize <- MCFileSize
  DiskSize = 3
  MaxVersion = 3
  MaxCalls = 2
  MaxFaults = 2
  Unanswered = Unanswered
  Failed = Failed
  Same = Same
  Unheard = Unheard
INVARIANTS TypeOK Genuine DiskFits WaitsForOne
PROPERTIES CallEnds Converges
