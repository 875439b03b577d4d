\* No signals: two processes, two hosts, transient errors, ssh failures, E2BIG.
CONSTANTS
  MaxFiles = 3
  NProc = 2
  NDests = 2
  PathMem = {2}
  StartMem = 1
  InitMaxMem = 6
  Headroom = 2
  ExecIsRsync = TRUE
  Pids = {p1, p2, p3}
  NoPid = NoPid
  ExitCodes = {0, 12, 255}
  E2BIGs = TRUE
  Signals = FALSE
  EarlyKill = FALSE
SPECIFICATION FairSpec
INVARIANTS NothingLost SuccessMeansDelivered
PROPERTIES SyncEnds ImplementsContract
