\* E2BIG, and SIGINT may reach a child that still has the daemon's handler.
CONSTANTS
  MaxFiles = 3
  NProc = 2
  NDests = 2
  PathMem = {1, 2}
  StartMem = 1
  InitMaxMem = 5
  Headroom = 1
  ExecIsRsync = TRUE
  Pids = {p1, p2, p3}
  NoPid = NoPid
  ExitCodes = {0, 12, 255, 1}
  E2BIGs = TRUE
  Signals = FALSE
  EarlyKill = TRUE
SPECIFICATION Spec
INVARIANT SnapshotHeld
