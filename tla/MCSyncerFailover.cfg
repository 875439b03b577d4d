\* Two processes, two hosts, nothing but ssh failures and successes.
CONSTANTS
  MaxFiles = 3
  NProc = 2
  NDests = 2
  PathMem = {1, 2}
  StartMem = 1
  InitMaxMem = 5
  Headroom = 1
  ExecIsRsync = TRUE
  Pids = {p1, p2, p3}
  NoPid = NoPid
  ExitCodes = {0, 255}
  E2BIGs = FALSE
  Signals = FALSE
  EarlyKill = FALSE
SPECIFICATION Spec
INVARIANT AllFailedMeansFailover
