\* A sync program that writes more than the pipe holds; not one of the runs of PROJECT.json.
CONSTANTS
  MaxFiles = 2
  NProc = 2
  NDests = 1
  PathMem = {1}
  StartMem = 0
  InitMaxMem = 3
  Headroom = 1
  ExecIsRsync = TRUE
  Pids = {p1, p2, p3}
  NoPid = NoPid
  ExitCodes = {0}
  E2BIGs = FALSE
  Signals = FALSE
  EarlyKill = FALSE
  Fds = {3, 4, 5, 6}
  PipeSize = 1
  Outputs = {2}
SPECIFICATION FairSpecOutput
PROPERTY SyncEnds
CHECK_DEADLOCK FALSE
