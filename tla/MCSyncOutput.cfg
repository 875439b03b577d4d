\* Two processes with two files, and as few descriptors as will do: one pipe has been made,
\* and both ends of another are open.
CONSTANTS
  MaxFiles = 3
  NProc = 2
  NDests = 1
  PathMem = {1}
  StartMem = 0
  InitMaxMem = 3
  Headroom = 1
  ExecIsRsync = TRUE
  Pids = {p1, p2, p3}
  NoPid = NoPid
  ExitCodes = {0, 12, 255}
  E2BIGs = TRUE
  Signals = FALSE
  EarlyKill = FALSE
  Fds = {3, 4, 5}
  PipeSize = 1
  Outputs = {1}
SPECIFICATION FairSpecOutput
INVARIANTS TypeOKOutput ReaderHeld NoLeak RoomLeft
PROPERTIES SyncEnds
