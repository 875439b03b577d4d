\* Every environment: signals, early SIGINT, E2BIG; two processes, two hosts.
CONSTANTS
  MaxFiles = 3
  NProc = 2
  NDests = 2
  PathMem = {1, 2}
  StartMem = 1
  InitMaxMem = 5
  Headroom = 1
  ExecIsRsync = TRUE
  Pids = {p1, p2, p3}
  NoPid = NoPid
  ExitCodes = {0, 12, 255, 1}
  E2BIGs = TRUE
  Signals = TRUE
  EarlyKill = TRUE
SPECIFICATION Spec
SYMMETRY PidSymmetry
INVARIANTS TypeOK ChildrenKnown NoFileTwice FailoverCoherent BatchFits FailoverInTime
PROPERTY QuietChange
