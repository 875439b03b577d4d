CONSTANTS
  root = root  a = a  aa = aa  f = f  aaf = aaf
  Root = root
  Dirs <- MCDirs
  Files <- MCFiles
  Parent <- MCParent
  TicksPerSec = 2
  MaxTime = 5
  MaxStops = 1
  Modes <- MCService
  Torn = TRUE
  Blind = FALSE
SPECIFICATION Spec
INVARIANT NothingMissed
