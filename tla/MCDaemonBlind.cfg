\* A search may fail to read a directory's rctime; not one of the runs of PROJECT.json.
CONSTANTS
  root = root  a = a  aa = aa  f = f  aaf = aaf
  Root = root
  Dirs <- MCDirs
  Files <- MCFiles
  Parent <- MCParent
  TicksPerSec = 2
  MaxTime = 4
  MaxStops = 1
  Modes <- MCModes
  Torn = FALSE
  Blind = TRUE
SPECIFICATION Spec
INVARIANT NothingMissed
