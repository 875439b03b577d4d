CONSTANTS
  root = root  a = a  aa = aa  f = f  aaf = aaf
  Root = root
  Dirs <- MCDirs
  Files <- MCFiles
  Parent <- MCParent
  TicksPerSec = 2
  MaxTime = 4
  MaxStops = 1
  Modes <- MCModes
  Torn = FALSE
  Blind = FALSE
SPECIFICATION Spec
INVARIANT DryRunStopped
