CONSTANTS
  root = root  a = a  b = b  aa = aa  f = f  af = af  aaf = aaf
  Root = root
  Dirs <- MCDirs
  Files <- MCFiles
  Parent <- MCParent
  MaxThreads = 3
  Views <- MCViews
SPECIFICATION FairSpec
INVARIANTS TypeOK RunningCounts DoneIsFinal SomeoneRuns NothingOverlooked
PROPERTIES SearchEnds ImplementsContract
