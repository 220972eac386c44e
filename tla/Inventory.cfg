SPECIFICATION FairSpec
CONSTANTS
  Versions = {"HW4", "HW5"}
  N = 2
  Dirs = {1, 2, 3}
  Root = 1
  Sub <- MCSub
  Files <- MCFiles
  BadDirs = {3}
  BadEntries = {1, 2}
  QueueLen = 1
  RingLen = 2
  PipeLen = 1
  PollLen = 1
  Olds <- MCOlds
  MayKill = TRUE
INVARIANTS
  TypeOK
  CompleteIsListed
  RecordsAgree
  ApprovedIsWhole
  OneIsWhole
PROPERTY
  RunEnds
