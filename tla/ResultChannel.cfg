SPECIFICATION FairSpec
CONSTANTS
  NumWorkers = 2
  ChannelLen = 2
  MaxFiles = 3
  Unreadable = {2}
  MaxDirs = 2
  PipeLen = 1
  PollLen = 1
  CanQuit = TRUE
INVARIANTS
  TypeOK
  TokensConserved
  ChannelMutex
  ChannelIsQueue
  LossIsFullRing
PROPERTIES
  ManagerFinishes
