SPECIFICATION Spec
CONSTANTS
  NumWorkers = 2
  ChannelLen = 2
  MaxFiles = 3
  Unreadable = {}
  MaxDirs = 2
  PipeLen = 1
  PollLen = 1
  CanQuit = FALSE
INVARIANTS
  CompleteHoldsAll
