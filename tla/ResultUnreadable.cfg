SPECIFICATION Spec
CONSTANTS
  NumWorkers = 2
  ChannelLen = 2
  MaxFiles = 2
  Unreadable = {1}
  MaxDirs = 2
  PipeLen = 1
  PollLen = 1
  CanQuit = FALSE
INVARIANTS
  RecordsDescribeFiles
