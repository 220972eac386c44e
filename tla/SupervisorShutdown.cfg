SPECIFICATION FairSpec
CONSTANTS
  NumWorkers = 2
  MaxEntries = 2
  PipeLen = 1
  PollLen = 1
  Requests = {"TERM"}
INVARIANTS
  TypeOK
  JobSemMutex
  ShutdownLeavesNobody
  OnlyTheKilledLoseStatistics
PROPERTIES
  ShutdownEnds
CHECK_DEADLOCK FALSE
