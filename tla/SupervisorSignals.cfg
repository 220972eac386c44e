SPECIFICATION Spec
CONSTANTS
  NumWorkers = 2
  MaxEntries = 2
  PipeLen = 1
  PollLen = 1
  Requests = {"USR1"}
INVARIANTS
  SignalsDoNotEndManager
CHECK_DEADLOCK FALSE
