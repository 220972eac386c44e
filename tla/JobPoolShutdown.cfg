SPECIFICATION Spec
CONSTANTS
  w1 = w1
  w2 = w2
  Workers = {w1, w2}
  Dirs <- WideDirs
  Root = "root"
  Children <- WideChildren
  Depth <- WideDepth
  MaxDepth = 2
  QueueLen = 2
  Flaky = {"a"}
  CanQuit = TRUE
SYMMETRY WorkerSymmetry
INVARIANTS
  JobSemMutex
  SlotsAccounted
  IdleExitSound
CHECK_DEADLOCK FALSE
