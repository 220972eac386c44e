SPECIFICATION FairSpec
CONSTANTS
  w1 = w1
  w2 = w2
  w3 = w3
  Workers = {w1, w2, w3}
  Dirs <- NarrowDirs
  Root = "root"
  Children <- NarrowChildren
  Depth <- NarrowDepth
  MaxDepth = 2
  QueueLen = 1
  Flaky = {"a1"}
  CanQuit = FALSE
INVARIANTS
  TypeOK
  CountersExact
  TakeFindsJob
PROPERTIES
  TraversalSpec
  AllWorkersFinish
