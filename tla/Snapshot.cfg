SPECIFICATION FairSpec
CONSTANTS
  RssThreshold = 2
  Writers = {"a", "b"}
  Kinds = {"IDX", "PROC"}
  Keys = {2, 3}
  Roots <- MCRoots
  Children <- MCChildren
  Flaky = {2}
  Unreadable = {2}
  Sees <- MCSees
  OldSnapshots <- MCOld
  CounterMod = 4
  Garbage = {0}
  MaxKills = 1
INVARIANTS
  TypeOK
  CountExact
  WritersExact
  SealedAtTheEnd
  ReportRight
PROPERTIES
  SnapshotIsMap
  WritersEnd
