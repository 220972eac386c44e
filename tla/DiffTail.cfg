SPECIFICATION Spec
CONSTANTS
  RssThreshold = 2
  Writers = {"a"}
  Kinds = {"IDX"}
  Keys = {2, 3}
  Roots <- MCRoots
  Children <- MCChildren
  Flaky = {}
  Unreadable = {}
  Sees <- MCSees
  OldSnapshots <- MCOld
  CounterMod = 4
  Garbage = {0}
  MaxKills = 0
INVARIANT
  AppearedNamed
