SPECIFICATION FairSpec
CONSTANTS
  Runs = {p1, p2}
  None = None
  Size = 1
  Limit = 1
  MaxRevision = 1
  Files = {f1, f2, f3, f4, f5}
  MaxCrashes = 1
INVARIANTS TypeOK OneVisibleHolder  NoOlderRevisionClaimed
PROPERTIES RemovedOnlyUnseen EveryRunGetsReady
