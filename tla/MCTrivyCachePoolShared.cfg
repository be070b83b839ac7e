SPECIFICATION Spec
CONSTANTS
  Runs = {p1, p2}
  None = None
  Size = 1
  Limit = 1
  MaxRevision = 0
  Files = {f1, f2, f3, f4, f5}
  MaxCrashes = 0
INVARIANT SlotExclusive
CHECK_DEADLOCK FALSE
