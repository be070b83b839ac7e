CONSTANTS
  None = None
  r1 = r1  r2 = r2  r3 = r3  t = t  d1 = d1  d2 = d2
  Requests = {r1, r2}
  Tags = {t}
  Digests = {d1, d2}
  ImageOf <- SameTag
  Stored = {}
  MaxConcurrency = 1
  MaxMoves = 0
  MaxRevision = 0
SPECIFICATION Spec
INVARIANT NoReferenceRefused
CHECK_DEADLOCK FALSE
