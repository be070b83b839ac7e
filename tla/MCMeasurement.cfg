CONSTANTS
  None = None
  r1 = r1  r2 = r2  r3 = r3  t = t  d1 = d1  d2 = d2
  Requests = {r1, r2}
  Tags = {t}
  Digests = {d1, d2}
  ImageOf <- TagAndDigest
  Stored = {d1}
  MaxConcurrency = 1
  MaxMoves = 1
  MaxRevision = 1
SPECIFICATION Spec
INVARIANTS TypeOK  AnswerIsForIdentity  SlotsRespected NothingOutlivesTheRun
CHECK_DEADLOCK FALSE
