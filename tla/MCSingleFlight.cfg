\* Three calls of run() over two keys.
SPECIFICATION FairSpec
CONSTANTS
  Keys = {k1, k2}
  Callers = {c1, c2, c3}
  None = None
INVARIANTS
  TypeOK
  OneTaskPerKey
  NobodyAbandoned
PROPERTIES
  CancelOnlyUnneeded
  EveryCallerLeaves
\* Every call of run() may have returned: the system really stops.
CHECK_DEADLOCK FALSE
