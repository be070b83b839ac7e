SPECIFICATION Spec
CONSTANTS
  b1 = b1
  b2 = b2
  Builds = {b1}
  None = None
  request <- Alone
  Findings = {"clean", "low", "exploited"}
  MaxRounds = 1
  MaxEdits = 1
INVARIANTS PublishedWasScanned
CHECK_DEADLOCK FALSE
