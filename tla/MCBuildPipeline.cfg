SPECIFICATION FairSpec
CONSTANTS
  b1 = b1
  b2 = b2
  Builds = {b1, b2}
  None = None
  request <- Two
  Findings = {"clean", "low", "exploited"}
  MaxRounds = 1
  MaxEdits = 1
INVARIANTS TypeOK   RecordIsOfPublished
PROPERTIES EveryBuildEnds
CHECK_DEADLOCK FALSE
