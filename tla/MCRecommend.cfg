SPECIFICATION Spec
CONSTANTS
  Tags <- AllTags
  DigestOf <- Separate
  Criticals <- Found
  Exploited <- Listed
  Dead <- Ended1
  TopN = 1
  Options <- EveryOption
PROPERTY EveryRunEnds
INVARIANTS AccountsForAll ResultIsHonest LeavesCleanly
CHECK_DEADLOCK FALSE
