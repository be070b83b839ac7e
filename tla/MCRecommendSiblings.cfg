SPECIFICATION Spec
CONSTANTS
  Tags <- AllTags
  DigestOf <- Siblings
  Criticals <- Found
  Exploited <- Listed
  Dead <- Ended1
  TopN = 1
  Options <- PlainOnly

INVARIANT EachTagItsOwn
CHECK_DEADLOCK FALSE
