SPECIFICATION Spec
CONSTANTS
  None = None
  NTargets = 3
  Digest = {"k"}
  KeyOf <- EngineKeys
  Dirs = {"d1", "d2"}
  Workers = 2
  Serialize = TRUE
  Calls = {1, 2}
  CacheDirs = {"d1"}
  MaxCancels = 3
  Procs = {1, 2}
  Keys <- CacheKeys
  MaxNow = 2
  NoValue = None
  Garbage = Garbage
  MaxObservations = 2
  ScanTtl = 1
  UnknownTtl = 0
  IntelMaxAge = 0
  Fingerprint <- Fingerprints
  Policy <- Policies
  Digests = {1, 2}
  MaxMoves = 2
  MaxRounds <- CacheRounds
  Runs = {1, 2, 3}
  Retention = 2
  Scopes <- RunScopes
  Installers = {"i1", "i2"}
  Signed = TRUE
  MaxCrashes = 1
  Nobody = None
  Clients = {1, 2}
  CallsEach = 2
  Burst = 1
  Need = 2
  Threshold = 2
  Cooldown = 2
  Attempts = 2
  Backoff = 1
  Window = 4
  Candidates = {1, 2}
  Platform <- BothArm
  Hints <- SecondHint
  Tops = {"i1", "i2", "r8"}
  Body <- Published
  Default <- DefaultVariant
  MaxRuns = 2
  MaxRetags = 1
  Searchers = {"s"}
  Verifiers = {"v", "w"}
  Asked <- TagAsked
  Pages <- TagPages
  MaxPages = 3
  Enough = 1
  Absent = Absent
  Checkers = {1, 2, 3}
  Seekers = {"p", "q"}
  Images = {"n", "m"}
  Wanted <- ImageWanted
  MaxCommits = 1
  Enrichments = {1, 2}
  Findings = {1, 2}
  Finds <- FindsOf
  Scored = {2}
  Catalogues = {"kev", "eol"}
  Forgetful = {"eol"}
INVARIANTS
   StoredIsHonest InstalledIsVerified   
PROPERTIES
  ServesTheMap EveryoneServed
CHECK_DEADLOCK FALSE
