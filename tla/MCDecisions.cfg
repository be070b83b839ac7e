SPECIFICATION Spec
CONSTANTS
  None = None
  Unknown = Unknown
  VerdictInputs <- AnalysisPairs
  PlanInputs <- PlanQuestions
  FileInputs <- SomeFiles
  Beside <- Whole
  GateInputs <- GateQuestions
  PolicyInputs <- PolicyQuestions
  UpgradeInputs <- UpgradeQuestions
  Required <- Asking
  RegistryOf <- HostOf
  RecipeInputs <- RecipePairs
  RecipesToday <- ImagesToday
  RemedyInputs <- RemedyQuestions
  MigrationInputs <- MigrationPairs
  BlameInputs <- Blames
  RunInputs <- RunPairs
  ExemptionInputs <- ExemptionQuestions
  AuditInputs <- AuditQuestions
INVARIANTS
  VerdictIsEarned   UpgradeIsSound 
CHECK_DEADLOCK FALSE
