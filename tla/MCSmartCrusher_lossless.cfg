CONSTANTS
  Chunks <- MCChunks
  Members <- MCMembers
  MaxItems = 6
  MaxMembers = 6
  Callers <- MCCallers
  FieldOrder <- MCFieldOrder
  Text <- MCText
  KeyBefore <- MCKeyBefore
  LengthOf <- ItemLength
  One = 10
  EpochSeconds <- MCEpochSeconds
  EpochMillis <- MCEpochMillis
  VarianceThreshold = 1
  ChangeWindow = 2
  MinItemsToAnalyze = 4
  LevelRatio = 40
  AnchorBudgetPct = 25
  MinAnchorSlots = 3
  MaxAnchorSlots = 12
  CandidateMultiplier = 3
  UseInformationDensity = TRUE
  DedupAnchors = TRUE
  DedupIdenticalItems = TRUE
  PreserveChangePoints = TRUE
  FewItems = 4
  FewGroups = 1
  MinItemsKept = 3
  MaxItemsAfterCrush = 4
  FirstPct = 30
  LastPct = 15
  LosslessMinSavingsPct = 30
  MinTokensToCrush = 20
  SmallTokens = 4
  MaxFlattenInnerKeys = 6
SPECIFICATION Spec
INVARIANT CompactionIsLossless
CHECK_DEADLOCK FALSE
