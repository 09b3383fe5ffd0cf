CONSTANTS
  Chunks <- MCChunks
  Tokens <- MCTokens
  Word <- MCWord
  Start <- MCStart
  Separating <- MCSeparating
  Normal <- MCNormal
  Fingerprint <- MCPrint
  MaxChunks = 4
  FewItems = 3
  FewGroups = 1
  TemplateMinLines = 3
  MinRun = 2
  MinConstantTokens = 1
  SimilarityThreshold = 40
  MaxErrors = 2
  ErrorContextLines = 1
  MaxStackTraces = 1
  StackTraceMaxLines = 2
  MaxWarnings = 1
  KeepFirstError = TRUE
  KeepLastError = TRUE
  DedupeWarnings = TRUE
  KeepSummaryLines = TRUE
  EnableCCR = TRUE
  MinLinesForCCR = 4
  MinCompressionRatioForCCR = 90
  AdaptiveMinK = 2
  MaxTotalLines = 4
  MinLines = 2
  SampleSize = 4
  UniquenessWeight = 60
  PriorityDilutionWeight = 40
  BloatThreshold = 50
  OffloadFallbackRatio = 85
SPECIFICATION Spec
INVARIANT WordsRecoverable
INVARIANT AlarmSurvives
INVARIANT TracesFollowFrames
CHECK_DEADLOCK FALSE
