CONSTANTS
  Chunks <- MCChunks
  Query <- MCQuery
  MaxChunks = 4
  MaxContextLines = 1
  MaxHunksPerFile = 3
  MaxFiles = 1
  MinLinesForCCR = 4
  MinCompressionRatioForCCR = 90
  EnableCCR = TRUE
  MinLines = 2
  NormalContextRatio = 40
  DropWhitespaceOnlyHunks = TRUE
  NoticeSize = 2
SPECIFICATION Spec
INVARIANT WholeHunks
INVARIANT CountsMatchOutput
INVARIANT DetectorsAgree
INVARIANT OriginalReachable
CHECK_DEADLOCK FALSE
