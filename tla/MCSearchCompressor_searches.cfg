CONSTANTS
  Lines <- MCLines
  MaxLines = 5
  Number <- MCNumber
  Drives <- MCDrives
  Roots <- MCRoots
  NameBefore <- MCNameBefore
  Query <- MCQuery
  Category <- MCCategory
  Fingerprint <- MCPrint
  FewItems = 2
  FewGroups = 1
  MaxMatchesPerFile = 2
  MaxTotalMatches = 4
  MaxFiles = 2
  AdaptiveMinK = 3
  AlwaysKeepFirst = TRUE
  AlwaysKeepLast = TRUE
  BoostErrors = TRUE
  EnableCCR = TRUE
  MinMatchesForCCR = 3
  MinCompressionRatioForCCR = 90
  MinMatches = 2
  ClusterThreshold = 2
  BloatThreshold = 50
  OffloadFallbackRatio = 85
SPECIFICATION Spec
INVARIANT ReadsBack
INVARIANT EndsShown
INVARIANT ParsersAgree
CHECK_DEADLOCK FALSE
