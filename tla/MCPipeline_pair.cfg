CONSTANTS
  Runs = {r1, r2}
  NoContent = NoContent
  NoKey = NoKey
  MaxSize = 3
  Contents <- MCContents
  Inputs <- LongInputs
  NumReformats = 1
  NumOffloads = 2
  HashOf <- SameHash
  Scores <- FewScores
  TargetPct = 50
  FallbackPct = 85
  BloatThreshold = 50
  Capacity = 2
SPECIFICATION Spec
INVARIANT StashedFirst
PROPERTY ImplementsCompression
SYMMETRY Symmetry
\* Every Run is called once and returns.
CHECK_DEADLOCK FALSE
