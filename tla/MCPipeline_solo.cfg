CONSTANTS
  Runs = {r1}
  NoContent = NoContent
  NoKey = NoKey
  MaxSize = 4
  Contents <- MCContents
  Inputs <- AllInputs
  NumReformats = 2
  NumOffloads = 2
  HashOf <- TwoHashes
  Scores <- AllScores
  TargetPct = 50
  FallbackPct = 85
  BloatThreshold = 50
  Capacity = 2
SPECIFICATION FairSpec
INVARIANT Accounting
INVARIANT StepsInOrder
INVARIANT Unwinds
INVARIANT DecisionsStand
INVARIANT SuccessSparesOffloads
PROPERTY Returns
\* Every Run is called once and returns.
CHECK_DEADLOCK FALSE
