CONSTANTS
  Texts <- MCTexts
  Long <- MCLong
  Shrinks <- MCShrinks
  Footed <- MCFooted
  Tokens <- MCTokens
  Small <- MCSmall
  Marked <- MCMarked
  Said <- MCSaid
  MaxMessages = 4
  MaxMarks = 2
SPECIFICATION Spec
INVARIANT FrozenUntouched
INVARIANT ManifestTellsChanges
INVARIANT SavingsAreReal
INVARIANT OriginalsReachable
PROPERTY StableInToolLoop
PROPERTY ResponsesPrefixStable
PROPERTY NoOrphans
