CONSTANTS
  Callers = {c1, c2}
  Models <- MCModels
  Known <- MCKnown
  Encoding <- MCEncoding
  MaxMade = 4
SPECIFICATION Spec
INVARIANT MissUsesRegistration
PROPERTY SettledForGood
