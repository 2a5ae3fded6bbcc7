CONSTANTS
  Generations = {g1, g2}
  Handlers = {h1, h2}
  AuthTokens = {k1}
  SourceIds = {s1}
  MaxStamp = 3
  None = None
SYMMETRY MCSymmetry
SPECIFICATION Spec
CHECK_DEADLOCK FALSE
INVARIANTS
  Inv
  OneLiveGeneration
PROPERTIES
  PurgeJustified
