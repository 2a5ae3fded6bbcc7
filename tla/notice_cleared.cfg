CONSTANTS
  Generations = {g1}
  Handlers = {h1, h2}
  AuthTokens = {k1, k2}
  SourceIds = {s1}
  MaxStamp = 4
  None = None
SPECIFICATION Spec
CHECK_DEADLOCK FALSE
PROPERTIES
  NoticeClearedByInstall
