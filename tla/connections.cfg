CONSTANTS
  Generations = {g1}
  Handlers = {h1, h2}
  AuthTokens = {k1, k2}
  SourceIds = {s1}
  MaxStamp = 4
  None = None
SYMMETRY MCSymmetry
SPECIFICATION Spec
CHECK_DEADLOCK FALSE
PROPERTIES
  NewerConnectionKept
  NoticeFollowsToken
  RedeliveryKeepsStatus
