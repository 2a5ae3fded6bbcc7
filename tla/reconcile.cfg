CONSTANTS
  Handlers = {h1, h2}
  Copies = {c1, c2}
  Taken = {}
  Throttle = 1
  MinChecks = 2
  Window = 3
  MaxRead = 1
  MaxTime = 4
  LegacyChecks = {2}
  None = None
SYMMETRY MCSymmetry
SPECIFICATION Spec
CHECK_DEADLOCK FALSE
INVARIANTS
  Inv
  MarkedOnlyIfLate
  MarkedAfterCleanRead
  EvidenceAddsUp
