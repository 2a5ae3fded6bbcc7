CONSTANTS
  Entries = {e1, e2}
  Handlers = {h1, h2}
  PlanIds = {p1, p2}
  Tokens = {t1, t2}
  ClockifyIds = {c1}
  fp = fp
  Fingerprints = {fp}
  FingerprintOf <- MCFingerprintOf
  MinChecks = 1
  LegacyOutcomes = {}
  LegacyPlans = {}
  None = None
SYMMETRY MCSymmetry
SPECIFICATION Spec
CHECK_DEADLOCK FALSE
INVARIANTS
  CreateLinkedToItsEntry
