CONSTANTS
  Entries = {e1}
  Handlers = {h1, h2}
  PlanIds = {p1, p2, p3}
  Tokens = {t1, t2}
  ClockifyIds = {c1, c2}
  fp = fp
  Fingerprints = {fp}
  FingerprintOf <- MCFingerprintOf
  MinChecks = 2
  LegacyOutcomes = {"SUCCESS", "FAILED", "AMBIGUOUS"}
  LegacyPlans = {p1}
  None = None
SYMMETRY MCLegacySymmetry
SPECIFICATION Spec
CHECK_DEADLOCK FALSE
INVARIANTS
  RecreatedMatchesAttempt
  NoBlindRetry
  DuplicateOnlyAfterMark
  NothingOlderAdopted
  OnlyActionableHasPlan
  PlanUsedOnce
PROPERTIES
  OutcomeSettlesOnce
  ClaimFencing
  ImplementsLifecycle
