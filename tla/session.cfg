CONSTANTS
  Entries = {e1, e2}
  Choices = {c1, c2}
  Requests = {r1, r2}
  MaxQueue = 1
  None = None
SYMMETRY MCSymmetry
SPECIFICATION Spec
CHECK_DEADLOCK FALSE
INVARIANTS
  LoadingIsAwaited
  WorkIsAwaited
  PlanMatchesChoices
  ActedOnOnce
  ScreenFollowsNavigation
PROPERTIES
  ChecksInOrder
  NoBlindRecreate
