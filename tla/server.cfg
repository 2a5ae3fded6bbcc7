SPECIFICATION Spec
CONSTANTS
  Entries = {e1, e2}
  Batches = {b1, b2}
  Asked <- AskedMC
  b1 = b1
  Reviewed = {e2}
  MaxPlans <- PlansOfMC
  e1 = e1
  e2 = e2
  None = None
INVARIANTS
  RowsAreTruthful
  OneCopyEach
PROPERTIES
  ExitsAfterSignal
