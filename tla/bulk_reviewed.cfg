CONSTANTS
  e1 = e1
  e2 = e2
  Entries = {e1, e2}
  Filters = {none, some}
  Cleared = none
  PageOf <- MCPageOf
  LastPage = 2
  Requests = {r1, r2}
  None = None
SYMMETRY MCSymmetry
SPECIFICATION Spec
CHECK_DEADLOCK FALSE
INVARIANT
  RecreatesReviewed
