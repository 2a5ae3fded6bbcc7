CONSTANTS
  Entries = {e1}
  Choices = {c1, c2}
  Requests = {r1, r2}
  MaxQueue = 1
  None = None
SPECIFICATION Spec
CHECK_DEADLOCK FALSE
PROPERTY
  DismissErrorShown
