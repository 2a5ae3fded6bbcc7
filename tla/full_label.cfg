CONSTANTS
  None = None
  Unset = Unset
  MaxChanges = 0
  Slices <- MCSlices
  Ends <- MCEnds
  Descriptions = {"", "new"}
  Texts = {"1", "new"}
SPECIFICATION Spec
CHECK_DEADLOCK FALSE
INVARIANTS
  FullKeepsValues
