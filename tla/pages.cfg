\* Walks and single pages of the lists, whose rows come, go and change places.
CONSTANTS
  x1 = x1  x2 = x2  x3 = x3
  Rows = {x1, x2, x3}
  Marked = {x1, x3}
  IntHalf = 8
  Int32Half = 4
  DefaultSize = 1
  MaxSize = 2
SPECIFICATION Spec
SYMMETRY Symmetry
INVARIANTS RepeatNeedsArrival  PageAnswered MarksOfOwnRow
CHECK_DEADLOCK FALSE
