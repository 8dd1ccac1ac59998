SPECIFICATION Spec
CONSTANTS
  a = a
  b = b
  d = d
  Windows = {a, b, d}
  Workspaces = {w1, w2}
  Parent <- Dialog
  Lowest = 0
  Highest = 4
  MaxWraps = 1
  MaxAnimations = 2
SYMMETRY Symmetry
INVARIANTS
  TypeOK
  ForegroundOnTop
  DialogAbove
PROPERTY
  FocusKept
CHECK_DEADLOCK FALSE
