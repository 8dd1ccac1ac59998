SPECIFICATION Spec
CONSTANTS
  Paths = {p1, p2}
  Values = {empty, v}
  Empty = empty
  Slots = {s1, s2, s3}
  MaxRequests = 3
SYMMETRY Symmetry
INVARIANTS
  TypeOK
  Coherent
CHECK_DEADLOCK FALSE
