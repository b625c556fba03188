CONSTANTS
  Instances = {p1, p2}
  MaxKeys = 2
  MaxEnds = 0
SPECIFICATION Spec
INVARIANT KeyNeverReplaced
CHECK_DEADLOCK FALSE
