CONSTANTS
  Instances = {p1, p2}
  MaxKeys = 2
  MaxEnds = 1
SPECIFICATION Spec
INVARIANTS TypeOK KeyFitsArchive VersionTellsSchema OpenedIsCurrent RefusedForAReason
CHECK_DEADLOCK FALSE
