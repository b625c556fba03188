\* Receipts whose extended period ends at the end of a year.
SPECIFICATION Spec
CONSTANTS
  Years = {2023}
  Jurisdictions = {"IT"}
CHECK_DEADLOCK FALSE
INVARIANT
  DeadlinesAreNoHolidays
