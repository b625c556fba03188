\* Every date of receipt of a 400-year cycle's telling years.
SPECIFICATION Spec
CONSTANTS
  Years = {2000, 2001, 2003, 2004, 2006, 2011, 2023, 2024, 2025, 2026, 2027, 2028,
           2034, 2038, 2049, 2076, 2099, 2100, 2106, 2133, 2201, 2296, 2448}
  Jurisdictions = {"IT", "DE"}
CHECK_DEADLOCK FALSE
INVARIANTS
  FirstWorkingDay
  DueDatesInOrder
  EasterFollowsComputus
