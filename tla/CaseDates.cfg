\* One case, four dates, a complete and an incomplete calendar.
SPECIFICATION Spec
CONSTANTS
  Instances = {i1, i2}
  CaseIds = {1}
  LegacyIds = {1}
  Contactable = {1}
  Rights = {"ERASURE", "ACCESS_PROVENANCE"}
  Grounds = {"UNLAWFUL_PROCESSING", "OBJECTION"}
  MaxDay = 3
  Days <- MCDays
  Calendars = {"IT", "XX", "weekend"}
  CompleteCalendars = {"XX"}
  WeekendOnly = "weekend"
  InitialDue <- MCInitialDue
  ExtendedDue <- MCExtendedDue
  MaxApproved = 1
  MaxResponses = 2
  Null = Null
SYMMETRY Symmetry
INVARIANTS
  DatesInOrder
  StaleReadsAreSafe
PROPERTY
  ImplementsContract
