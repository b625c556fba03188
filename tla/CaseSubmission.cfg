\* Two cases, one of an older version, two approved payloads, one date.
SPECIFICATION Spec
CONSTANTS
  Instances = {i1, i2}
  CaseIds = {1, 2}
  LegacyIds = {1}
  Contactable = {1, 2}
  Rights = {"ERASURE"}
  Grounds = {"UNLAWFUL_PROCESSING"}
  MaxDay = 0
  Days <- MCDays
  Calendars = {"IT", "weekend"}
  CompleteCalendars = {}
  WeekendOnly = "weekend"
  InitialDue <- MCInitialDue
  ExtendedDue <- MCExtendedDue
  MaxApproved = 2
  MaxResponses = 1
  Null = Null
SYMMETRY Symmetry
INVARIANTS
  TypeOK
  TimelineIsHistory
  TimelineExplainsRow
  SubmissionProvenance
PROPERTY
  ImplementsContract
