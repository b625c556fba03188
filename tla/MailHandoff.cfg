\* Two instances, one case, two approved payloads, two attempts.
SPECIFICATION HandoffSpec
CONSTANTS
  Instances = {i1, i2}
  CaseIds = {1}
  LegacyIds = {}
  Contactable = {1}
  Rights = {"ACCESS_PROVENANCE"}
  Grounds = {}
  MaxDay = 0
  Days <- MCDays
  Calendars = {"IT", "weekend"}
  CompleteCalendars = {}
  WeekendOnly = "weekend"
  InitialDue <- MCInitialDue
  ExtendedDue <- MCExtendedDue
  MaxApproved = 2
  MaxResponses = 0
  MaxAttempts = 2
  Null = Null
SYMMETRY Symmetry
INVARIANTS
  HandoffTypeOK
  AttemptsWellFormed
  OutcomesAreTrue
  NoSilentHandoff
  EveryAttemptAuthorized
