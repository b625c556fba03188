\* Two instances, one approved payload, a handoff racing a submission.
SPECIFICATION HandoffSpec
CONSTANTS
  Instances = {i1, i2}
  CaseIds = {1}
  LegacyIds = {}
  Contactable = {1}
  Rights = {"ACCESS_PROVENANCE"}
  Grounds = {}
  MaxDay = 0
  Days <- MCDays
  Calendars = {"IT", "weekend"}
  CompleteCalendars = {}
  WeekendOnly = "weekend"
  InitialDue <- MCInitialDue
  ExtendedDue <- MCExtendedDue
  MaxApproved = 1
  MaxResponses = 0
  MaxAttempts = 1
  Null = Null
PROPERTY
  OpenedOnlyWhileDraft
