\* Two instances, one case, an approval racing a cancellation.
SPECIFICATION Spec
CONSTANTS
  Instances = {i1, i2}
  CaseIds = {1}
  LegacyIds = {}
  Contactable = {1}
  Rights = {"ACCESS_PROVENANCE"}
  Grounds = {}
  MaxDay = 0
  Days <- MCDays
  Calendars = {"IT", "weekend"}
  CompleteCalendars = {}
  WeekendOnly = "weekend"
  InitialDue <- MCInitialDue
  ExtendedDue <- MCExtendedDue
  MaxApproved = 1
  MaxResponses = 0
  Null = Null
PROPERTY
  ApprovedOnlyWhileDraft
