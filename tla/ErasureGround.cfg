\* One instance, one erasure case, every ground the program offers.
SPECIFICATION Spec
CONSTANTS
  Instances = {i1}
  CaseIds = {1}
  LegacyIds = {}
  Contactable = {1}
  Rights = {"ERASURE"}
  Grounds <- ErasureGround
  MaxDay = 0
  Days <- MCDays
  Calendars = {"IT", "weekend"}
  CompleteCalendars = {}
  WeekendOnly = "weekend"
  InitialDue <- MCInitialDue
  ExtendedDue <- MCExtendedDue
  MaxApproved = 1
  MaxResponses = 0
  Null = Null
INVARIANT
  ComposedCanBePersisted
