\* One input of the user, two research operations, one redirect, two addresses
\* of a host, and one call that raises or one crash. When the bounds are used up
\* nothing is left to do, as when the user stops: deadlock is not checked.
CHECK_DEADLOCK FALSE
CONSTANTS
  case = case
  u1 = u1
  host = host
  mail = mail
  page = page
  Ids <- MCIds
  Urls <- MCUrls
  Values <- MCValues
  Contents <- MCContents
  Findings <- MCFindings
  MAX_REDIRECTS = 1
  MaxAddresses = 2
  MaxInputs = 1
  MaxResearch = 2
  MaxFaults = 1
SPECIFICATION Spec
INVARIANTS
  TypeOK RowsHaveFiles FilesHaveRows ResearchedOnce CancelKeepsUnitsWhole
  AnalysisComplete EveryFetchAudited CancellationIsPrompt
PROPERTIES ResearchAdvances ResearchEnds
