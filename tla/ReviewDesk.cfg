\* Two Investigations, three clicks and two proposals. An application that was
\* closed stays closed: deadlock is not checked.
CHECK_DEADLOCK FALSE
CONSTANTS
  Investigations = {i1, i2}
  MaxRequests = 3
  MaxProposals = 2
SPECIFICATION Spec
INVARIANTS
  TypeOK ProposalUsedOnce ResearchNotWasted ShownProposalsResolve
  FlagsFollowRunners NoStaleEvent NothingStranded
PROPERTIES RunnersRecover ShutdownEnds
