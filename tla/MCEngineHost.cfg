CONSTANTS
  RecentLimit = 2
  Any = Any
  NoCampaign = NoCampaign
  MaxRequests = 5
  MaxRevision = 3
  MaxAnswers = 6
SPECIFICATION HostSpec
INVARIANTS
  GuardedAppliesOnce
  RememberedAnswersAreTrue
CHECK_DEADLOCK FALSE
