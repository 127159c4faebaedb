SPECIFICATION FairSpec
CONSTANTS
  None = None
  Requests = {r1}
  Plans <- AllPlans
  MaxToolRetries = 1
  MaxInputs = 2
  MaxRounds = 2
  MaxReports = 2
  MaxDeaths = 1
CHECK_DEADLOCK FALSE
INVARIANTS TypeOK SavedStatusAgrees ExecutesOnlyApproved SavedMatchesCheckpoint AttemptsBounded
PROPERTIES DecisionsKeptInTurn EveryRequestEnds
