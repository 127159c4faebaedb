SPECIFICATION FairSpec
CONSTANTS
  Workers = {w1, w2}
  Events = {good, broken}
  Undecodable = {broken}
  MaxRetries = 1
  LosesDeadLetters = FALSE
  None = None
  MaxMessages = 2
  MaxFaults = 3
CHECK_DEADLOCK FALSE
INVARIANTS TypeOK ReplayLosesNothing
PROPERTIES DeliversInOrder EveryMessageSettled
