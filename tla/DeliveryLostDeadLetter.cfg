SPECIFICATION Spec
CONSTANTS
  Workers = {w1, w2}
  Events = {good, broken}
  Undecodable = {broken}
  MaxRetries = 1
  LosesDeadLetters = TRUE
  None = None
  MaxMessages = 3
  MaxFaults = 2
CHECK_DEADLOCK FALSE
INVARIANT NoMessageSkipped
