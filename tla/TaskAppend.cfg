SPECIFICATION Spec
CONSTANTS
  None = None
  Requests = {r1}
  Plans <- AllPlans
  MaxToolRetries = 0
  MaxInputs = 2
  MaxRounds = 2
  MaxReports = 0
  MaxDeaths = 0
CHECK_DEADLOCK FALSE
INVARIANT InputsArePlanned
