SPECIFICATION Spec
CONSTANTS
  None = None
  Requests = {r1, r2}
  Plans <- AskFirstOnly
  MaxToolRetries = 0
  MaxInputs = 2
  MaxRounds = 2
  MaxReports = 2
  MaxDeaths = 0
CHECK_DEADLOCK FALSE
VIEW State
SYMMETRY RequestsAlike
INVARIANTS SavedStatusAgrees ExecutesOnlyApproved
