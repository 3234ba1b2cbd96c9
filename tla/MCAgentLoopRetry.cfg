\* An outage, ClearStorageErr and a retried turn: a tool runs again.
CONSTANTS
  CallIds = {c1, c2}
  NoCall = NoCall
  UniqueIds = TRUE
  MaxTurns = 1
  MaxAttempts = 1
  MaxCalls = 1
  MaxRuns = 3
  MaxOutages = 1
  MaxCrashes = 0
SPECIFICATION Spec
INVARIANT RetryIsSafe
CHECK_DEADLOCK FALSE
