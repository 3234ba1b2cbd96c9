\* A provider whose call ids recur: the session is stuck.
CONSTANTS
  CallIds = {c1, c2}
  NoCall = NoCall
  UniqueIds = FALSE
  MaxTurns = 1
  MaxAttempts = 1
  MaxCalls = 1
  MaxRuns = 2
  MaxOutages = 0
  MaxCrashes = 0
SPECIFICATION Spec
INVARIANT UsableAfterIncompleteBatch
CHECK_DEADLOCK FALSE
