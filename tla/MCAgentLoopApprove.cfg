\* An outage while an approved call's result is stored: it runs again.
CONSTANTS
  CallIds = {c1, c2}
  NoCall = NoCall
  UniqueIds = TRUE
  MaxTurns = 1
  MaxAttempts = 1
  MaxCalls = 1
  MaxRuns = 4
  MaxOutages = 1
  MaxCrashes = 0
SPECIFICATION FairSpec
PROPERTY ApprovedExecutesOnce
CHECK_DEADLOCK FALSE
