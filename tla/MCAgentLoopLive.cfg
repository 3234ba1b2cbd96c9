\* Provider retries and recurring call ids; every call of the host returns.
CONSTANTS
  CallIds = {c1, c2}
  NoCall = NoCall
  UniqueIds = FALSE
  MaxTurns = 2
  MaxAttempts = 2
  MaxCalls = 1
  MaxRuns = 2
  MaxOutages = 1
  MaxCrashes = 0
SPECIFICATION FairSpec
INVARIANT ProviderSeesWholeLog
PROPERTY RunsReturn
CHECK_DEADLOCK FALSE
