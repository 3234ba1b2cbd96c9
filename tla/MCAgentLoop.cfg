\* One Session, its host, storage outages and crashes.
CONSTANTS
  CallIds = {c1, c2}
  NoCall = NoCall
  UniqueIds = TRUE
  MaxTurns = 2
  MaxAttempts = 1
  MaxCalls = 2
  MaxRuns = 3
  MaxOutages = 1
  MaxCrashes = 1
SPECIFICATION Spec
SYMMETRY Symmetry
INVARIANT LogAccountsForExecutions
INVARIANT ExecutionsBounded
INVARIANT ExecutedIsDurable
INVARIANT StoredIntact
INVARIANT NeverWedged
INVARIANT OutcomeIsTrue
PROPERTY AwaitingNeverExecutes
CHECK_DEADLOCK FALSE
