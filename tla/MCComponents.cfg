\* One component per behaviour: streams, compaction, guards, a shared file,
\* a rate limiter, sessions and their children, observation buses,
\* the shells of a registry.
CONSTANTS
  MaxCalls = 2
  MaxText = 1
  MaxAnswers = 2
  MaxRestarts = 1
  CallIds = {c1, c2, c3}
  NoCall = NoCall
  StrategyLists <- MCStrategyLists
  MaxBatch = 2
  MaxLog = 7
  MaxReverts = 1
  Manifests <- MCManifests
  StrikeLimit = 2
  MaxIdenticalCalls = 3
  MaxConsecutiveFailures = 3
  MaxConsecutiveRejections = 2
  MaxTokens = 1
  MaxToolCalls = 3
  MaxGuardRestarts = 1
  Sessions = {s1, s2}
  NoSession = NoSession
  MaxVersions = 3
  PerMinute = 2
  Minute = 2
  Callers = {c1, c2}
  MaxClock = 5
  MaxSessions = 3
  MaxRows = 3
  MaxDeaths = 1
  MaxOdd = 1
  Buses = {b1, b2}
  Trackers = {t1, t2}
  Threshold = 2
  MaxEmissions = 2
  Handlers = {h1, h2}
  ShellIds = {i1}
  MaxShells = 2
  MaxOutput = 1
  MaxPrinted = 2
SPECIFICATION Spec
INVARIANT ObserversAgreeWithLog
 
INVARIANT IdsRecurOnlyFromGemini
INVARIANT OnlyMarkerTailRefuses
INVARIANT EachMessageShownOnce
INVARIANT RequestPairsCalls
INVARIANT RefusedNeverRuns
INVARIANT TripsAreEarned
INVARIANT NothingUnseenIsLost
INVARIANT AtMostTwoWindowsAMinute
INVARIANT TreesResolve
INVARIANT SavedIsPortable
INVARIANT AlarmRingsOnce
INVARIANT ShellsAreReachable
INVARIANT OutputIsTail
CHECK_DEADLOCK FALSE
