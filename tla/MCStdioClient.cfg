\* Two goroutines on one client: a load and calls, timeouts, late and double
\* answers, a server that asks something itself, prints something else or
\* exits, Close at any time.
CONSTANTS
  Callers = {c1, c2}
  MaxCalls = 2
  Capacity = 1
  OwnIds = {1, 2}
SPECIFICATION FairSpec
INVARIANT AnswersOwnRequest
INVARIANT SendNeverBlocks
INVARIANT PendingIsWaitedFor
INVARIANT NobodyWaitsForADeadReader
INVARIANT InitializedOnce
INVARIANT CloseEndsTheServer
PROPERTY CallsReturn
CHECK_DEADLOCK FALSE
