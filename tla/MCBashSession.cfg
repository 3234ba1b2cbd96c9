\* Two goroutines that run commands, one that kills, one that closes.
CONSTANTS
  Callers = {c1, c2}
  MaxCommands = 2
  MaxLines = 1
SPECIFICATION FairSpec
INVARIANT OneCommandAtATime
INVARIANT AwaitedGetsDone
INVARIANT CompletedHasAllItsOutput
PROPERTY CloseAndKillReturn
CHECK_DEADLOCK FALSE
