\* Two goroutines that run commands: the result of one shows output of the other.
CONSTANTS
  Callers = {c1, c2}
  MaxCommands = 2
  MaxLines = 1
SPECIFICATION FairSpec
INVARIANT OutputIsOwn
CHECK_DEADLOCK FALSE
