\* Two processes on one file adapter, at any time: an acknowledged event is lost.
CONSTANTS
  hello = hello
  hi = hi
  answer = answer
  Writers = {w1, w2}
  Events <- MCEvents
  TypeOf <- MCTypeOf
  Backend = "file"
  Serial = FALSE
  MaxRows = 2
  MaxUnbound = 1
  MaxBatch = 1
SPECIFICATION Spec
INVARIANT AcknowledgedSurvives
CHECK_DEADLOCK FALSE
