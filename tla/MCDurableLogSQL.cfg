\* Two sessions on one SQL adapter, their transactions interleaved.
CONSTANTS
  hello = hello
  hi = hi
  answer = answer
  Writers = {w1, w2}
  Events <- MCEvents
  TypeOf <- MCTypeOf
  Backend = "sql"
  Serial = FALSE
  MaxRows = 3
  MaxUnbound = 1
  MaxBatch = 2
SPECIFICATION Spec
INVARIANT AcknowledgedSurvives
INVARIANT MemoryIsStored
INVARIANT ConflictMeansStale
SYMMETRY Symmetry
PROPERTY RefinesFencedLog
CHECK_DEADLOCK FALSE
