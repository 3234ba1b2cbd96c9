\* Two sessions on one file adapter, used by one of them at a time.
CONSTANTS
  hello = hello
  hi = hi
  answer = answer
  Writers = {w1, w2}
  Events <- MCEvents
  TypeOf <- MCTypeOf
  Backend = "file"
  Serial = TRUE
  MaxRows = 3
  MaxUnbound = 1
  MaxBatch = 2
SPECIFICATION Spec
INVARIANT IInv
SYMMETRY Symmetry
CHECK_DEADLOCK FALSE
