SPECIFICATION Spec
CONSTANTS
  NumWarps = 2
  WarpSize = 2
  KeyDim = 4
  KeyHeads = 1
  ValueHeads = 2
  History = 3
INVARIANT TotalsBroadcast
CHECK_DEADLOCK FALSE
