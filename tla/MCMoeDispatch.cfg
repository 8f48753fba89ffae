SPECIFICATION Spec
CONSTANTS
  MaxTokens = 3
  NumExperts = 3
  TopK = 2
  RouterRows <- ThreeRows
  BlockM = 2
  FusedMaxT = 2
INVARIANTS
  AddsItsExperts
CHECK_DEADLOCK FALSE
