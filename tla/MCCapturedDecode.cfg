SPECIFICATION Spec
CONSTANTS
  Void = Void
  Blur = Blur
  Kernel = 3
  Drivers <- AllDrivers
  Vocab = {0, 1, 2, 3}
  EosSet = {0, 3}
  PadTok = 3
  MaxNew = 4
  Warmups = {2, 3, 4}
  TMax = 6
  Lp = 2
  Prompts <- SomePrompts
  Argmax <- SomeArgmax
  MaxSteps = 6
  MaxKept = 1
INVARIANTS
  ReplayIsEager
  InBounds
  SameStorage
\* A refused or finished decode ends.
CHECK_DEADLOCK FALSE
