SPECIFICATION Spec
CONSTANTS
  OpenTag <- Open
  CloseTag <- Close
  Gap <- Gap2
  Stops <- SomeStops
  Vocab <- SomeVocab
  Width = 2
  MaxHold = 2
  Modes = {"thinking", "chat"}
  MaxTokens = 5
CHECK_DEADLOCK FALSE
INVARIANTS
  SaidIsDecode HeldBackExactly SplitIsWhole
