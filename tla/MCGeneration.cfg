SPECIFICATION Spec
CONSTANTS
  Void = Void
  Blur = Blur
  Kernel = 3
  Vocab = {1, 2}
  PromptLen = 2
  MaxNew = 4
  Ks = {1, 3}
  MaxNgram = 2
  Variants <- AllVariants
  Loops <- AllLoops
  Eoses <- EveryEos
INVARIANTS
  GreedyOutput
  CachesMatchOutput
  MtpMatchesOutput
PROPERTY
  Terminates
\* A decode ends.
CHECK_DEADLOCK FALSE
