SPECIFICATION Spec
CONSTANTS
  NumLayers = 2
  NumExperts = 4
  TopK = 2
  MaxTokens = 2
  Workers = 2
  Configs <- SomePools
INVARIANTS
  HitsReady
  ResidentOnceFinished
  FoldInOrder
