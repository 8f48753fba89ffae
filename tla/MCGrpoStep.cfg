SPECIFICATION Spec
CONSTANTS
  A = A
  E1 = E1
  E2 = E2
  Void = Void
  Blur = Blur
  Pad = Pad
  Blank = Blank
  NoLogp = NoLogp
  NoResult = NoResult
  Vocab = {A, E1, E2}
  Eos <- SomeEos
  Lp = 2
  MaxNew = 3
  Shapes <- SomeShapes
  N = 4
  PromptLens <- SomePromptLens
  Drivers <- AllDrivers
  Whole = 6
  Better = {A}
  Broken = {3}
  NaN = NaN
  Samplers <- SomeSamplers
INVARIANTS
  LogpHonest
  CacheCoherent
  RatioIsOne
  LossExact
  SamplerExact
PROPERTY
  IsGroupSampling
\* A rollout ends.
CHECK_DEADLOCK FALSE
