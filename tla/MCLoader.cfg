SPECIFICATION Spec
CONSTANTS
  LayerTypes <- MCLayerTypes
  MtpLayers = 1
  Experts = 2
  Dims <- MCDims
  Align = 96
  Single <- MCSingle
  Checkpoints <- MCCheckpoints
  ShardSets <- MCShardSets
  Launches <- MCLaunches
  MaxCrashes = 1
  None = None
INVARIANT ReadsItsOwn ResumeCompletes
PROPERTY WholeIsNotRefused
CHECK_DEADLOCK FALSE
