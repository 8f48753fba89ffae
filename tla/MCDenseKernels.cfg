SPECIFICATION FairSpec
CONSTANTS
  NumExperts = 3
  Block = 3
  Shapes <- MCShapes
  Formats <- MCFormats
  Assignments <- MCAssignments
  TopK = 2
  Threads = 16
  BX = 2
  KSplit = 3
  Linears <- MCLinears
  Attentions <- MCAttentions
  Warp = 2
  ColsPerCta = 2
  DenseBlock = 4
  SplitFrom = 4
  SplitKeys = 2
  MaxSplits = 4
  Lowest <- LowestScore
INVARIANTS CellsExact DenseExact
PROPERTIES LaunchEnds
CHECK_DEADLOCK FALSE
