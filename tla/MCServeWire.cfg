SPECIFICATION Spec
CONSTANTS
  r1 = r1
  r2 = r2
  Requests <- Slots
  Profiles <- WireProfiles
  QueueDepth = 0
  ChanCap = 1
  FrameCap = 1
  TMax = 3
  Omitted = Omitted
  NoReq = NoReq
SYMMETRY Symmetry
INVARIANTS
  TextInOrder LengthMeansWhole UsageHonest StreamGrammar
PROPERTIES
  RefinesContract
