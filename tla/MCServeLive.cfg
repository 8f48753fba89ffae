SPECIFICATION FairSpec
CONSTANTS
  r1 = r1
  r2 = r2
  Requests <- Slots
  Profiles <- LiveProfiles
  QueueDepth = 0
  ChanCap = 1
  FrameCap = 1
  TMax = 3
  Omitted = Omitted
  NoReq = NoReq
PROPERTIES
  EveryExchangeEnds EngineFreed ShutdownCompletes
