SPECIFICATION Spec
CONSTANTS
  r1 = r1
  r2 = r2
  Requests <- Slots
  Profiles <- AllProfiles
  QueueDepth = 1
  ChanCap = 2
  FrameCap = 2
  TMax = 3
  Omitted = Omitted
  NoReq = NoReq
SYMMETRY Symmetry
INVARIANTS
  TypeOK SenderOwned CacheFits TokensInOrder ClosedMeansPanic FedIsTaken
