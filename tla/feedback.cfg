\* The extractor: four inputs among control calls, observations and restarts.
\* The message: every one of MCMessages, to its end.
SPECIFICATION FeedbackSpec
CONSTANTS
  h1 = h1
  h2 = h2
  Handle = {h1, h2}
  kInvalid = kInvalid
  kJobQueueSize = 2
  MinObservations = 2
  MaxBuffer = 2
  MaxPeriodErr = 1
  UnlockResidual = 2
  UnlockOutliers = 1
  GainDivisor = 1
  Seeds <- TwoSeeds
  FirstSeed <- First
  Truth <- Packets
  MaxK = 2
  Errors = {1, 3}
  MaxInputs = 4
  kQm35SamplesPerSymbol = 1016
  kQm35ChipsPerSymbol = 508
  TailFloor = 40
  NativeRate = 48
  HostRate = 65
  FilterDelay = 1353
  Labelled <- MCLabelled
  Identity <- MCIdentity
  Messages <- MCMessages
SYMMETRY Slots
INVARIANTS
  ConfigNotLost
  StaleLockNeverApplied
  WaitIsServed
  AnchoredAtFrame
  LateSeedRecovered
  FrameRecovered
  FirstDecodeKept
  SlipRecovered
  ConfirmedAtFrame
PROPERTIES
  HeldWindowIntact
