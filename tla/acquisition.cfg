\* The hunt: two slots, blocks of two samples, a window of two blocks.
\* The track: two packet positions, generations up to 9, enough for a full loss
\* (track, reacquire, neighbourhood, global, confirm again) and a break.
SPECIFICATION AcquisitionSpec
CONSTANTS
  h1 = h1
  h2 = h2
  Handle = {h1, h2}
  kInvalid = kInvalid
  Template <- MCTemplate
  CoarseDecimation = 2
  CoarseRepetitions = 1
  CoarseMargin = 1
  PeakRel = 50
  ExistFrac = 50
  FineThreshold = 5000
  BacktrackThreshold = 2000
  BacktrackRadius = 1
  MaxBacktrackSymbols = 2
  PreambleSymbols = 7
  FlagThreshold = 7000
  Signals <- MCSignals
  D = 2
  GateWindow = 2
  NeighLen = 1
  EnergyThreshold = 2
  History = 14
  Holdoff = 2
  Capture = 20
  PreTrigger = 2
  MaxRegion = 64
  Grants = {1, 6, 13}
  StreamLength = 96
  Origin = {o1, o2}
  NoOrigin = none
  Unlabelled = unlabelled
  LockObservations = 3
  HoldoverMissCount = 2
  ReacquireMissCount = 4
  NeighborhoodSlots = 2
  MaxGeneration = 9
CHECK_DEADLOCK FALSE
SYMMETRY Slots
INVARIANTS
  RegionWhole
  CrossingsAccounted
  PacketsPublished
  FlagsMatch
  MissBudget
  LabelNamesOneSchedule
PROPERTIES
  LostOnlyAfterMisses
  ImplementsLease
