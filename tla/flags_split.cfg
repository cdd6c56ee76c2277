\* The stream blocks alone, with a fine window wider than a step of the coarse scan
\* (the defaults are 16 and 4).
SPECIFICATION BlocksSpec
CONSTANTS
  h1 = h1
  h2 = h2
  Handle = {h1, h2}
  kInvalid = kInvalid
  Template <- MCTemplate
  CoarseDecimation = 2
  CoarseRepetitions = 1
  CoarseMargin = 3
  PeakRel = 50
  ExistFrac = 50
  FineThreshold = 5000
  BacktrackThreshold = 2000
  BacktrackRadius = 1
  MaxBacktrackSymbols = 2
  PreambleSymbols = 7
  FlagThreshold = 7000
  Signals <- StreamSignals
  D = 2
  GateWindow = 2
  NeighLen = 1
  EnergyThreshold = 2
  History = 14
  Holdoff = 2
  Capture = 20
  PreTrigger = 2
  MaxRegion = 64
  Grants = {1, 6, 13}
  StreamLength = 96
CHECK_DEADLOCK FALSE
SYMMETRY Slots
INVARIANTS
  EveryPeakFlagged
