SPECIFICATION Spec
CONSTANTS
  h1 = h1
  h2 = h2
  Handle = {h1, h2}
  kInvalid = kInvalid
  kMaxPoolSize = 16
  Den = 2
  MarginBase = 1
  Schedules <- OneSchedule
  SoftParams <- SoftUpdates
  Guards <- TwoGuards
  InitGuard <- Narrow
  PartialEos = "EmitPartial"
  MaxChunk = 3
  MaxGap = 1
  MaxAbs = 9
  MaxGen = 2
CHECK_DEADLOCK FALSE
SYMMETRY Slots
INVARIANTS
  HandleOwnership
  WindowContent
  WindowsAccounted
  WindowsInOrder
  CalmWindowsWhole
PROPERTIES
  WorkerSlotStable
