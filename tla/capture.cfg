\* Three slots' worth of windows, a writer that keeps up or not, either way of
\* ending.
CONSTANTS
  Den = 1
  PoolSize = 1
  Guards <- MCGuards
  Schedules <- MCSchedules
  Rate = "native"
  StreamLength = 12
  Grants = {4, 12}
  Wires <- MCWires
  Geometry <- MCGeometry
  L = 3
  M = 2
  T = 7
  InputRate = "native"
  OutputRate = "host"
  ValidateRate = TRUE
  EmitPolicies = {"FullWindow"}
  kQueueCapacity = 1
  StreamBuffer = 2
  Options <- MCOptions
  Foreign <- MCForeign
  MaxForeign = 1
  ForeignAt = {4}
  StopsAt = {9}
  MayDie = TRUE
SPECIFICATION Spec
INVARIANTS DumpReadsBack ProductsNameWindows NothingLostUncounted
CHECK_DEADLOCK FALSE
