SPECIFICATION FairSpec
CONSTANTS
  Workers = {w1, w2}
  QueueCapacity = 2
  Callers = {}
  Handler = handler
  MaxPackets = 3
  MaxStarts = 2
  MaxResets = 1
INVARIANTS
  OneResultPerJob
  DrainedMeansFlushed
  NoStrandedJob
PROPERTIES
  ImplementsPool
  DrainReturns
CHECK_DEADLOCK FALSE
