SPECIFICATION FairSpec
CONSTANTS
  Workers = {w1, w2}
  QueueCapacity = 2
  Callers = {app}
  Handler = handler
  MaxPackets = 2
  MaxStarts = 1
  MaxResets = 0
PROPERTIES
  AcceptedGetResult
CHECK_DEADLOCK FALSE
