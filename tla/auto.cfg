\* Large and small grants and sentinels, a miss that is reported, a stop and a restart; fair threads.
CONSTANTS
  Unlabelled = unlabelled
  LockObservations = 2
  HoldoverMissCount = 1
  ReacquireMissCount = 2
  NeighborhoodSlots = 1
  JobQueueSize = 2
  PendingObsCap = 2
  WorkSizes = {"live", "small", "sentinel"}
  MaxBursts = 2
  MaxTime = 2
  StopFrom = 1
  MaxControls = 1
  MaxReports = 1
SPECIFICATION FairSpec
INVARIANTS VerifyThrottle DrainedBeforeReset ScheduleFollowsTracker SegmentsNeverMix
PROPERTIES WaitsEnd
CHECK_DEADLOCK FALSE
