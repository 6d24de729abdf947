CONSTANTS
  MaxInitTries = 1
  Chunks = 2
  MaxComing = 2
  SendRetryCount = 2
  Cycle = 120
  Minute = 12
  Early = 1
  AdcTime = 1
  MaxBatch = 1
SPECIFICATION FairSpec
INVARIANT SyncedClockEndsWait
CHECK_DEADLOCK FALSE
