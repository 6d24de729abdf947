CONSTANTS
  SendRetryCount = 3
  PackMax = 2
  MaxSamples = 3
  MaxDay = 3
  TimeFails = TRUE
SPECIFICATION FairSpec
INVARIANT NoLogOnBootDay
