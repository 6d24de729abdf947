CONSTANTS
  SendRetryCount = 3
  PackMax = 2
  MaxSamples = 3
  MaxDay = 3
  TimeFails = FALSE
SPECIFICATION FairSpec
INVARIANT NoLogOnBootDay
PROPERTIES OneLogPerDay PendingIsTried StatsAreReported
