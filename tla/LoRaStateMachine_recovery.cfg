CONSTANTS
  Ports = {2}
  RtcReplies = {"RtcGood"}
  StepTicks = 1
  JoinTicks = 1
  ClockTicks = 4
  LenTicks = 1
  RetryTicks = 1
  AckTicks = 1
  MaxAttempts = 2
  LenWait = 1
  SendWait = 2
  EventCap = 6
  PayloadCap = 1
  Shell = TRUE
  MaxBatch = 1
  MaxLines = 1
SPECIFICATION FairSpec
PROPERTIES Recovers NextCallFlushes
