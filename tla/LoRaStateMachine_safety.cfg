CONSTANTS
  Ports = {2, 3}
  RtcReplies = {"RtcGood", "RtcStale", "RtcBad"}
  StepTicks = 1
  JoinTicks = 1
  ClockTicks = 1
  LenTicks = 1
  RetryTicks = 1
  AckTicks = 1
  MaxAttempts = 2
  LenWait = 1
  SendWait = 2
  EventCap = 3
  PayloadCap = 2
  Shell = FALSE
  MaxBatch = 2
  MaxLines = 1
SPECIFICATION Spec
INVARIANTS TypeOK OnItsPort AckForHead
PROPERTIES DeliveredInOrder ImplementsService
