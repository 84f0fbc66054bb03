SPECIFICATION Spec
CONSTANTS
  Client = {t1, t2}
  r1 = r1
  r2 = r2
  r3 = r3
  Request <- MCRequest2
  Size <- MCSize2
  Op <- MCReads2
  Usage <- MCUsage2
  QpListLen = 2
  MAX_SEND_WR = 5
  POLL_COUNT = 2
  Faults = {"wr", "spurious"}
  MayStop = FALSE
  NULL = NULL
INVARIANTS
  FlowControl
  Accounting
  FifoPipeline
  SuccessMeansData
  NoLostEvent
  CallbackExactlyOnce
  RecordLiveWhenCalled
PROPERTIES
  ImplementsReadService
CHECK_DEADLOCK FALSE
