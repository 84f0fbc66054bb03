SPECIFICATION Spec
CONSTANTS
  Client = {t1, t2}
  r1 = r1
  r2 = r2
  r3 = r3
  Request <- MCRequest2
  Size <- MCSizeSmall
  Op <- MCReads2
  Usage <- MCWaits2
  QpListLen = 1
  MAX_SEND_WR = 5
  POLL_COUNT = 1
  Faults = {"reuse"}
  MayStop = FALSE
  NULL = NULL
INVARIANTS
  WaitedDataIsThere
CHECK_DEADLOCK FALSE
