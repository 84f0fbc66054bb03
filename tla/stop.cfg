SPECIFICATION FairSpec
CONSTANTS
  Client = {t1, t2}
  r1 = r1
  r2 = r2
  r3 = r3
  Request <- MCRequest2
  Size <- MCSizeLong
  Op <- MCReadSend
  Usage <- MCStop
  QpListLen = 1
  MAX_SEND_WR = 4
  POLL_COUNT = 2
  Faults = {"wr"}
  MayStop = TRUE
  NULL = NULL
INVARIANTS
  SendQueueRoom
  CallbackExactlyOnce
  Accounting
PROPERTIES
  StopQuiesces
  EveryReadFires
  StopReturnsUnlessStuck
  ImplementsLiveReadService
CHECK_DEADLOCK FALSE
