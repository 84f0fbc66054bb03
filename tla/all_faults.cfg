SPECIFICATION Spec
CONSTANTS
  Client = {t1, t2}
  r1 = r1
  r2 = r2
  r3 = r3
  Request <- MCRequest3
  Size <- MCSize3
  Op <- MCMixed3
  Usage <- MCForget
  QpListLen = 1
  MAX_SEND_WR = 4
  POLL_COUNT = 2
  Faults = {"wr", "post", "reuse", "spurious"}
  MayStop = TRUE
  NULL = NULL
INVARIANTS
  TypeOK
CHECK_DEADLOCK FALSE
