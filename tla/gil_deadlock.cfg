SPECIFICATION FairSpec
CONSTANTS
  t1 = t1  t2 = t2  b1 = b1  b2 = b2  b3 = b3  b4 = b4  c1 = c1  c2 = c2
  Thread = {t1, t2}
  Batch <- MCBatch2
  Callback = {c1, c2}
  Reads <- MCReads2
  CallbackOf <- MCOwn
  StopWhen = "awaited"
  Faults = {}
  NULL = NULL
PROPERTIES
  StopReturns
CHECK_DEADLOCK FALSE
