SPECIFICATION FairSpec
CONSTANTS
  Hosts <- MCHosts
  Concurrent = 2
  MaxRounds = 2
  Faults = {"qp", "modify", "slow"}
  NULL = NULL
INVARIANTS
  TypeOK
  PairedByPosition
  EarlyReadsOnlyLast
  TargetOutlivesReads
  RoundRobinBalanced
  GidSearchCorrect
PROPERTIES
  FinishesUnlessTrouble
CHECK_DEADLOCK FALSE
