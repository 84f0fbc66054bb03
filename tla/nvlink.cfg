SPECIFICATION Spec
CONSTANTS
  A = A  B = B  m1 = m1  m2 = m2  m3 = m3
  Endpoint = {A, B}
  Peer <- MCPeer
  Key = {k1}
  Alloc = {m1, m2, m3}
  None = None
  Wild = Wild
  Region <- MCRegion
  Offset = {0, 1}
  MaxReads = 2
  NULL = NULL
INVARIANTS
  TypeOK
  CopiesWithinRegions
  WildOnlyAfterMiss
  SourceOutlivesCopies
CHECK_DEADLOCK FALSE
