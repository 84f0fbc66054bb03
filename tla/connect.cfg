SPECIFICATION Spec
CONSTANTS
  A = A  B = B  r1 = r1  r2 = r2  k1 = k1
  Endpoint <- MCEndpoint
  Peer <- MCPeer
  QpListLen = 2
  Psn = {100, 200}
  LinkLayer = "Ethernet"
  IbPort <- MCPort1
  Key <- MCKey1
  MaxMr = 0
  MaxInit = 2
  Read <- MCNoRead
  At <- MCNone
  KeyOf <- MCNone
  Patient = {}
  Faults = {"init", "modify", "reconnect"}
INVARIANTS
  TypeOK
  Paired
  PathLeadsToPeer
  ReadyPrefix
PROPERTIES
  ConnectionIsFinal
CHECK_DEADLOCK FALSE
