SPECIFICATION FairSpec
CONSTANTS
  A = A  B = B  r1 = r1  r2 = r2  k1 = k1
  Endpoint <- MCEndpoint
  Peer <- MCPeer
  QpListLen = 4
  Psn = {100}
  LinkLayer = "Ethernet"
  IbPort <- MCPort1
  Key <- MCKey1
  MaxMr = 1
  MaxInit = 1
  Read <- MCRead2
  At <- MCAt2
  KeyOf <- MCName2
  Patient = {r2}
  Faults = {"crash"}
INVARIANTS
  RemoteRegionsServed
PROPERTIES
  EveryReadAnswered
  PatientReadsSucceed
CHECK_DEADLOCK FALSE
