SPECIFICATION FairSpec
CONSTANTS
  n1 = n1
  n2 = n2
  g1 = g1
  Nodes = {n1, n2}
  Gateways = {g1}
  Dials <- BothWays
CHECK_DEADLOCK FALSE
INVARIANTS
  TypeOK
  AliveAreConnected
  AppIsUpToDate
PROPERTIES
  ConnectedPeersMeet
