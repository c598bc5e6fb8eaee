SPECIFICATION FairGatewaySpec
CONSTANTS
  n1 = n1
  n2 = n2
  g1 = g1
  Nodes = {n1, n2}
  Gateways = {g1}
  Dials <- FromGateway
  MaxTransactions = 2
  Ending = {n1}
CHECK_DEADLOCK FALSE
INVARIANTS
  AcksCountDeliveries
  LoopEndsAfterGateway
PROPERTIES
  TransactionsArrive
