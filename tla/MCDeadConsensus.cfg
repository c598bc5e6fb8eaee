SPECIFICATION Spec
CONSTANTS
  n1 = n1
  n2 = n2
  n3 = n3
  PeerId = {n1, n2, n3}
  InitialPeers = {n1, n2, n3}
  GatewayPeers = {n1, n2, n3}
  consensus_nodes = 2
  TxIds = {0}
  SINGLE_BLOB_SIZE = 3
  MAX_BLOCK_INDEX = 1
  MaxEpochs = 0
  MaxCrashes = 1
  KeepMessages = TRUE
SYMMETRY Symmetry
PROPERTIES
  ConsensusOfRunningNodes
