SPECIFICATION FairSpec
CONSTANTS
  n1 = n1
  n2 = n2
  n3 = n3
  PeerId = {n1, n2}
  InitialPeers = {n1, n2}
  GatewayPeers = {n1, n2}
  consensus_nodes = 2
  TxIds = {0, 1}
  SINGLE_BLOB_SIZE = 3
  MAX_BLOCK_INDEX = 1
  MaxEpochs = 0
  MaxCrashes = 0
  KeepMessages = FALSE
PROPERTIES
  NodesSettle
