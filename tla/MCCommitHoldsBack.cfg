SPECIFICATION ChainSpec
CONSTANTS
  SINGLE_BLOB_SIZE = 3
  MAX_BLOCK_INDEX = 2
  MaxEpochs = 3
PROPERTIES
  CommitReachesConsensus
