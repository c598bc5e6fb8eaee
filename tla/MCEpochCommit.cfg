SPECIFICATION ChainSpec
CONSTANTS
  SINGLE_BLOB_SIZE = 4
  MAX_BLOCK_INDEX = 2
  MaxEpochs = 3
INVARIANTS
  TypeOK
  EpochsCoverCommited
  EpochsAreDisjoint
  LogHoldsTheEpochs
  HashPinsHistory
PROPERTIES
  LogIsATransactionLog
  CommitLagsByAtMostOne
