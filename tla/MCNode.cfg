SPECIFICATION FairSpec
CONSTANTS
  SINGLE_BLOB_SIZE = 1
  MAX_BLOCK_INDEX = 1
  Wires <- Messages
  MaxRequests = 2
  MaxOutbox = 1
CHECK_DEADLOCK FALSE
INVARIANTS
  TypeOK
  TheAppEndsForAReason
  P2POutlivesTheApp
  CanceledOnlyAfterStop
  AnswersKeepOrder
PROPERTIES
  RequestsAreResolved
  AckedIsHandled
