SPECIFICATION FairSpec
CONSTANTS
  SINGLE_BLOB_SIZE = 6
  MAX_BLOCK_INDEX = 1
CHECK_DEADLOCK FALSE
INVARIANTS
  TypeOK
  IntervalsAreMissing
  IntervalsAreApart
  NobodyPanics
  AnswerIsExact
PROPERTIES
  DelaysAreAnswered
