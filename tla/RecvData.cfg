SPECIFICATION FairSpec
CONSTANTS
  Answers <- Regular
  ReadMax = 4
  HeadLen = 2
INVARIANTS TypeOK Exact
PROPERTIES Received
CHECK_DEADLOCK FALSE
