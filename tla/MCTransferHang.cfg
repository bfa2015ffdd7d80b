CONSTANTS
  SrcLen = 3
  BUF_SIZE = 2
  StreamCap = 2
SPECIFICATION FairSpec
PROPERTY FastCopyEnds
CHECK_DEADLOCK FALSE
