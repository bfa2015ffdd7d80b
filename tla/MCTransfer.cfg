CONSTANTS
  SrcLen = 3
  BUF_SIZE = 2
  StreamCap = 2
SPECIFICATION FairSpec
INVARIANTS TypeOK PositionIsEndOfFile
PROPERTIES SlowCopyEnds ImplementsFileCopy
CHECK_DEADLOCK FALSE
