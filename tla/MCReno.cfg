CONSTANTS
  Clamp = 5
  InitCwnd = 2
  InfSsthresh = 9
  MaxAcked = 3
  MaxCnt = 7
SPECIFICATION FairSpec
INVARIANT TypeOK
PROPERTIES ImplementsAimd  Climbs
