CONSTANTS
  Clamp = 3
  MinTarget = 1
  MaxAcked = 1
  MaxLost = 1
  Flights <- MCFlights
  Targets <- MCTargets
  FullBwCnt = 2
  CYCLE_LEN = 4
  BBR_UNIT = 4
  LtMinRtts = 2
  LtMaxRtts = 3
  WinRtts = 2
  EpochMax = 4
  U16 = 3
  Sacked = {1, 3}
  Expected = {0, 2}
  Windows = {2, 4}
SPECIFICATION MCSpec
INVARIANTS
  TypeOK DipIsShallow  
    CoversRecentRounds
PROPERTIES
  ImplementsBbrModes  FullPipeNeedsFlatRounds DipEnds
  
