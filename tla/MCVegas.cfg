CONSTANTS
  Clamp = 3
  InitCwnd = 2
  InfSsthresh = 4
  MaxAcked = 2
  MaxCnt = 1
  SeqMod = 5
  MaxFlight = 2
  CntMod = 5
  U32 = 8
  InfRTT = 4
  RttSamples = {0, 2, 4}
SPECIFICATION Spec
VIEW ShiftedView
INVARIANTS TypeOK RttOrder
PROPERTIES CalculatesOnFreshFeedback MovesByOne
