CONSTANTS
  Clamp = 3
  InitCwnd = 1
  InfSsthresh = 5
  MaxAcked = 2
  MaxCnt = 0
  UsecPerJiffy = 1
  UsecPerSec = 1
  BicHz = 1
  CubeRttScale = 2
  CubeDiv = 8
  Beta = 3
  BetaScale = 4
  FriendScale = 8
  U32 = 64
  UpdateHold = 1
  SampleHold = 2
  LowWindow = 4
  AckDelta = 1
  MinSamples = 1
  DelayMin = 1
  DelayMax = 2
  InfRtt = 9
  Rtts = {0}
  AckDelays = {0}
  MaxNow = 4
  MaxCredit = 3
  MaxTcpCwnd = 3
SPECIFICATION Spec
VIEW GrowthView
PROPERTY ReductionForcesRecalculation
