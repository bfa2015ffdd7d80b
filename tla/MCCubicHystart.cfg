CONSTANTS
  Clamp = 2
  InitCwnd = 1
  InfSsthresh = 5
  MaxAcked = 1
  MaxCnt = 0
  UsecPerJiffy = 1
  UsecPerSec = 1
  BicHz = 1
  CubeRttScale = 2
  CubeDiv = 8
  Beta = 3
  BetaScale = 4
  FriendScale = 8
  U32 = 64
  UpdateHold = 1
  SampleHold = 2
  LowWindow = 1
  AckDelta = 1
  MinSamples = 1
  DelayMin = 1
  DelayMax = 2
  InfRtt = 9
  Rtts = {0, 4}
  AckDelays = {1}
  MaxNow = 3
  MaxCredit = 1
  MaxTcpCwnd = 2
SPECIFICATION Spec
INVARIANT RoundDelayAboveBase
 
