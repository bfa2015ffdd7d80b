CONSTANTS
  Windows = {100, 900, 7000}
  FirstT = 1
SPECIFICATION ExactSpec
INVARIANT NoOverflowBelowAMillion
CHECK_DEADLOCK FALSE
