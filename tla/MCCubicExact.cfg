CONSTANTS
  Windows = {100, 900, 7000}
  FirstT = 1
SPECIFICATION ExactSpec
INVARIANTS RootIsClose CurveFitsAfterReduction
CHECK_DEADLOCK FALSE
