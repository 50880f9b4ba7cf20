CONSTANTS
  GenArraySize = 5
  InputCurves <- MCInputCurves
  InputRoundings <- MCInputRoundings
SPECIFICATION LoopSpec
INVARIANT Correct
CHECK_DEADLOCK FALSE
