SPECIFICATION FairSpec
CONSTANTS
  PseudoLen = 0
  LineLens = {1}
  MaxLines = 1
  MaxGet = 0
  MaxStray = 0
  MaxDown = 1
  MaxWakeups = 0
CHECK_DEADLOCK FALSE
PROPERTY QuitReturns
