SPECIFICATION FairSpec
CONSTANTS
  Word = 2
  Growth = {0, 1}
  MaxTicks = 1
  MaxQueue = 1
PROPERTY CloseReturns
CHECK_DEADLOCK FALSE
