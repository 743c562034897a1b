SPECIFICATION FairSpec
CONSTANTS
  Word = 2
  Growth = {0, 1}
  MaxTicks = 2
  MaxQueue = 1
INVARIANT FreshRound
PROPERTIES TotalNeverFalls CloseReturnsInTraffic
CHECK_DEADLOCK FALSE
