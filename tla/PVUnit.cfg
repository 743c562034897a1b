SPECIFICATION MCSpec
CONSTANTS
  Rated = 2
  Suns = {0, 2}
  Delays = {1}
  Dates <- Calendar
  Requests <- LimitRequests
  MaxRaw = 65535
  MaxTotal = 3
INVARIANT PeriodsNest
PROPERTIES TotalSurvives LastLimitWins
