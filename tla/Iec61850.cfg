SPECIFICATION MCIecSpec
CONSTANTS
  Cap = 2
  InitEnergy = 2
  Rated = 1
  Fine = 2
  Delays = {0, 1}
  Requests <- MCRequests
  TanAcos <- MCTanAcos
  Nominal = 10
  VoltageSpan = 0
  Deadband = 1
  FullResponse = 2
  Resistance = 0
  Reactance = 1
  Base = 2
  Operations <- MCOperations
  CommandRange <- MCCommandRange
  RaiseAt = 2
  ClearAt = 0
  Interval = 2
  ClockSteps <- MCClockSteps
  MaxWait = 2
  MaxTotal = 2
INVARIANTS ReadBackWhole PublishedStatusTrue
PROPERTIES BehavesAsUnit StandbyIdles AlarmSwings GooseGoesOn
