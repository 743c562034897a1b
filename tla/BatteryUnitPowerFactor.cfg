SPECIFICATION MCSpec
CONSTANTS
  Cap = 3
  InitEnergy = 1
  Rated = 1
  Fine = 2
  Delays = {1}
  Requests <- PowerFactorRequests
  TanAcos <- MCTanAcos
  Nominal = 10
  VoltageSpan = 0
  Deadband = 1
  FullResponse = 2
  Resistance = 0
  Reactance = 1
  Base = 2
  MaxTotal = 12
PROPERTY NoReactiveWithoutActive
