SPECIFICATION MCFairSpec
CONSTANTS
  Cap = 2
  InitEnergy = 1
  Rated = 1
  Fine = 2
  Delays = {1}
  Requests <- PulseRequests
  TanAcos <- MCTanAcos
  Nominal = 10
  VoltageSpan = 0
  Deadband = 1
  FullResponse = 2
  Resistance = 0
  Reactance = 1
  Base = 2
  MaxTotal = 2
INVARIANTS TypeOK DeadUnitIsIdle DeadBusIsFaulted
PROPERTIES FaultIsLatched StopWins SystemFlagsExact ChargeCompletes
