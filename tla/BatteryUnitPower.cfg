SPECIFICATION MCRestoreSpec
CONSTANTS
  Cap = 3
  InitEnergy = 2
  Rated = 1
  Fine = 2
  Delays = {1, 2}
  Requests <- PowerRequests
  TanAcos <- MCTanAcos
  Nominal = 10
  VoltageSpan = 2
  Deadband = 1
  FullResponse = 2
  Resistance = 0
  Reactance = 1
  Base = 2
  MaxTotal = 4
  SavedStates <- MCSavedStates
INVARIANTS AliasesAgree CapacityRespected
PROPERTIES NoFlowPastLimit LedgerBalances OverfullIsShed
