SPECIFICATION MCXnSpec
CONSTANTS
  Cap = 1
  InitEnergy = 1
  Rated = 1
  Fine = 2
  Delays = {1}
  Requests <- MCRequests
  TanAcos <- MCTanAcos
  Nominal = 10
  VoltageSpan = 0
  Deadband = 1
  FullResponse = 2
  Resistance = 0
  Reactance = 1
  Base = 2
  Clusters = 2
  XnRequests <- MCXnRequests
  MaxTotal = 1
INVARIANTS StackAndClustersAgree
PROPERTIES BehavesAsUnit ForwardedOpenOpens
