SPECIFICATION FairStartup
CONSTANTS
  MaxEnergy = 2
  MaxCrashes = 1
  Configs <- MCConfigs
INVARIANTS FileWhole AcceptedStarts ShownIsCounted
PROPERTIES StoreLife Reliable ProcessEnds
