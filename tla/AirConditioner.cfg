SPECIFICATION FairSpec
CONSTANTS
  Kinds = {"AC", "LC"}
  Requests <- AllRequests
  CoolInit = 4
  HeatInit = 1
  CoolDiffInit = 2
  HeatDiffInit = 1
  RoomInit = 6
  Ambients <- MildAmbients
PROPERTIES  RoomIsKept
